-------------------------- MODULE ConfigLoad_proofs --------------------------
(***************************************************************************)
(* What resolveInherits does, for any list of presets, and what LoadMulti  *)
(* returns, for any files and any environment.                             *)
(***************************************************************************)
EXTENDS ConfigLoad, FiniteSetTheorems, Lists_proofs

-----------------------------------------------------------------------------
(* resolveInherits, for any list of presets *)

Frames == DOMAIN stack

\* Parent number n of preset i is complete.
DoneUpTo(i, n) ==
  \A k \in 1 .. n, p \in Indices : Named(presets[i].Inherits[k], p) => p \in resolved

\* Frame k is about a preset that is reached once, whose earlier parents are
\* complete.
FrameInv(k) ==
  /\ stack[k].idx \in Indices \ resolved
  /\ presets[stack[k].idx].Inherits # Malformed => 
       /\ stack[k].next \in 1 .. Len(presets[stack[k].idx].Inherits) + 1
       /\ DoneUpTo(stack[k].idx, stack[k].next - 1)
  /\ \A j \in Frames : stack[j].idx = stack[k].idx => j = k

\* Frame k waits for frame k + 1.
ChainInv ==
  \A k \in Frames : k + 1 \in Frames => Inherits(stack[k].idx, stack[k + 1].idx)

\* What is complete does not lead out of what is complete.
ClosedInv ==
  \A i \in resolved :
    /\ presets[i].Inherits # Malformed
    /\ DoneUpTo(i, Len(presets[i].Inherits))

OuterInv ==
  /\ cursor \in Nat \ {0}
  /\ \A i \in Indices : i < cursor => i \in resolved
  /\ outcome = "complete" => Indices \subseteq resolved

\* What is complete is in no knot.
KnotInv ==
  /\ \A S \in SUBSET Indices : Knot(S) => S \cap resolved = {}
  /\ outcome = "circular" => \E S \in SUBSET Indices : Knot(S)

WalkInv ==
  /\ \A k \in Frames : FrameInv(k)
  /\ ChainInv /\ ClosedInv /\ OuterInv

-----------------------------------------------------------------------------
(* Types *)

LEMMA InheritsType ==
  ASSUME WalkTypeOK, NEW i \in Indices, presets[i].Inherits # Malformed
  PROVE  /\ presets[i] \in Preset
         /\ presets[i].Inherits \in Seq(STRING)
         /\ DOMAIN presets[i].Inherits = 1 .. Len(presets[i].Inherits)
         /\ Len(presets[i].Inherits) \in Nat
<1>1. presets[i] \in Preset
  BY DEF WalkTypeOK, Indices
<1>2. presets[i].Inherits \in Seq(STRING)
  BY <1>1 DEF Preset
<1>3. QED
  BY <1>1, <1>2

LEMMA TopType ==
  ASSUME WalkTypeOK, stack # <<>>
  PROVE  /\ Len(stack) \in Nat \ {0} /\ Len(stack) \in Frames
         /\ Frames = 1 .. Len(stack)
         /\ Top = stack[Len(stack)] /\ Top \in Frame /\ Top.idx \in Indices
<1>1. stack \in Seq(Frame) /\ Len(stack) \in Nat /\ Frames = 1 .. Len(stack)
  BY DEF WalkTypeOK, Frames
<1>2. Len(stack) # 0
  BY <1>1
<1>3. Len(stack) \in Frames
  BY <1>1, <1>2
<1>4. QED
  BY <1>1, <1>2, <1>3 DEF Top, WalkTypeOK, Frames

LEMMA FillInType ==
  ASSUME NEW c \in Preset, NEW p \in Preset
  PROVE  /\ FillIn(c, p) \in Preset
         /\ FillIn(c, p).Name = c.Name /\ FillIn(c, p).Inherits = c.Inherits
BY DEF FillIn, Preset

\* The steps of a walk leave the list alone, but for FillIn.
LEMMA InheritType ==
  ASSUME WalkTypeOK, InheritFrom
  PROVE  /\ presets' \in Seq(Preset) /\ Indices' = Indices
         /\ \A i \in Indices : /\ presets'[i].Name = presets[i].Name
                               /\ presets'[i].Inherits = presets[i].Inherits
<1>1. PICK p \in resolved : presets' = [presets EXCEPT ![Top.idx] = FillIn(@, presets[p])]
  BY DEF InheritFrom
<1>2. presets \in Seq(Preset) /\ p \in Indices /\ Top.idx \in Indices
  BY TopType DEF WalkTypeOK, InheritFrom, AtParent
<1>3. presets[p] \in Preset /\ presets[Top.idx] \in Preset
  BY <1>2 DEF Indices
<1>4. FillIn(presets[Top.idx], presets[p]) \in Preset
  BY <1>3, FillInType
<1>5. presets' \in Seq(Preset) /\ Indices' = Indices
  BY <1>1, <1>2, <1>4 DEF Indices
<1>6. QED
  BY <1>1, <1>2, <1>3, <1>5, FillInType DEF Indices

LEMMA WalkTypeStep == WalkTypeOK /\ [WalkStep]_walk => WalkTypeOK'
<1> SUFFICES ASSUME WalkTypeOK, [WalkStep]_walk
             PROVE  WalkTypeOK'
  OBVIOUS
<1>1. CASE EnterPreset
  <2>1. stack' = <<Enter(cursor)>> /\ Enter(cursor) \in Frame /\ cursor \in Indices
    BY <1>1 DEF EnterPreset, Enter, Frame, WalkTypeOK
  <2>2. stack' \in Seq(Frame) /\ \A k \in DOMAIN stack' : stack'[k].idx = cursor
    BY <2>1 DEF Enter
  <2>3. QED
    BY <1>1, <2>1, <2>2 DEF EnterPreset, WalkTypeOK, Indices
<1>2. CASE NextPreset \/ WalkEnds \/ MalformedInherits \/ CircularInherits
  BY <1>2 DEF NextPreset, WalkEnds, MalformedInherits, CircularInherits, WalkTypeOK, Indices
<1>3. ASSUME stack # <<>>, SkipParent
      PROVE  stack' \in Seq(Frame) /\ \A k \in DOMAIN stack' : stack'[k].idx \in Indices
  <2>1. stack' = [stack EXCEPT ![Len(stack)].next = Top.next + 1]
    BY <1>3 DEF SkipParent, Top
  <2>2. Top.next + 1 \in Nat
    BY <1>3, TopType DEF Frame
  <2>3. stack \in Seq(Frame) /\ Len(stack) \in Frames /\ Frames = 1 .. Len(stack)
    BY <1>3, TopType DEF WalkTypeOK
  <2>4. [Top EXCEPT !.next = Top.next + 1] \in Frame
    BY <1>3, <2>2, TopType DEF Frame
  <2>5. stack' = [stack EXCEPT ![Len(stack)] = [Top EXCEPT !.next = Top.next + 1]]
    BY <2>1 DEF Top
  <2>6. stack' \in Seq(Frame) /\ DOMAIN stack' = Frames
    BY <2>3, <2>4, <2>5 DEF Frames
  <2>7. \A k \in Frames : stack'[k].idx = stack[k].idx
    BY <1>3, <2>3, <2>5, TopType DEF Frame, Frames
  <2>8. QED
    BY <2>6, <2>7 DEF WalkTypeOK, Frames
<1>4. CASE UnknownParent
  BY <1>3, <1>4 DEF UnknownParent, AtParent, WalkTypeOK, Indices
<1>5. CASE InheritFrom
  <2>1. /\ stack' \in Seq(Frame) /\ \A k \in DOMAIN stack' : stack'[k].idx \in Indices
        /\ UNCHANGED <<given, resolved, cursor, outcome>>
    BY <1>3, <1>5 DEF InheritFrom, AtParent
  <2>2. Len(presets') = Len(presets)
    BY <1>5 DEF InheritFrom, WalkTypeOK
  <2>3. QED
    BY <1>5, <2>1, <2>2, InheritType DEF WalkTypeOK
<1>6. CASE Descend
  <2>1. PICK p \in Indices : stack' = Append(stack, Enter(p))
    BY <1>6 DEF Descend
  <2>2. Enter(p) \in Frame /\ Enter(p).idx = p
    BY <2>1 DEF Enter, Frame, Indices, WalkTypeOK
  <2>3. stack' \in Seq(Frame) /\ \A k \in DOMAIN stack' : stack'[k].idx \in Indices
    BY <2>1, <2>2 DEF WalkTypeOK
  <2>4. QED
    BY <1>6, <2>3 DEF Descend, WalkTypeOK, Indices
<1>7. CASE Leave
  <2>1. stack' \in Seq(Frame) /\ \A k \in DOMAIN stack' : stack'[k].idx \in Indices
    BY <1>7, TopType DEF Leave, Pop, WalkTypeOK
  <2>2. QED
    BY <1>7, <2>1, TopType DEF Leave, WalkTypeOK, Indices
<1>8. CASE UNCHANGED walk
  BY <1>8 DEF walk, WalkTypeOK, Indices
<1>9. QED
  BY <1>1, <1>2, <1>4, <1>5, <1>6, <1>7, <1>8 DEF WalkStep

-----------------------------------------------------------------------------
(* The steps of resolve *)

LEMMA SkipFrames ==
  ASSUME WalkTypeOK, stack # <<>>, SkipParent
  PROVE  /\ Frames' = Frames
         /\ \A k \in Frames : stack'[k].idx = stack[k].idx
         /\ \A k \in Frames : k # Len(stack) => stack'[k].next = stack[k].next
         /\ stack'[Len(stack)].next = Top.next + 1
<1>1. stack' = [stack EXCEPT ![Len(stack)] = [Top EXCEPT !.next = Top.next + 1]]
  BY DEF SkipParent, Top
<1>2. stack \in Seq(Frame) /\ Len(stack) \in Frames /\ Top \in Frame /\ Top = stack[Len(stack)]
  BY TopType DEF WalkTypeOK
<1>3. [Top EXCEPT !.next = Top.next + 1].idx = Top.idx
  BY <1>2 DEF Frame
<1>4. [Top EXCEPT !.next = Top.next + 1].next = Top.next + 1
  BY <1>2 DEF Frame
<1>5. QED
  BY <1>1, <1>2, <1>3, <1>4 DEF Frames

LEMMA PopFrames ==
  ASSUME WalkTypeOK, stack # <<>>, stack' = Pop
  PROVE  /\ Frames' = Frames \ {Len(stack)}
         /\ \A k \in Frames' : stack'[k] = stack[k]
<1>1. /\ Len(stack) \in Nat \ {0} /\ stack \in Seq(Frame)
      /\ Frames = 1 .. Len(stack)
  BY TopType DEF WalkTypeOK
<1>2. Frames' = 1 .. Len(stack) - 1
  BY <1>1 DEF Pop, Frames
<1>3. QED
  BY <1>1, <1>2 DEF Pop, Frames

LEMMA PushFrames ==
  ASSUME WalkTypeOK, NEW i \in Indices, stack' = Append(stack, Enter(i))
  PROVE  /\ Len(stack) \in Nat /\ Frames = 1 .. Len(stack)
         /\ Frames' = 1 .. Len(stack) + 1
         /\ \A k \in Frames : stack'[k] = stack[k]
         /\ stack'[Len(stack) + 1].idx = i /\ stack'[Len(stack) + 1].next = 1
<1>1. stack \in Seq(Frame)
  BY DEF WalkTypeOK
<1>2. Enter(i).idx = i /\ Enter(i).next = 1
  BY DEF Enter
<1>3. QED
  BY <1>1, <1>2 DEF Frames

\* Only the names and the parents of presets count for who inherits from whom.
LEMMA SameFamily ==
  ASSUME WalkTypeOK, Indices' = Indices,
         \A i \in Indices : /\ presets'[i].Name = presets[i].Name
                            /\ presets'[i].Inherits = presets[i].Inherits
  PROVE  /\ \A name : \A i \in Indices : Named(name, i)' <=> Named(name, i)
         /\ \A i, p \in Indices : Inherits(i, p)' <=> Inherits(i, p)
         /\ \A S \in SUBSET Indices : Knot(S)' <=> Knot(S)
<1>1. ASSUME NEW name, NEW i \in Indices
      PROVE  Named(name, i)' <=> Named(name, i)
  BY DEF Named
<1>2. ASSUME NEW i \in Indices, NEW p \in Indices
      PROVE  Inherits(i, p)' <=> Inherits(i, p)
  BY <1>1 DEF Inherits
<1>3. ASSUME NEW S \in SUBSET Indices
      PROVE  Knot(S)' <=> Knot(S)
  BY <1>2 DEF Knot
<1>4. QED
  BY <1>1, <1>2, <1>3

LEMMA Family ==
  ASSUME WalkTypeOK, [WalkStep]_walk
  PROVE  /\ Indices' = Indices
         /\ \A i \in Indices : /\ presets'[i].Name = presets[i].Name
                               /\ presets'[i].Inherits = presets[i].Inherits
<1>1. CASE InheritFrom
  BY <1>1, InheritType
<1>2. CASE presets' = presets
  BY <1>2 DEF Indices
<1>3. QED
  BY <1>1, <1>2 DEF walk, WalkStep, EnterPreset, NextPreset, WalkEnds, MalformedInherits,
     UnknownParent, Descend, CircularInherits, Leave

\* What was complete remains so.
LEMMA DoneMore ==
  ASSUME WalkTypeOK, [WalkStep]_walk, resolved \subseteq resolved',
         NEW i \in Indices, NEW n, DoneUpTo(i, n)
  PROVE  DoneUpTo(i, n)'
BY Family, SameFamily DEF DoneUpTo

\* A parent that is not known, or complete, is passed by.
LEMMA SkipInv ==
  ASSUME WalkTypeOK, WalkInv, WalkStep, AtParent, SkipParent,
         resolved' = resolved,
         \A p \in Indices : Named(NextParent, p) => p \in resolved
  PROVE  (\A k \in Frames : FrameInv(k))' /\ ChainInv'
<1> DEFINE top == Len(stack)
<1>1. /\ stack # <<>> /\ Parents # Malformed /\ Top.next \in DOMAIN Parents
      /\ Top = stack[top] /\ top \in Frames /\ Top.idx \in Indices
  BY TopType DEF AtParent
<1>2. /\ Frames' = Frames
      /\ \A k \in Frames : stack'[k].idx = stack[k].idx
      /\ \A k \in Frames : k # top => stack'[k].next = stack[k].next
      /\ stack'[top].next = Top.next + 1
  BY <1>1, SkipFrames
<1>3. /\ Indices' = Indices
      /\ \A i \in Indices : presets'[i].Inherits = presets[i].Inherits
  BY Family
<1>4. ASSUME NEW k \in Frames
      PROVE  FrameInv(k)'
  <2>1. FrameInv(k) /\ stack'[k].idx = stack[k].idx
    BY <1>2 DEF WalkInv
  <2>2. \A j \in Frames' : stack'[j].idx = stack'[k].idx => j = k
    BY <1>2, <2>1 DEF FrameInv
  <2>3. PICK i, n : i \in Indices \ resolved /\ i = stack[k].idx /\ n = stack[k].next
    BY <2>1 DEF FrameInv
  <2>4. CASE k # top
    <3>1. stack'[k].idx = i /\ stack'[k].next = n
      BY <1>2, <2>1, <2>3, <2>4
    <3>2. ASSUME presets[i].Inherits # Malformed
          PROVE  n \in 1 .. Len(presets[i].Inherits) + 1 /\ DoneUpTo(i, n - 1)'
      BY <2>1, <2>3, <3>2, DoneMore DEF FrameInv
    <3>3. QED
      BY <1>3, <2>2, <2>3, <3>1, <3>2 DEF FrameInv
  <2>5. CASE k = top
    <3>1. i = Top.idx /\ n = Top.next /\ Parents = presets[i].Inherits
      BY <1>1, <2>3, <2>5 DEF Parents
    <3>2. DOMAIN Parents = 1 .. Len(Parents) /\ Len(Parents) \in Nat /\ n \in Nat
      BY <1>1, <3>1, InheritsType
    <3>3. DoneUpTo(i, n - 1)
      BY <1>1, <2>1, <2>3, <3>1 DEF FrameInv
    <3>4. DoneUpTo(i, n)
      BY <1>1, <3>1, <3>2, <3>3 DEF DoneUpTo, NextParent
    <3>5. DoneUpTo(i, n)'
      BY <2>3, <3>4, DoneMore
    <3>6. stack'[k].idx = i /\ stack'[k].next = n + 1 /\ n + 1 - 1 = n
      BY <1>2, <2>1, <2>3, <2>5, <3>1, <3>2
    <3>7. QED
      BY <1>1, <1>3, <2>2, <2>3, <3>1, <3>2, <3>5, <3>6 DEF FrameInv
  <2>6. QED
    BY <2>4, <2>5
<1>5. ChainInv'
  <2> SUFFICES ASSUME NEW k \in Frames, k + 1 \in Frames
               PROVE  Inherits(stack[k].idx, stack[k + 1].idx)'
    BY <1>2 DEF ChainInv
  <2>1. stack[k].idx \in Indices /\ stack[k + 1].idx \in Indices
    BY DEF WalkTypeOK, Frames
  <2>2. Inherits(stack[k].idx, stack[k + 1].idx)
    BY DEF WalkInv, ChainInv
  <2>3. QED
    BY <1>2, <2>1, <2>2, Family, SameFamily
<1>6. QED
  BY <1>2, <1>4, <1>5

\* A step that leaves the frames alone, and what is complete.
LEMMA RestInv ==
  ASSUME WalkTypeOK, WalkInv, UNCHANGED <<given, presets, resolved, stack>>
  PROVE  /\ (\A k \in Frames : FrameInv(k))' /\ ChainInv' /\ ClosedInv'
         /\ Indices' = Indices
BY DEF WalkInv, FrameInv, ChainInv, ClosedInv, DoneUpTo, Named, Inherits, Frames, Indices

LEMMA ClosedStays ==
  ASSUME WalkTypeOK, WalkInv, [WalkStep]_walk, resolved' = resolved
  PROVE  ClosedInv'
<1>1. ASSUME NEW i \in resolved
      PROVE  /\ presets'[i].Inherits # Malformed
             /\ DoneUpTo(i, Len(presets[i].Inherits))'
  <2>1. /\ i \in Indices /\ presets[i].Inherits # Malformed
        /\ DoneUpTo(i, Len(presets[i].Inherits))
    BY DEF WalkTypeOK, WalkInv, ClosedInv
  <2>2. PICK n : n = Len(presets[i].Inherits)
    OBVIOUS
  <2>3. DoneUpTo(i, n)'
    BY <2>1, <2>2, DoneMore
  <2>4. QED
    BY <2>1, <2>2, <2>3, Family
<1>2. QED
  BY <1>1 DEF ClosedInv

LEMMA OuterStays ==
  ASSUME WalkTypeOK, WalkInv, [WalkStep]_walk, resolved \subseteq resolved',
         cursor' = cursor, outcome' # "complete" \/ outcome' = outcome
  PROVE  OuterInv'
BY Family DEF WalkInv, OuterInv

\* A frame is left when all its parents are complete.
LEMMA LeaveDone ==
  ASSUME WalkTypeOK, WalkInv, Leave
  PROVE  DoneUpTo(Top.idx, Len(Parents))
<1>1. /\ stack # <<>> /\ Parents # Malformed /\ Top.next \notin DOMAIN Parents
      /\ Top = stack[Len(stack)] /\ Len(stack) \in Frames /\ Top.idx \in Indices
  BY TopType DEF Leave
<1>2. DOMAIN Parents = 1 .. Len(Parents) /\ Len(Parents) \in Nat
  BY <1>1, InheritsType DEF Parents
<1>3. Top.next \in 1 .. Len(Parents) + 1 /\ DoneUpTo(Top.idx, Top.next - 1)
  BY <1>1 DEF WalkInv, FrameInv, Parents
<1>4. Top.next - 1 = Len(Parents)
  BY <1>1, <1>2, <1>3
<1>5. QED
  BY <1>3, <1>4

LEMMA WalkInvStep == WalkTypeOK /\ WalkInv /\ [WalkStep]_walk => WalkInv'
<1> SUFFICES ASSUME WalkTypeOK, WalkInv, [WalkStep]_walk
             PROVE  WalkInv'
  OBVIOUS
<1>1. CASE EnterPreset
  <2>1. /\ cursor \in Indices \ resolved /\ stack = <<>>
        /\ stack' = <<Enter(cursor)>>
        /\ UNCHANGED <<presets, resolved, cursor, outcome>>
    BY <1>1 DEF EnterPreset
  <2>2. /\ Frames' = {1} /\ stack'[1].idx = cursor /\ stack'[1].next = 1
        /\ Indices' = Indices
    BY <2>1 DEF Frames, Enter, Indices
  <2>3. FrameInv(1)'
    <3>1. ASSUME presets[cursor].Inherits # Malformed
          PROVE  Len(presets[cursor].Inherits) \in Nat
      BY <2>1, <3>1, InheritsType
    <3>2. QED
      BY <2>1, <2>2, <3>1 DEF FrameInv, DoneUpTo
  <2>4. ChainInv'
    BY <2>2 DEF ChainInv
  <2>5. QED
    BY <2>1, <2>2, <2>3, <2>4, ClosedStays, OuterStays DEF WalkInv
<1>2. CASE NextPreset
  <2>1. OuterInv'
    BY <1>2, RestInv DEF NextPreset, WalkInv, OuterInv, WalkTypeOK, Indices
  <2>2. QED
    BY <1>2, <2>1, RestInv DEF NextPreset, WalkInv
<1>3. CASE WalkEnds
  <2>1. Indices = 1 .. Len(presets) /\ Len(presets) \in Nat
    BY DEF WalkTypeOK, Indices
  <2>2. OuterInv'
    BY <1>3, <2>1, RestInv DEF WalkEnds, WalkInv, OuterInv
  <2>3. QED
    BY <1>3, <2>2, RestInv DEF WalkEnds, WalkInv
<1>4. CASE MalformedInherits \/ CircularInherits \/ UNCHANGED walk
  <2>1. /\ UNCHANGED <<given, presets, resolved, stack, cursor>>
        /\ outcome' # "complete" \/ outcome' = outcome
    BY <1>4 DEF MalformedInherits, CircularInherits, walk
  <2>2. QED
    BY <2>1, RestInv, OuterStays DEF WalkInv
<1>5. CASE UnknownParent
  <2>1. \A p \in Indices : ~Named(NextParent, p)
    BY <1>5 DEF UnknownParent, Known, Named
  <2>2. (\A k \in Frames : FrameInv(k))' /\ ChainInv'
    BY <1>5, <2>1, SkipInv DEF UnknownParent, WalkStep
  <2>3. QED
    BY <1>5, <2>2, ClosedStays, OuterStays DEF UnknownParent, WalkInv
<1>6. CASE InheritFrom
  <2>1. \A p \in Indices : Named(NextParent, p) => p \in resolved
    <3>1. PICK p \in resolved : Named(NextParent, p)
      BY <1>6 DEF InheritFrom
    <3>2. ASSUME NEW q \in Indices, Named(NextParent, q)
          PROVE  q = p
      BY <3>1, <3>2 DEF Named, WalkTypeOK, Indices
    <3>3. QED
      BY <3>1, <3>2
  <2>2. (\A k \in Frames : FrameInv(k))' /\ ChainInv'
    BY <1>6, <2>1, SkipInv DEF InheritFrom, WalkStep
  <2>3. QED
    BY <1>6, <2>2, ClosedStays, OuterStays DEF InheritFrom, WalkInv
<1>7. CASE Descend
  <2> DEFINE top == Len(stack)
  <2>1. PICK p \in Indices \ resolved :
          Named(NextParent, p) /\ ~InStack(p) /\ stack' = Append(stack, Enter(p))
    BY <1>7 DEF Descend
  <2>2. /\ UNCHANGED <<presets, resolved, cursor, outcome>> /\ Indices' = Indices
        /\ stack # <<>> /\ Parents # Malformed /\ Top.next \in DOMAIN Parents
    BY <1>7 DEF Descend, AtParent, Indices
  <2>3. /\ top \in Nat \ {0} /\ Frames = 1 .. top /\ Frames' = 1 .. top + 1
        /\ \A k \in Frames : stack'[k] = stack[k]
        /\ stack'[top + 1].idx = p /\ stack'[top + 1].next = 1
        /\ Top = stack[top] /\ Top.idx \in Indices
    BY <2>1, <2>2, TopType, PushFrames
  <2>4. \A k \in Frames : stack[k].idx # p
    BY <2>1 DEF InStack, Frames
  <2>5. ASSUME NEW k \in Frames
        PROVE  FrameInv(k)'
    <3>1. FrameInv(k) /\ stack'[k] = stack[k] /\ k # top + 1
      BY <2>3 DEF WalkInv
    <3>2. \A j \in Frames' : stack'[j].idx = stack'[k].idx => j = k
      BY <2>3, <2>4, <3>1 DEF FrameInv
    <3>3. QED
      BY <2>2, <3>1, <3>2 DEF FrameInv, DoneUpTo, Named, Indices
  <2>n. PICK n \in Nat : n = top + 1
    BY <2>3
  <2>6. FrameInv(n)'
    <3>1. ASSUME presets[p].Inherits # Malformed
          PROVE  Len(presets[p].Inherits) \in Nat
      BY <2>1, <3>1, InheritsType
    <3>2. \A j \in Frames' : stack'[j].idx = p => j = top + 1
      BY <2>3, <2>4
    <3>3. QED
      BY <2>1, <2>2, <2>3, <2>n, <3>1, <3>2 DEF FrameInv, DoneUpTo
  <2>7. Inherits(Top.idx, p)
    BY <2>1, <2>2 DEF Inherits, Parents, NextParent
  <2>8. ChainInv'
    <3> SUFFICES ASSUME NEW k \in Frames', k + 1 \in Frames'
                 PROVE  Inherits(stack[k].idx, stack[k + 1].idx)'
      BY DEF ChainInv
    <3>1. Inherits(stack'[k].idx, stack'[k + 1].idx)
      <4>1. CASE k = top
        BY <2>3, <2>7, <4>1
      <4>2. CASE k # top
        <5>1. k \in Frames /\ k + 1 \in Frames
          BY <2>3, <4>2
        <5>2. QED
          BY <2>3, <5>1 DEF WalkInv, ChainInv
      <4>3. QED
        BY <4>1, <4>2
    <3>2. QED
      BY <2>2, <3>1 DEF Inherits, Named, Indices
  <2>9. \A k \in Frames' : k \in Frames \/ k = n
    BY <2>3, <2>n
  <2>10. (\A k \in Frames : FrameInv(k))'
    BY <2>5, <2>6, <2>9
  <2>11. QED
    BY <2>2, <2>8, <2>10, ClosedStays, OuterStays DEF WalkInv
<1>8. CASE Leave
  <2> DEFINE top == Len(stack)
  <2>1. /\ stack # <<>> /\ stack' = Pop /\ resolved' = resolved \cup {Top.idx}
        /\ UNCHANGED <<presets, cursor, outcome>> /\ Indices' = Indices
        /\ Parents # Malformed /\ Top.next \notin DOMAIN Parents
    BY <1>8 DEF Leave, Indices
  <2>2. /\ top \in Frames /\ Top = stack[top] /\ Top.idx \in Indices
        /\ Frames = 1 .. top /\ top \in Nat \ {0}
    BY <2>1, TopType
  <2>3. Frames' = Frames \ {top} /\ \A k \in Frames' : stack'[k] = stack[k]
    BY <2>1, PopFrames
  <2>4. ASSUME NEW k \in Frames'
        PROVE  FrameInv(k)'
    <3>1. FrameInv(k) /\ k \in Frames /\ k # top /\ stack'[k] = stack[k]
      BY <2>3 DEF WalkInv
    <3>2. stack[k].idx \notin resolved'
      BY <2>1, <2>2, <3>1 DEF FrameInv
    <3>3. QED
      BY <2>1, <2>3, <3>1, <3>2 DEF FrameInv, DoneUpTo, Named, Indices
  <2>5. ChainInv'
    <3> SUFFICES ASSUME NEW k \in Frames', k + 1 \in Frames'
                 PROVE  Inherits(stack[k].idx, stack[k + 1].idx)'
      BY DEF ChainInv
    <3>1. Inherits(stack'[k].idx, stack'[k + 1].idx)
      BY <2>3 DEF WalkInv, ChainInv
    <3>2. QED
      BY <2>1, <3>1 DEF Inherits, Named, Indices
  <2>6. DoneUpTo(Top.idx, Len(Parents))
    BY <1>8, LeaveDone
  <2>7. ClosedInv'
    BY <2>1, <2>2, <2>6 DEF WalkInv, ClosedInv, DoneUpTo, Parents, Named, Indices
  <2>8. QED
    BY <2>1, <2>4, <2>5, <2>7, OuterStays DEF WalkInv
<1>9. QED
  BY <1>1, <1>2, <1>3, <1>4, <1>5, <1>6, <1>7, <1>8 DEF WalkStep

-----------------------------------------------------------------------------
(* Knots *)

\* A parent that is under way closes a knot.
LEMMA StackKnot ==
  ASSUME WalkTypeOK, WalkInv, CircularInherits
  PROVE  \E S \in SUBSET Indices : Knot(S)
<1> DEFINE top == Len(stack)
<1>1. PICK p \in Indices : Named(NextParent, p) /\ InStack(p)
  BY DEF CircularInherits
<1>2. PICK m \in Frames : stack[m].idx = p
  BY <1>1 DEF InStack, Frames
<1>3. /\ stack # <<>> /\ Parents # Malformed /\ Top.next \in DOMAIN Parents
      /\ Top = stack[top] /\ Frames = 1 .. top /\ top \in Nat \ {0}
  BY TopType DEF CircularInherits, AtParent
<1>4. Inherits(Top.idx, p)
  BY <1>1, <1>3 DEF Inherits, Parents, NextParent
<1> DEFINE S == {stack[k].idx : k \in m .. top}
<1>5. S \in SUBSET Indices
  BY <1>2, <1>3 DEF WalkTypeOK, Frames
<1>6. p \in S
  BY <1>2, <1>3
<1>7. ASSUME NEW k \in m .. top
      PROVE  \E q \in S : Inherits(stack[k].idx, q)
  <2>1. CASE k = top
    BY <1>3, <1>4, <1>6, <2>1
  <2>2. CASE k # top
    <3>1. k \in Frames /\ k + 1 \in Frames /\ k + 1 \in m .. top
      BY <1>2, <1>3, <2>2
    <3>2. Inherits(stack[k].idx, stack[k + 1].idx) /\ stack[k + 1].idx \in S
      BY <3>1 DEF WalkInv, ChainInv
    <3>3. QED
      BY <3>2
  <2>3. QED
    BY <2>1, <2>2
<1>8. Knot(S)
  BY <1>6, <1>7 DEF Knot
<1>9. QED
  BY <1>5, <1>8

LEMMA KnotStep ==
  WalkTypeOK /\ WalkInv /\ KnotInv /\ [WalkStep]_walk /\ WalkInv' /\ WalkTypeOK' => KnotInv'
<1> SUFFICES ASSUME WalkTypeOK, WalkInv, KnotInv, [WalkStep]_walk, WalkInv', WalkTypeOK'
             PROVE  KnotInv'
  OBVIOUS
<1>1. Indices' = Indices /\ \A S \in SUBSET Indices : Knot(S)' <=> Knot(S)
  BY Family, SameFamily
<1>2. CASE Leave
  <2>1. /\ resolved' = resolved \cup {Top.idx} /\ outcome' = outcome
        /\ UNCHANGED <<presets, cursor>> /\ Top.idx \notin resolved
    BY <1>2, TopType DEF Leave, WalkInv, FrameInv
  <2>2. ASSUME NEW S \in SUBSET Indices, Knot(S), NEW i \in S, i \in resolved'
        PROVE  FALSE
    <3>1. S \cap resolved = {}
      BY <2>2 DEF KnotInv
    <3>2. i = Top.idx
      BY <2>1, <2>2, <3>1
    <3>3. PICK p \in S : Inherits(i, p)
      BY <2>2 DEF Knot
    <3>4. presets[i].Inherits = Parents /\ DOMAIN Parents = 1 .. Len(Parents)
      BY <1>2, <2>2, <3>2, InheritsType DEF Leave, Parents
    <3>5. p \in resolved
      BY <1>2, <3>2, <3>3, <3>4, LeaveDone DEF Inherits, DoneUpTo
    <3>6. QED
      BY <3>1, <3>3, <3>5
  <2>3. QED
    BY <1>1, <2>1, <2>2 DEF KnotInv
<1>3. CASE CircularInherits
  BY <1>1, <1>3, StackKnot DEF KnotInv, CircularInherits
<1>4. CASE resolved' = resolved /\ (outcome' = outcome \/ outcome' # "circular")
  BY <1>1, <1>4 DEF KnotInv
<1>5. QED
  BY <1>2, <1>3, <1>4 DEF WalkStep, walk, EnterPreset, NextPreset, WalkEnds, MalformedInherits,
     UnknownParent, InheritFrom, Descend

-----------------------------------------------------------------------------
(* What presets inherit *)

ShownUpTo(i, n) == \A f \in Inherited : Shows(i, n, f)

\* Frame k has taken what its earlier parents have to give; the presets that
\* are not reached yet are as the files give them.
ShownInv ==
  /\ \A i \in resolved : Shown(i)
  /\ \A k \in Frames : presets[stack[k].idx].Inherits # Malformed =>
                         ShownUpTo(stack[k].idx, stack[k].next - 1)
  /\ \A i \in Indices \ resolved : ~InStack(i) => presets[i] = given[i]

LEMMA FillInFields ==
  ASSUME NEW c \in Preset, NEW p \in Preset, NEW f \in Inherited
  PROVE  FillIn(c, p)[f] = IF c[f] = Unset(f) THEN p[f] ELSE c[f]
<1>1. CASE f = "BinaryDir"
  BY <1>1 DEF FillIn, Preset, Unset
<1>2. CASE f = "Generator"
  BY <1>2 DEF FillIn, Preset, Unset
<1>3. CASE f = "ToolchainFile"
  BY <1>3 DEF FillIn, Preset, Unset
<1>4. QED
  BY <1>1, <1>2, <1>3 DEF Inherited

\* Parents that are complete give what they gave.
LEMMA GivesStays ==
  ASSUME WalkTypeOK, [WalkStep]_walk, NEW i \in Indices, NEW n, DoneUpTo(i, n),
         \A p \in resolved : presets'[p] = presets[p]
  PROVE  \A k \in 1 .. n, p \in Indices, f \in Inherited :
           Gives(i, k, p, f)' <=> Gives(i, k, p, f)
<1> SUFFICES ASSUME NEW k \in 1 .. n, NEW p \in Indices, NEW f \in Inherited
             PROVE  Gives(i, k, p, f)' <=> Gives(i, k, p, f)
  OBVIOUS
<1>1. presets'[i].Inherits = presets[i].Inherits
  BY Family
<1>2. PICK name : name = presets[i].Inherits[k]
  OBVIOUS
<1>3. Named(name, p)' <=> Named(name, p)
  BY Family, SameFamily
<1>4. Named(name, p) => presets'[p] = presets[p]
  BY <1>2 DEF DoneUpTo
<1>5. QED
  BY <1>1, <1>2, <1>3, <1>4 DEF Gives

LEMMA ShownStays ==
  ASSUME WalkTypeOK, [WalkStep]_walk, given' = given,
         NEW i \in Indices, NEW n \in Nat, DoneUpTo(i, n), ShownUpTo(i, n),
         presets'[i] = presets[i], \A p \in resolved : presets'[p] = presets[p]
  PROVE  ShownUpTo(i, n)'
<1> SUFFICES ASSUME NEW f \in Inherited
             PROVE  Shows(i, n, f)'
  BY DEF ShownUpTo
<1>1. \A k \in 1 .. n, p \in Indices : Gives(i, k, p, f)' <=> Gives(i, k, p, f)
  BY GivesStays
<1>2. Indices' = Indices /\ Shows(i, n, f)
  BY Family DEF ShownUpTo
<1>3. ASSUME NEW k \in 1 .. n, NEW p \in Indices, Gives(i, k, p, f)
      PROVE  presets'[p] = presets[p]
  BY <1>3 DEF Gives, DoneUpTo
<1>4. ASSUME given[i][f] = Unset(f), NEW k \in 1 .. n, NEW p \in Indices,
             Gives(i, k, p, f), presets[i][f] = presets[p][f],
             \A j \in 1 .. k - 1, q \in Indices : ~Gives(i, j, q, f)
      PROVE  Shows(i, n, f)'
  <2>1. \A j \in 1 .. k - 1 : j \in 1 .. n
    BY <1>4
  <2>2. \A j \in 1 .. k - 1, q \in Indices : ~Gives(i, j, q, f)'
    BY <1>1, <1>4, <2>1
  <2>3. Gives(i, k, p, f)' /\ presets'[i][f] = presets'[p][f]
    BY <1>1, <1>3, <1>4
  <2>4. QED
    BY <1>2, <1>4, <2>2, <2>3 DEF Shows
<1>5. CASE given[i][f] # Unset(f) /\ presets[i][f] = given[i][f]
  BY <1>5 DEF Shows
<1>6. CASE /\ given[i][f] = Unset(f) /\ presets[i][f] = Unset(f)
           /\ \A k \in 1 .. n, p \in Indices : ~Gives(i, k, p, f)
  BY <1>1, <1>2, <1>6 DEF Shows
<1>7. QED
  BY <1>2, <1>4, <1>5, <1>6 DEF Shows

LEMMA ShownAtFirst ==
  ASSUME NEW i \in Indices, presets[i] = given[i]
  PROVE  ShownUpTo(i, 0)
BY DEF ShownUpTo, Shows

\* The frame that passes by a parent that is not known.
LEMMA ShownSkip ==
  ASSUME NEW i \in Indices, NEW n \in Nat, ShownUpTo(i, n),
         \A p \in Indices : ~Named(presets[i].Inherits[n + 1], p)
  PROVE  ShownUpTo(i, n + 1)
<1> SUFFICES ASSUME NEW f \in Inherited
             PROVE  Shows(i, n + 1, f)
  BY DEF ShownUpTo
<1>1. Shows(i, n, f) /\ \A p \in Indices : ~Gives(i, n + 1, p, f)
  BY DEF ShownUpTo, Gives
<1>2. \A k \in 1 .. n + 1 : k \in 1 .. n \/ k = n + 1
  OBVIOUS
<1>3. \A k \in 1 .. n : k \in 1 .. n + 1
  OBVIOUS
<1>4. QED
  BY <1>1, <1>2, <1>3 DEF Shows

\* The frame that takes what its next parent has to give.
LEMMA ShownTake ==
  ASSUME WalkTypeOK, [WalkStep]_walk, given' = given,
         NEW i \in Indices \ resolved, NEW n \in Nat, DoneUpTo(i, n), ShownUpTo(i, n),
         NEW p \in resolved, Named(presets[i].Inherits[n + 1], p),
         presets' = [presets EXCEPT ![i] = FillIn(@, presets[p])]
  PROVE  ShownUpTo(i, n + 1)'
<1> SUFFICES ASSUME NEW f \in Inherited
             PROVE  Shows(i, n + 1, f)'
  BY DEF ShownUpTo
<1>1. /\ presets \in Seq(Preset) /\ p \in Indices /\ i \in Indices /\ i # p
      /\ presets[i] \in Preset /\ presets[p] \in Preset
  BY DEF WalkTypeOK, Indices
<1>2. /\ presets'[i] = FillIn(presets[i], presets[p])
      /\ \A q \in Indices : q # i => presets'[q] = presets[q]
  BY <1>1 DEF Indices
<1>3. presets'[i][f] = IF presets[i][f] = Unset(f) THEN presets[p][f] ELSE presets[i][f]
  BY <1>1, <1>2, FillInFields
<1>4. \A q \in Indices : Named(presets[i].Inherits[n + 1], q) => q = p
  BY <1>1 DEF Named, WalkTypeOK, Indices
<1>5. DoneUpTo(i, n + 1)
  BY <1>4 DEF DoneUpTo
<1>6. \A k \in 1 .. n + 1, q \in Indices :
        /\ Gives(i, k, q, f)' <=> Gives(i, k, q, f)
        /\ Gives(i, k, q, f) => q \in resolved /\ presets'[q] = presets[q]
  <2>1. \A q \in resolved : presets'[q] = presets[q]
    BY <1>2 DEF WalkTypeOK
  <2>2. \A k \in 1 .. n + 1, q \in Indices : Gives(i, k, q, f)' <=> Gives(i, k, q, f)
    BY <1>1, <1>5, <2>1, GivesStays
  <2>3. QED
    BY <1>5, <2>1, <2>2 DEF DoneUpTo, Gives
<1>7. Gives(i, n + 1, p, f) <=> presets[p][f] # Unset(f)
  BY DEF Gives
<1>8. Indices' = Indices
  BY Family
<1>9. CASE given[i][f] # Unset(f) /\ presets[i][f] = given[i][f]
  BY <1>3, <1>9 DEF Shows
<1>10. ASSUME given[i][f] = Unset(f), NEW k \in 1 .. n, NEW q \in Indices,
              Gives(i, k, q, f), presets[i][f] = presets[q][f],
              \A j \in 1 .. k - 1, r \in Indices : ~Gives(i, j, r, f)
       PROVE  Shows(i, n + 1, f)'
  <2>1. k \in 1 .. n + 1 /\ \A j \in 1 .. k - 1 : j \in 1 .. n + 1
    OBVIOUS
  <2>2. presets'[i][f] = presets'[q][f]
    BY <1>3, <1>6, <1>10, <2>1 DEF Gives
  <2>3. Gives(i, k, q, f)' /\ \A j \in 1 .. k - 1, r \in Indices : ~Gives(i, j, r, f)'
    BY <1>6, <1>10, <2>1
  <2>4. QED
    BY <1>8, <1>10, <2>1, <2>2, <2>3 DEF Shows
<1>11. CASE /\ given[i][f] = Unset(f) /\ presets[i][f] = Unset(f)
            /\ \A k \in 1 .. n, q \in Indices : ~Gives(i, k, q, f)
  <2>1. presets'[i][f] = presets[p][f] /\ presets'[p] = presets[p]
    BY <1>1, <1>2, <1>3, <1>11
  <2>2. \A k \in 1 .. n, q \in Indices : ~Gives(i, k, q, f)'
    BY <1>6, <1>11
  <2>3. CASE presets[p][f] # Unset(f)
    <3>1. Gives(i, n + 1, p, f)' /\ n + 1 \in 1 .. n + 1 /\ n + 1 - 1 = n
      BY <1>1, <1>6, <1>7, <2>3
    <3>2. QED
      BY <1>1, <1>8, <1>11, <2>1, <2>2, <3>1 DEF Shows
  <2>4. CASE presets[p][f] = Unset(f)
    <3>1. \A q \in Indices : ~Gives(i, n + 1, q, f)
      BY <1>4, <2>4 DEF Gives
    <3>2. \A k \in 1 .. n + 1 : k \in 1 .. n \/ k = n + 1
      OBVIOUS
    <3>3. \A k \in 1 .. n + 1, q \in Indices : ~Gives(i, k, q, f)'
      BY <1>6, <2>2, <3>1, <3>2
    <3>4. QED
      BY <1>8, <1>11, <2>1, <2>4, <3>3 DEF Shows
  <2>5. QED
    BY <2>3, <2>4
<1>12. QED
  BY <1>9, <1>10, <1>11 DEF ShownUpTo, Shows

\* A step that changes no preset but that of the innermost frame.
LEMMA ShownElsewhere ==
  ASSUME WalkTypeOK, WalkInv, ShownInv, [WalkStep]_walk, given' = given, stack # <<>>,
         \A q \in Indices : q # Top.idx => presets'[q] = presets[q]
  PROVE  /\ \A i \in resolved : Shown(i)'
         /\ \A k \in Frames : k # Len(stack) =>
              \A i, n : /\ i = stack[k].idx /\ n = stack[k].next - 1
                        /\ presets[i].Inherits # Malformed
                        => ShownUpTo(i, n)'
<1>1. /\ Top = stack[Len(stack)] /\ Len(stack) \in Frames
      /\ FrameInv(Len(stack)) /\ resolved \subseteq Indices
  BY TopType DEF WalkInv, WalkTypeOK
<1>2. \A p \in resolved : p # Top.idx /\ presets'[p] = presets[p]
  BY <1>1 DEF FrameInv
<1>3. ASSUME NEW i \in resolved
      PROVE  Shown(i)'
  <2>1. i \in Indices /\ presets[i].Inherits # Malformed
    BY <1>1 DEF WalkInv, ClosedInv
  <2>2. PICK n \in Nat : n = Len(presets[i].Inherits)
    BY <2>1, InheritsType
  <2>3. DoneUpTo(i, n) /\ ShownUpTo(i, n)
    BY <2>2 DEF WalkInv, ClosedInv, ShownInv, Shown, ShownUpTo
  <2>4. ShownUpTo(i, n)'
    BY <1>2, <2>1, <2>3, ShownStays
  <2>5. QED
    BY <2>1, <2>2, <2>4, Family DEF Shown, ShownUpTo
<1>4. ASSUME NEW k \in Frames, k # Len(stack), NEW i, NEW n,
             i = stack[k].idx, n = stack[k].next - 1, presets[i].Inherits # Malformed
      PROVE  ShownUpTo(i, n)'
  <2>1. FrameInv(k) /\ ShownUpTo(i, n)
    BY <1>4 DEF WalkInv, ShownInv
  <2>2. i \in Indices /\ i # Top.idx /\ DoneUpTo(i, n) /\ n \in Nat
    BY <1>1, <1>4, <2>1, InheritsType DEF FrameInv
  <2>3. QED
    BY <1>2, <2>1, <2>2, ShownStays
<1>5. QED
  BY <1>3, <1>4

LEMMA ShownAfterSkip ==
  ASSUME WalkTypeOK, WalkInv, ShownInv, UnknownParent \/ InheritFrom
  PROVE  ShownInv'
<1> DEFINE top == Len(stack)
<1>1. /\ WalkStep /\ stack # <<>> /\ Parents # Malformed /\ Top.next \in DOMAIN Parents
      /\ given' = given /\ resolved' = resolved /\ SkipParent
  BY DEF WalkStep, UnknownParent, InheritFrom, AtParent
<1>2. PICK i \in Indices, n \in Nat : i = Top.idx /\ n = Top.next - 1
  BY <1>1, TopType, InheritsType DEF Parents
<1>3. /\ top \in Frames /\ Top = stack[top] /\ n + 1 = Top.next
      /\ presets[i].Inherits = Parents /\ NextParent = presets[i].Inherits[n + 1]
  BY <1>1, <1>2, TopType DEF Parents, NextParent, Frame
<1>4. FrameInv(top) /\ i \notin resolved /\ DoneUpTo(i, n) /\ ShownUpTo(i, n)
  BY <1>1, <1>2, <1>3 DEF WalkInv, FrameInv, ShownInv
<1>5. /\ ShownUpTo(i, n + 1)'
      /\ \A q \in Indices : q # i => presets'[q] = presets[q]
  <2>1. CASE UnknownParent
    <3>1. presets' = presets /\ \A p \in Indices : ~Named(NextParent, p)
      BY <2>1 DEF UnknownParent, Known, Named
    <3>2. ShownUpTo(i, n + 1)
      BY <1>3, <1>4, <3>1, ShownSkip
    <3>3. QED
      BY <1>1, <3>1, <3>2 DEF ShownUpTo, Shows, Gives, Named, Indices
  <2>2. CASE InheritFrom
    <3>1. PICK p \in resolved :
            /\ Named(NextParent, p)
            /\ presets' = [presets EXCEPT ![i] = FillIn(@, presets[p])]
      BY <1>2, <2>2 DEF InheritFrom
    <3>2. ShownUpTo(i, n + 1)'
      BY <1>1, <1>3, <1>4, <3>1, ShownTake
    <3>3. QED
      BY <3>1, <3>2 DEF WalkTypeOK, Indices
  <2>3. QED
    BY <2>1, <2>2
<1>6. /\ \A j \in resolved : Shown(j)'
      /\ \A k \in Frames : k # top =>
           \A j, m : /\ j = stack[k].idx /\ m = stack[k].next - 1
                     /\ presets[j].Inherits # Malformed
                     => ShownUpTo(j, m)'
  BY <1>1, <1>2, <1>5, ShownElsewhere
<1>7. /\ Frames' = Frames
      /\ \A k \in Frames : stack'[k].idx = stack[k].idx
      /\ \A k \in Frames : k # top => stack'[k].next = stack[k].next
      /\ stack'[top].next = n + 2
  BY <1>1, <1>2, <1>3, SkipFrames
<1>8. ASSUME NEW k \in Frames, presets'[stack'[k].idx].Inherits # Malformed
      PROVE  ShownUpTo(stack[k].idx, stack[k].next - 1)'
  <2>1. stack[k].idx \in Indices
    BY DEF WalkTypeOK, Frames
  <2>2. presets[stack[k].idx].Inherits # Malformed
    BY <1>1, <1>7, <1>8, <2>1, Family
  <2>3. CASE k = top
    BY <1>2, <1>3, <1>5, <1>7, <2>3
  <2>4. CASE k # top
    <3>1. PICK j, m : j = stack[k].idx /\ m = stack[k].next - 1
      OBVIOUS
    <3>2. ShownUpTo(j, m)'
      BY <1>6, <2>2, <2>4, <3>1
    <3>3. stack'[k].idx = j /\ stack'[k].next - 1 = m
      BY <1>7, <2>4, <3>1
    <3>4. QED
      BY <3>2, <3>3
  <2>5. QED
    BY <2>3, <2>4
<1>9. ASSUME NEW j \in Indices \ resolved, ~InStack(j)'
      PROVE  presets'[j] = given'[j]
  <2>1. ~InStack(j)
    BY <1>7, <1>9 DEF InStack, Frames
  <2>2. j # i
    BY <1>2, <1>3, <2>1 DEF InStack, Frames
  <2>3. QED
    BY <1>1, <1>5, <2>1, <2>2 DEF ShownInv
<1>10. Indices' = Indices
  BY <1>1, Family
<1>11. QED
  BY <1>1, <1>6, <1>7, <1>8, <1>9, <1>10 DEF ShownInv

LEMMA ShownStep == WalkTypeOK /\ WalkInv /\ ShownInv /\ [WalkStep]_walk => ShownInv'
<1> SUFFICES ASSUME WalkTypeOK, WalkInv, ShownInv, [WalkStep]_walk
             PROVE  ShownInv'
  OBVIOUS
<1>1. CASE UNCHANGED <<given, presets, resolved, stack>>
  BY <1>1 DEF ShownInv, ShownUpTo, Shown, Shows, Gives, Named, InStack, Frames, Indices
<1>2. ASSUME UNCHANGED <<given, presets>>, NEW i \in Indices, NEW n, ShownUpTo(i, n)
      PROVE  ShownUpTo(i, n)'
  BY <1>2 DEF ShownUpTo, Shows, Gives, Named, Indices
<1>3. ASSUME UNCHANGED <<given, presets>>, NEW i \in Indices, Shown(i)
      PROVE  Shown(i)'
  BY <1>3 DEF Shown, Shows, Gives, Named, Indices
<1>4. CASE EnterPreset
  <2>1. /\ cursor \in Indices \ resolved /\ stack = <<>>
        /\ stack' = <<Enter(cursor)>>
        /\ UNCHANGED <<given, presets, resolved>> /\ Indices' = Indices
    BY <1>4 DEF EnterPreset, Indices
  <2>2. Frames' = {1} /\ stack'[1].idx = cursor /\ stack'[1].next - 1 = 0
    BY <2>1 DEF Frames, Enter
  <2>3. \A i \in Indices : ~InStack(i)
    BY <2>1 DEF InStack
  <2>4. PICK i \in Indices : i = cursor
    BY <2>1
  <2>5. ShownUpTo(i, 0)'
    BY <1>2, <2>1, <2>3, <2>4, ShownAtFirst DEF ShownInv
  <2>6. QED
    BY <1>3, <2>1, <2>2, <2>3, <2>4, <2>5 DEF ShownInv, WalkTypeOK
<1>5. CASE UnknownParent \/ InheritFrom
  BY <1>5, ShownAfterSkip
<1>6. CASE Descend
  <2>1. PICK p \in Indices \ resolved : ~InStack(p) /\ stack' = Append(stack, Enter(p))
    BY <1>6 DEF Descend
  <2>2. UNCHANGED <<given, presets, resolved>> /\ Indices' = Indices
    BY <1>6 DEF Descend, Indices
  <2>3. PICK n \in Nat :
          /\ Frames = 1 .. n /\ Frames' = 1 .. n + 1
          /\ \A k \in Frames : stack'[k] = stack[k]
          /\ stack'[n + 1].idx = p /\ stack'[n + 1].next - 1 = 0
    BY <2>1, PushFrames
  <2>4. ShownUpTo(p, 0)'
    BY <1>2, <2>1, <2>2, ShownAtFirst DEF ShownInv
  <2>5. ASSUME NEW k \in Frames', presets'[stack'[k].idx].Inherits # Malformed
        PROVE  ShownUpTo(stack[k].idx, stack[k].next - 1)'
    <3>1. CASE k = n + 1
      BY <2>3, <2>4, <3>1
    <3>2. CASE k # n + 1
      <4>1. k \in Frames /\ stack'[k] = stack[k] /\ stack[k].idx \in Indices
        BY <2>3, <3>2 DEF WalkTypeOK, Frames
      <4>2. PICK i, m : i \in Indices /\ i = stack[k].idx /\ m = stack[k].next - 1
        BY <4>1
      <4>3. ShownUpTo(i, m)'
        BY <1>2, <2>2, <2>5, <4>1, <4>2 DEF ShownInv
      <4>4. QED
        BY <4>1, <4>2, <4>3
    <3>3. QED
      BY <3>1, <3>2
  <2>6. ASSUME NEW i \in Indices, ~InStack(i)'
        PROVE  ~InStack(i)
    BY <2>3, <2>6 DEF InStack, Frames
  <2>7. QED
    BY <1>3, <2>2, <2>5, <2>6 DEF ShownInv, WalkTypeOK
<1>7. CASE Leave
  <2>1. /\ stack # <<>> /\ stack' = Pop /\ resolved' = resolved \cup {Top.idx}
        /\ UNCHANGED <<given, presets>> /\ Indices' = Indices
        /\ Parents # Malformed /\ Top.next \notin DOMAIN Parents
    BY <1>7 DEF Leave, Indices
  <2>2. /\ Top = stack[Len(stack)] /\ Len(stack) \in Frames /\ Top.idx \in Indices
        /\ Parents = presets[Top.idx].Inherits
    BY <2>1, TopType DEF Parents
  <2>3. Frames' = Frames \ {Len(stack)} /\ \A k \in Frames' : stack'[k] = stack[k]
    BY <2>1, PopFrames
  <2>4. Shown(Top.idx)
    <3>1. DOMAIN Parents = 1 .. Len(Parents) /\ Len(Parents) \in Nat
      BY <2>1, <2>2, InheritsType
    <3>2. Top.next \in 1 .. Len(Parents) + 1 /\ ShownUpTo(Top.idx, Top.next - 1)
      BY <2>1, <2>2 DEF WalkInv, FrameInv, ShownInv
    <3>3. Top.next - 1 = Len(Parents)
      BY <2>1, <3>1, <3>2
    <3>4. QED
      BY <2>2, <3>2, <3>3 DEF Shown, ShownUpTo
  <2>5. \A i \in resolved' : Shown(i)'
    BY <1>3, <2>1, <2>2, <2>4 DEF ShownInv, WalkTypeOK
  <2>6. ASSUME NEW k \in Frames', presets'[stack'[k].idx].Inherits # Malformed
        PROVE  ShownUpTo(stack[k].idx, stack[k].next - 1)'
    <3>1. k \in Frames /\ stack'[k] = stack[k] /\ stack[k].idx \in Indices
      BY <2>3 DEF WalkTypeOK, Frames
    <3>2. PICK i, m : i \in Indices /\ i = stack[k].idx /\ m = stack[k].next - 1
      BY <3>1
    <3>3. ShownUpTo(i, m)'
      BY <1>2, <2>1, <2>6, <3>1, <3>2 DEF ShownInv
    <3>4. QED
      BY <3>1, <3>2, <3>3
  <2>7. ASSUME NEW i \in Indices \ resolved', ~InStack(i)'
        PROVE  ~InStack(i)
    BY <2>1, <2>2, <2>3, <2>7 DEF InStack, Frames
  <2>8. QED
    BY <2>1, <2>5, <2>6, <2>7 DEF ShownInv
<1>8. QED
  BY <1>1, <1>4, <1>5, <1>6, <1>7
  DEF WalkStep, NextPreset, WalkEnds, MalformedInherits, CircularInherits, walk

-----------------------------------------------------------------------------
(* All of it *)

WalkProved == WalkTypeOK /\ WalkInv /\ KnotInv /\ ShownInv

LEMMA WalkBegins ==
  ASSUME NEW list \in Seq(Preset), Walk(list)
  PROVE  WalkProved
<1>1. WalkTypeOK
  BY DEF Walk, WalkTypeOK, Indices
<1>2. WalkInv
  BY DEF Walk, WalkInv, FrameInv, ChainInv, ClosedInv, OuterInv, Frames, Indices
<1>3. KnotInv
  BY DEF Walk, KnotInv
<1>4. ShownInv
  BY DEF Walk, ShownInv, Frames
<1>5. QED
  BY <1>1, <1>2, <1>3, <1>4 DEF WalkProved

LEMMA WalkGoesOn == WalkProved /\ [WalkStep]_walk => WalkProved'
  BY WalkTypeStep, WalkInvStep, KnotStep, ShownStep DEF WalkProved

LEMMA WalkShows == WalkProved => WalkTypeOK /\ CircularExact /\ InheritedValues
<1>1. WalkInv /\ KnotInv => CircularExact
  BY DEF WalkInv, OuterInv, KnotInv, CircularExact, Knot
<1>2. WalkInv /\ ShownInv => InheritedValues
  BY DEF WalkInv, OuterInv, ShownInv, InheritedValues
<1>3. QED
  BY <1>1, <1>2 DEF WalkProved

LEMMA WalkHolds == InheritsSpec => []WalkProved
<1>1. (\E list \in Seq(Preset) : Walk(list)) => WalkProved
  BY WalkBegins
<1>2. QED
  BY <1>1, WalkGoesOn, PTL DEF InheritsSpec

\* The walk keeps its types, for any list of presets (WalkTypeOK).
THEOREM WalkTypeCorrect == InheritsSpec => []WalkTypeOK
  BY WalkHolds, WalkShows, PTL

\* A circular chain is reported exactly when there is one, for any list of
\* presets (CircularExact).
THEOREM CircularIsExact == InheritsSpec => []CircularExact
  BY WalkHolds, WalkShows, PTL

\* What a completed walk shows of each preset is its own or the value of its
\* nearest ancestor, for any list of presets (InheritedValues).
THEOREM ValuesAreInherited == InheritsSpec => []InheritedValues
  BY WalkHolds, WalkShows, PTL

-----------------------------------------------------------------------------
(* Settings and directories *)

LEMMA OverlayIs ==
  ASSUME NEW c, NEW t
  PROVE  /\ DOMAIN Overlay(c, t) = Fields
         /\ \A f \in Fields : Overlay(c, t)[f] = IF f \in DOMAIN t THEN t[f] ELSE c[f]
BY DEF Overlay

LEMMA EnvIs ==
  ASSUME NEW c
  PROVE  /\ DOMAIN applyEnv(c) = Fields
         /\ \A f \in Fields : applyEnv(c)[f] = IF f \in DOMAIN Environment THEN Environment[f]
                                                ELSE c[f]
<1> DEFINE set == [f \in {g \in DOMAIN env : g = "BuildTimeout" => ~Bad(env)} |-> env[f]]
<1>1. applyEnv(c) = Overlay(c, set)
  BY DEF applyEnv
<1>2. DOMAIN set = DOMAIN Environment /\ \A f \in DOMAIN set : set[f] = Environment[f]
  BY DEF Environment
<1> HIDE DEF set
<1>3. QED
  BY <1>1, <1>2, OverlayIs

LEMMA FirstIs ==
  ASSUME NEW f, NEW s, DOMAIN s \subseteq Nat \ {0}, NEW k \in DOMAIN s,
         f \in DOMAIN s[k], \A i \in 1 .. k - 1 : f \notin DOMAIN s[i]
  PROVE  FirstOf(f, s) = s[k][f]
<1> DEFINE P(j) == f \in DOMAIN s[j] /\ \A i \in 1 .. j - 1 : f \notin DOMAIN s[i]
           c    == CHOOSE j \in DOMAIN s : P(j)
<1>1. c \in DOMAIN s /\ P(c)
  <2>1. k \in DOMAIN s /\ P(k)
    OBVIOUS
  <2>2. QED
    BY <2>1
<1>2. FirstOf(f, s) = s[c][f]
  BY DEF FirstOf
<1> HIDE DEF c
<1>3. c = k
  <2>1. ~ (c < k)
    BY <1>1
  <2>2. ~ (k < c)
    BY <1>1
  <2>3. QED
    BY <1>1, <2>1, <2>2
<1>4. QED
  BY <1>2, <1>3

LEMMA FirstOfTwo ==
  ASSUME NEW f, NEW a, NEW b, f \in DOMAIN b
  PROVE  FirstOf(f, <<a, b>>) = IF f \in DOMAIN a THEN a[f] ELSE b[f]
<1> DEFINE s == <<a, b>>
<1>1. DOMAIN s = 1 .. 2 /\ s[1] = a /\ s[2] = b
  OBVIOUS
<1> HIDE DEF s
<1>2. 1 \in DOMAIN s /\ 2 \in DOMAIN s /\ DOMAIN s \subseteq Nat \ {0}
  BY <1>1
<1>3. f \in DOMAIN s[1] => FirstOf(f, s) = s[1][f]
  BY <1>2, FirstIs
<1>4. f \notin DOMAIN s[1] => FirstOf(f, s) = s[2][f]
  <2>1. f \notin DOMAIN s[1] => \A i \in 1 .. 2 - 1 : f \notin DOMAIN s[i]
    OBVIOUS
  <2>2. QED
    BY <1>1, <1>2, <2>1, FirstIs
<1>5. QED
  BY <1>1, <1>3, <1>4 DEF s

LEMMA FirstOfThree ==
  ASSUME NEW f, NEW a, NEW b, NEW c, f \in DOMAIN c
  PROVE  FirstOf(f, <<a, b, c>>) =
           IF f \in DOMAIN a THEN a[f] ELSE IF f \in DOMAIN b THEN b[f] ELSE c[f]
<1> DEFINE s == <<a, b, c>>
<1>1. DOMAIN s = 1 .. 3 /\ s[1] = a /\ s[2] = b /\ s[3] = c
  OBVIOUS
<1> HIDE DEF s
<1>2. \A k \in 1 .. 3 : k \in DOMAIN s /\ DOMAIN s \subseteq Nat \ {0}
  BY <1>1
<1>3. f \in DOMAIN s[1] => FirstOf(f, s) = s[1][f]
  BY <1>2, FirstIs
<1>4. f \notin DOMAIN s[1] /\ f \in DOMAIN s[2] => FirstOf(f, s) = s[2][f]
  <2>1. f \notin DOMAIN s[1] => \A i \in 1 .. 2 - 1 : f \notin DOMAIN s[i]
    OBVIOUS
  <2>2. QED
    BY <1>2, <2>1, FirstIs
<1>5. f \notin DOMAIN s[1] /\ f \notin DOMAIN s[2] => FirstOf(f, s) = s[3][f]
  <2>1. f \notin DOMAIN s[1] /\ f \notin DOMAIN s[2] =>
          \A i \in 1 .. 3 - 1 : f \notin DOMAIN s[i]
    OBVIOUS
  <2>2. QED
    BY <1>1, <1>2, <2>1, FirstIs
<1>6. QED
  BY <1>1, <1>3, <1>4, <1>5 DEF s

LEMMA FirstOfFour ==
  ASSUME NEW f, NEW a, NEW b, NEW c, NEW d, f \in DOMAIN d
  PROVE  FirstOf(f, <<a, b, c, d>>) =
           IF f \in DOMAIN a THEN a[f] ELSE IF f \in DOMAIN b THEN b[f]
           ELSE IF f \in DOMAIN c THEN c[f] ELSE d[f]
<1> DEFINE s == <<a, b, c, d>>
<1>1. DOMAIN s = 1 .. 4 /\ s[1] = a /\ s[2] = b /\ s[3] = c /\ s[4] = d
  OBVIOUS
<1> HIDE DEF s
<1>2. \A k \in 1 .. 4 : k \in DOMAIN s /\ DOMAIN s \subseteq Nat \ {0}
  BY <1>1
<1>3. f \in DOMAIN s[1] => FirstOf(f, s) = s[1][f]
  BY <1>2, FirstIs
<1>4. f \notin DOMAIN s[1] /\ f \in DOMAIN s[2] => FirstOf(f, s) = s[2][f]
  <2>1. f \notin DOMAIN s[1] => \A i \in 1 .. 2 - 1 : f \notin DOMAIN s[i]
    OBVIOUS
  <2>2. QED
    BY <1>2, <2>1, FirstIs
<1>5. f \notin DOMAIN s[1] /\ f \notin DOMAIN s[2] /\ f \in DOMAIN s[3] =>
        FirstOf(f, s) = s[3][f]
  <2>1. f \notin DOMAIN s[1] /\ f \notin DOMAIN s[2] =>
          \A i \in 1 .. 3 - 1 : f \notin DOMAIN s[i]
    OBVIOUS
  <2>2. QED
    BY <1>2, <2>1, FirstIs
<1>6. f \notin DOMAIN s[1] /\ f \notin DOMAIN s[2] /\ f \notin DOMAIN s[3] =>
        FirstOf(f, s) = s[4][f]
  <2>1. f \notin DOMAIN s[1] /\ f \notin DOMAIN s[2] /\ f \notin DOMAIN s[3] =>
          \A i \in 1 .. 4 - 1 : f \notin DOMAIN s[i]
    OBVIOUS
  <2>2. QED
    BY <1>1, <1>2, <2>1, FirstIs
<1>7. QED
  BY <1>1, <1>3, <1>4, <1>5, <1>6 DEF s

-----------------------------------------------------------------------------
(* Clean directories *)

\* g is the table that Clean computes, up to position n.
IsClean(g, path, n) ==
  g = [i \in 0 .. n |-> IF i = 0 THEN <<>> ELSE Joined(g[i - 1], path[i])]

LEMMA CleanTable ==
  ASSUME NEW path, NEW n \in Nat
  PROVE  \E g : IsClean(g, path, n)
<1> DEFINE N == {m \in Nat : \E g : IsClean(g, path, m)}
<1>1. 0 \in N
  <2>1. IsClean([i \in 0 .. 0 |-> <<>>], path, 0)
    BY DEF IsClean
  <2>2. QED
    BY <2>1
<1>2. ASSUME NEW m \in Nat, m \in N PROVE m + 1 \in N
  <2>1. PICK g : IsClean(g, path, m)
    BY <1>2
  <2> DEFINE last == Joined(g[m], path[m + 1])
             h    == [i \in 0 .. m + 1 |-> IF i = m + 1 THEN last ELSE g[i]]
  <2>2. \A i \in 0 .. m + 1 : h[i] = IF i = 0 THEN <<>> ELSE Joined(h[i - 1], path[i])
    <3> SUFFICES ASSUME NEW i \in 0 .. m + 1
                 PROVE  h[i] = IF i = 0 THEN <<>> ELSE Joined(h[i - 1], path[i])
      OBVIOUS
    <3>1. CASE i = m + 1
      <4>1. h[i] = last /\ h[i - 1] = g[m] /\ i # 0
        BY <3>1, <1>2
      <4> HIDE DEF h
      <4>2. QED
        BY <3>1, <4>1
    <3>2. CASE i # m + 1
      <4>1. h[i] = g[i] /\ i \in 0 .. m /\ (i # 0 => h[i - 1] = g[i - 1])
        BY <3>2, <1>2
      <4> HIDE DEF h
      <4>2. g[i] = IF i = 0 THEN <<>> ELSE Joined(g[i - 1], path[i])
        BY <2>1, <4>1 DEF IsClean
      <4>3. QED
        BY <4>1, <4>2
    <3>3. QED
      BY <3>1, <3>2
  <2>3. h = [i \in 0 .. m + 1 |-> h[i]]
    OBVIOUS
  <2> HIDE DEF h
  <2>4. IsClean(h, path, m + 1)
    BY <2>2, <2>3 DEF IsClean
  <2>5. QED
    BY <2>4
<1>3. QED
  BY <1>1, <1>2, CountUp

\* Clean joins one segment after the other.
LEMMA CleanIs ==
  ASSUME NEW path, Len(path) \in Nat
  PROVE  \E g : /\ g[0] = <<>> /\ g[Len(path)] = Clean(path)
                /\ \A i \in Nat : i < Len(path) => g[i + 1] = Joined(g[i], path[i + 1])
<1> DEFINE clean[i \in 0 .. Len(path)] ==
             IF i = 0 THEN <<>> ELSE Joined(clean[i - 1], path[i])
<1>1. Clean(path) = clean[Len(path)]
  BY DEF Clean
<1>2. \E g : IsClean(g, path, Len(path))
  BY CleanTable
<1>3. IsClean(clean, path, Len(path))
  BY <1>2 DEF IsClean
<1> HIDE DEF clean
<1>4. clean[0] = <<>>
  BY <1>3 DEF IsClean
<1>5. ASSUME NEW i \in Nat, i < Len(path) PROVE clean[i + 1] = Joined(clean[i], path[i + 1])
  <2>1. PICK j \in 0 .. Len(path) : j = i + 1
    BY <1>5
  <2>2. j # 0 /\ j - 1 = i
    BY <2>1
  <2>3. clean[j] = Joined(clean[j - 1], path[j])
    BY <1>3, <2>2 DEF IsClean
  <2>4. QED
    BY <2>1, <2>2, <2>3
<1>6. QED
  BY <1>1, <1>4, <1>5

\* No ".", and nothing but ".." in front of "..".
Neat(dir) ==
  \A k \in DOMAIN dir : dir[k] # "." /\ (dir[k] = ".." => \A j \in 1 .. k : dir[j] = "..")

LEMMA JoinedNeat ==
  ASSUME NEW S, NEW dir \in Seq(S), NEW e \in S, Neat(dir)
  PROVE  Joined(dir, e) \in Seq(S) /\ Neat(Joined(dir, e))
<1>1. CASE e = "."
  BY <1>1 DEF Joined
<1>2. CASE e = ".." /\ dir # <<>> /\ dir[Len(dir)] # ".."
  <2> DEFINE d == SubSeq(dir, 1, Len(dir) - 1)
  <2>1. Joined(dir, e) = d
    BY <1>2 DEF Joined
  <2>2. Len(dir) \in Nat /\ Len(dir) # 0
    BY <1>2
  <2>3. d \in Seq(S) /\ Len(d) = Len(dir) - 1 /\ \A k \in 1 .. Len(d) : d[k] = dir[k]
    BY <2>2
  <2> HIDE DEF d
  <2>4. Neat(d)
    BY <2>2, <2>3 DEF Neat
  <2>5. QED
    BY <2>1, <2>3, <2>4
<1>3. CASE e # "." /\ ~(e = ".." /\ dir # <<>> /\ dir[Len(dir)] # "..")
  <2> DEFINE d == Append(dir, e)
             n == Len(dir)
  <2>1. Joined(dir, e) = d
    BY <1>3 DEF Joined
  <2>2. n \in Nat /\ d \in Seq(S) /\ DOMAIN d = 1 .. n + 1 /\ DOMAIN dir = 1 .. n
    OBVIOUS
  <2>3. d[n + 1] = e /\ \A k \in 1 .. n : d[k] = dir[k]
    OBVIOUS
  <2>4. e = ".." => n = 0 \/ dir[n] = ".."
    BY <1>3
  <2> HIDE DEF d, n
  <2>5. ASSUME NEW k \in 1 .. n + 1
        PROVE  d[k] # "." /\ (d[k] = ".." => \A j \in 1 .. k : d[j] = "..")
    <3>1. CASE k = n + 1
      <4>1. e = ".." => \A j \in 1 .. n : dir[j] = ".."
        BY <2>2, <2>4 DEF Neat
      <4>2. QED
        BY <1>3, <2>2, <2>3, <3>1, <4>1
    <3>2. CASE k # n + 1
      <4>1. k \in 1 .. n /\ \A j \in 1 .. k : j \in 1 .. n
        BY <2>2, <3>2
      <4>2. QED
        BY <2>2, <2>3, <4>1 DEF Neat
    <3>3. QED
      BY <3>1, <3>2
  <2>6. QED
    BY <2>1, <2>2, <2>5 DEF Neat
<1>4. QED
  BY <1>1, <1>2, <1>3

LEMMA CleanNeat ==
  ASSUME NEW S, NEW path \in Seq(S)
  PROVE  Clean(path) \in Seq(S) /\ Neat(Clean(path))
<1>1. Len(path) \in Nat /\ \A i \in Nat : i < Len(path) => path[i + 1] \in S
  OBVIOUS
<1>2. PICK g : /\ g[0] = <<>> /\ g[Len(path)] = Clean(path)
               /\ \A i \in Nat : i < Len(path) => g[i + 1] = Joined(g[i], path[i + 1])
  BY <1>1, CleanIs
<1> DEFINE N == {m \in Nat : m <= Len(path) => g[m] \in Seq(S) /\ Neat(g[m])}
<1>3. 0 \in N
  <2>1. <<>> \in Seq(S) /\ Neat(<<>>)
    BY DEF Neat
  <2>2. QED
    BY <1>2, <2>1
<1>4. ASSUME NEW m \in Nat, m \in N, m + 1 <= Len(path)
      PROVE  g[m + 1] \in Seq(S) /\ Neat(g[m + 1])
  <2>1. m < Len(path) /\ path[m + 1] \in S /\ g[m] \in Seq(S) /\ Neat(g[m])
    BY <1>1, <1>4
  <2>2. QED
    BY <1>2, <2>1, JoinedNeat
<1>5. Nat \subseteq N
  <2>1. \A m \in Nat : m \in N => m + 1 \in N
    BY <1>4
  <2> HIDE DEF N
  <2>2. QED
    BY <1>3, <2>1, CountUp
<1>6. QED
  BY <1>1, <1>2, <1>5

\* A neat directory is what is left of it.
LEMMA NeatStays ==
  ASSUME NEW S, NEW dir \in Seq(S), Neat(dir)
  PROVE  Clean(dir) = dir
<1>1. /\ Len(dir) \in Nat /\ DOMAIN dir = 1 .. Len(dir)
      /\ \A i \in Nat : i < Len(dir) => i + 1 \in DOMAIN dir /\ dir[i + 1] \in S
  OBVIOUS
<1>2. PICK g : /\ g[0] = <<>> /\ g[Len(dir)] = Clean(dir)
               /\ \A i \in Nat : i < Len(dir) => g[i + 1] = Joined(g[i], dir[i + 1])
  BY <1>1, CleanIs
<1> DEFINE P(d, m) == d \in Seq(S) /\ Len(d) = m /\ \A k \in 1 .. m : d[k] = dir[k]
           N == {m \in Nat : m <= Len(dir) => P(g[m], m)}
<1>3. 0 \in N
  <2>1. P(<<>>, 0)
    OBVIOUS
  <2>2. P(g[0], 0)
    BY <1>2, <2>1
  <2>3. QED
    BY <2>2
<1>4. ASSUME NEW m \in Nat, m \in N, m + 1 <= Len(dir)
      PROVE  P(g[m + 1], m + 1)
  <2> DEFINE e == dir[m + 1]
             d == g[m]
  <2>1. m < Len(dir) /\ e \in S /\ m + 1 \in DOMAIN dir /\ P(d, m)
    BY <1>1, <1>4
  <2>2. e # "." /\ (e = ".." => \A j \in 1 .. m : dir[j] = "..")
    BY <2>1 DEF Neat
  <2>3. g[m + 1] = Joined(d, e)
    BY <1>2, <2>1
  <2> HIDE DEF e, d
  <2>4. e = ".." => d = <<>> \/ d[Len(d)] = ".."
    BY <2>1, <2>2
  <2>5. g[m + 1] = Append(d, e)
    BY <2>2, <2>3, <2>4 DEF Joined
  <2>6. Append(d, e) \in Seq(S) /\ Len(Append(d, e)) = m + 1
    BY <2>1
  <2>7. \A k \in 1 .. m + 1 : Append(d, e)[k] = IF k = m + 1 THEN e ELSE d[k]
    BY <2>1
  <2>8. QED
    BY <2>1, <2>5, <2>6, <2>7 DEF e
<1>5. Nat \subseteq N
  <2>1. \A m \in Nat : m \in N => m + 1 \in N
    BY <1>4
  <2> HIDE DEF N
  <2>2. QED
    BY <1>3, <2>1, CountUp
<1>6. P(Clean(dir), Len(dir))
  BY <1>1, <1>2, <1>5
<1>7. QED
  BY <1>6

\* A directory that is clean stays as it is.
LEMMA CleanTwice ==
  ASSUME NEW S, NEW path \in Seq(S)
  PROVE  Clean(Clean(path)) = Clean(path)
BY CleanNeat, NeatStays

LEMMA ChooseIs ==
  ASSUME NEW configs, DOMAIN configs # {}, DOMAIN configs \subseteq DOMAIN Rank
  PROVE  \/ Choose(configs) = Failed
         \/ /\ Choose(configs).configs = configs
            /\ Choose(configs).dflt \in DOMAIN configs
<1>1. First(DOMAIN configs) \in DOMAIN configs
  <2> DEFINE V == {Rank[n] : n \in DOMAIN configs}
  <2>1. V \subseteq Nat /\ V # {}
    BY RankAssumption
  <2>2. PICK x \in V : \A y \in V : x <= y
    BY <2>1, Least
  <2>3. \E n \in DOMAIN configs : \A m \in DOMAIN configs : Rank[n] <= Rank[m]
    BY <2>2
  <2>4. QED
    BY <2>3 DEF First
<1>2. QED
  BY <1>1 DEF Choose

-----------------------------------------------------------------------------
(* What a load returns *)

Relative == \A p \in UsablePresets : Head(p.BinaryDir) # "/"

\* An answer that keeps every promise, or an error.
Good(r) ==
  \/ r = Failed
  \/ /\ \A n \in DOMAIN r.configs : DOMAIN r.configs[n] = Fields
     /\ r.dflt \in DOMAIN r.configs
     /\ Unique(r.configs)
     /\ \A n \in DOMAIN r.configs, f \in Fields :
          r.configs[n][f] = FirstOf(f, Sources(n, f))
     /\ PresetMode /\ Relative =>
          \A m, n \in DOMAIN r.configs :
            Clean(r.configs[m].BuildDir) = Clean(r.configs[n].BuildDir) => m = n

LEMMA FailedIsGood == Good(Failed)
  BY DEF Good

FileOK == file \in {Absent, Broken} \/ IsFile(file)

LEMMA DefaultsDomain == DOMAIN defaults = Fields
  BY DEF defaults, Fields

LEMMA MultiGood ==
  ASSUME FileOK, MultiMode
  PROVE  Good(LoadMultiMode)
<1> DEFINE configs == [n \in DOMAIN file.configs |-> Entry(n)]
<1>1. SUFFICES ASSUME LoadMultiMode # Failed PROVE Good(LoadMultiMode)
  BY DEF Good
<1>2. /\ LoadMultiMode = Choose(configs) /\ Unique(configs)
      /\ DOMAIN file.configs # {}
  BY <1>1 DEF LoadMultiMode
<1>3. DOMAIN configs = DOMAIN file.configs /\ \A n \in DOMAIN configs : configs[n] = Entry(n)
  OBVIOUS
<1>4. DOMAIN configs \subseteq DOMAIN Rank
  BY <1>3 DEF FileOK, MultiMode, IsFile
<1> HIDE DEF configs
<1>5. LoadMultiMode.configs = configs /\ LoadMultiMode.dflt \in DOMAIN configs
  BY <1>1, <1>2, <1>3, <1>4, ChooseIs
<1>6. ASSUME NEW n \in DOMAIN configs
      PROVE  /\ DOMAIN configs[n] = Fields
             /\ \A f \in Fields : configs[n][f] = FirstOf(f, Sources(n, f))
  <2>1. DOMAIN configs[n] = Fields
    BY <1>3, <1>6, OverlayIs DEF Entry
  <2>2. ASSUME NEW f \in Fields PROVE configs[n][f] = FirstOf(f, Sources(n, f))
    <3>1. Sources(n, f) = <<file.configs[n], file.top, defaults>> /\ f \in DOMAIN defaults
      BY DefaultsDomain DEF Sources
    <3>2. configs[n][f] = IF f \in DOMAIN file.configs[n] THEN file.configs[n][f]
                          ELSE IF f \in DOMAIN file.top THEN file.top[f] ELSE defaults[f]
      BY <1>3, <1>6, OverlayIs DEF Entry
    <3>3. QED
      BY <3>1, <3>2, FirstOfThree
  <2>3. QED
    BY <2>1, <2>2
<1>7. ~PresetMode
  BY DEF PresetMode
<1>8. QED
  BY <1>2, <1>5, <1>6, <1>7 DEF Good

LEMMA SingleGood ==
  ASSUME ~MultiMode, UsablePresets = {}
  PROVE  Good(LoadSingleMode)
<1>1. SUFFICES ASSUME LoadSingleMode # Failed PROVE Good(LoadSingleMode)
  BY DEF Good
<1> DEFINE c == applyEnv(Overlay(defaults, FileTop))
           r == [configs |-> [default |-> c], dflt |-> "default"]
<1>2. LoadSingleMode = r
  BY <1>1 DEF LoadSingleMode
<1>3. /\ DOMAIN r.configs = {"default"} /\ r.configs["default"] = c
      /\ r.dflt = "default"
  OBVIOUS
<1>4. ~PresetMode
  BY DEF PresetMode
<1>5. DOMAIN c = Fields
  BY EnvIs
<1>6. ASSUME NEW f \in Fields PROVE c[f] = FirstOf(f, Sources("default", f))
  <2>1. Sources("default", f) = <<Environment, FileTop, defaults>> /\ f \in DOMAIN defaults
    BY <1>4, DefaultsDomain DEF Sources
  <2>2. c[f] = IF f \in DOMAIN Environment THEN Environment[f]
               ELSE IF f \in DOMAIN FileTop THEN FileTop[f] ELSE defaults[f]
    BY EnvIs, OverlayIs
  <2> HIDE DEF c
  <2>3. QED
    BY <2>1, <2>2, FirstOfThree
<1> HIDE DEF c, r
<1>7. Unique(r.configs)
  BY <1>3 DEF Unique
<1>8. QED
  BY <1>2, <1>3, <1>4, <1>5, <1>6, <1>7 DEF Good

Ranked == \A i \in Indices : presets[i].Name \in DOMAIN Rank

LEMMA UsableIs ==
  ASSUME WalkTypeOK, Ranked
  PROVE  /\ IsFiniteSet(UsablePresets)
         /\ UsablePresets \subseteq Preset
         /\ \A p \in UsablePresets : p.Name \in DOMAIN Rank
<1>1. Indices = 1 .. Len(presets) /\ Len(presets) \in Nat
  BY DEF WalkTypeOK, Indices
<1> DEFINE J == {j \in Indices : Usable(presets[j])}
<1>2. IsFiniteSet(J)
  <2>1. IsFiniteSet(1 .. Len(presets))
    BY <1>1, FS_Interval
  <2>2. J \in SUBSET (1 .. Len(presets))
    BY <1>1
  <2>3. QED
    BY <2>1, <2>2, FS_Subset
<1>3. IsFiniteSet({presets[i] : i \in J})
  <2> DEFINE V == {presets[i] : i \in J}
             f == [i \in J |-> presets[i]]
  <2>1. f \in [J -> V] /\ \A v \in V : \E i \in J : f[i] = v
    OBVIOUS
  <2>2. f \in Surjection(J, V)
    BY <2>1 DEF Surjection
  <2> HIDE DEF f, J, V
  <2>3. IsFiniteSet(V)
    BY <1>2, <2>2, FS_Surjection
  <2>4. QED
    BY <2>3 DEF V
<1>4. QED
  BY <1>3 DEF UsablePresets, Ranked, WalkTypeOK, Indices

LEMMA DirIsClean ==
  ASSUME NEW p \in Preset, Head(p.BinaryDir) # "/"
  PROVE  Clean(expandBinaryDir(p)) = expandBinaryDir(p)
<1>1. p.BinaryDir \in Seq(STRING)
  BY DEF Preset
<1> DEFINE new(k) == CASE p.BinaryDir[k] = "${presetName}" -> p.Name
                       [] p.BinaryDir[k] = "${sourceDir}"  -> "."
                       [] OTHER                            -> p.BinaryDir[k]
           S == {new(k) : k \in DOMAIN p.BinaryDir}
<1>2. Substituted(p) \in Seq(S)
  <2>1. DOMAIN p.BinaryDir = 1 .. Len(p.BinaryDir) /\ Len(p.BinaryDir) \in Nat
    BY <1>1
  <2>2. Substituted(p) = [k \in DOMAIN p.BinaryDir |-> new(k)]
    BY DEF Substituted
  <2> HIDE DEF new
  <2>3. QED
    BY <2>1, <2>2
<1> HIDE DEF S
<1>3. expandBinaryDir(p) = Clean(Substituted(p))
  BY DEF expandBinaryDir
<1>4. QED
  BY <1>2, <1>3, CleanTwice

LEMMA FromPresetIs ==
  ASSUME NEW p
  PROVE  /\ DOMAIN FromPreset(p) = {"BuildDir", "Generator", "Preset", "Toolchain"}
         /\ FromPreset(p)["BuildDir"] = expandBinaryDir(p)
BY DEF FromPreset

\* Where a field of a configuration comes from before the environment.
LEMMA PresetConfigIs ==
  ASSUME NEW p
  PROVE  /\ DOMAIN PresetConfig(p) = Fields
         /\ \A f \in Fields :
              PresetConfig(p)[f] = IF f \in Pinned THEN FromPreset(p)[f]
                                   ELSE IF f \in DOMAIN FileTop THEN FileTop[f]
                                   ELSE IF f \in DOMAIN FromPreset(p) THEN FromPreset(p)[f]
                                   ELSE defaults[f]
         /\ PresetConfig(p)["BuildDir"] = expandBinaryDir(p)
<1> DEFINE own == Overlay(Overlay(defaults, FromPreset(p)), FileTop)
           pin == [f \in Pinned |-> FromPreset(p)[f]]
<1>1. PresetConfig(p) = Overlay(own, pin)
  BY DEF PresetConfig
<1>2. DOMAIN pin = Pinned /\ \A f \in Pinned : pin[f] = FromPreset(p)[f]
  OBVIOUS
<1>3. \A f \in Fields : own[f] = IF f \in DOMAIN FileTop THEN FileTop[f]
                                 ELSE IF f \in DOMAIN FromPreset(p) THEN FromPreset(p)[f]
                                 ELSE defaults[f]
  BY OverlayIs
<1> HIDE DEF own, pin
<1>4. "BuildDir" \in Pinned /\ "BuildDir" \in Fields
  BY DEF Pinned, Fields
<1>5. QED
  BY <1>1, <1>2, <1>3, <1>4, OverlayIs, FromPresetIs

LEMMA PresetGood ==
  ASSUME WalkTypeOK, Ranked, ~MultiMode, UsablePresets # {}
  PROVE  Good(LoadPresetMode)
<1>1. SUFFICES ASSUME LoadPresetMode # Failed PROVE Good(LoadPresetMode)
  BY DEF Good
<1> DEFINE names   == {p.Name : p \in UsablePresets}
           config  == [p \in UsablePresets |-> PresetConfig(p)]
           configs == [n \in names |-> config[PresetOf(n)]]
           final   == [n \in DOMAIN configs |-> WithEnv(configs[n])]
<1>2. Unique(configs) /\ LoadPresetMode = Choose(final)
  BY <1>1 DEF LoadPresetMode
<1>3. \A n \in names : PresetOf(n) \in UsablePresets
  BY DEF PresetOf
<1>4. DOMAIN configs = names /\ \A n \in names : configs[n] = PresetConfig(PresetOf(n))
  BY <1>3
<1> HIDE DEF configs, config
<1>5. DOMAIN final = names /\ \A n \in names : final[n] = WithEnv(configs[n])
  BY <1>4
<1>6. names # {} /\ names \subseteq DOMAIN Rank
  BY UsableIs
<1> HIDE DEF final
<1>7. LoadPresetMode.configs = final /\ LoadPresetMode.dflt \in names
  BY <1>1, <1>2, <1>5, <1>6, ChooseIs
<1>8. Cardinality(UsablePresets) = 1 => \A m, n \in names : m = n
  <2>1. Cardinality(UsablePresets) = 1 => \E x : UsablePresets = {x}
    BY UsableIs, FS_Singleton
  <2>2. QED
    BY <2>1
<1>9. PresetMode
  BY DEF PresetMode
<1>10. ASSUME NEW n \in names
       PROVE  /\ DOMAIN final[n] = Fields
              /\ \A f \in Fields : final[n][f] = FirstOf(f, Sources(n, f))
  <2> DEFINE p    == PresetOf(n)
             one  == Cardinality(UsablePresets) = 1
             over == IF one THEN Environment ELSE NoSettings
  <2>1. DOMAIN NoSettings = {}
    BY DEF NoSettings
  <2>2. /\ DOMAIN final[n] = Fields
        /\ \A f \in Fields : final[n][f] = IF f \in DOMAIN over THEN over[f]
                                           ELSE PresetConfig(p)[f]
    <3>1. CASE one
      BY <1>4, <1>5, <1>10, <3>1, EnvIs DEF WithEnv
    <3>2. CASE ~one
      BY <1>4, <1>5, <1>10, <2>1, <3>2, PresetConfigIs DEF WithEnv
    <3>3. QED
      BY <3>1, <3>2
  <2>3. \A f : Sources(n, f) = IF f \in Pinned THEN <<over, FromPreset(p)>>
                               ELSE <<over, FileTop, FromPreset(p), defaults>>
    BY <1>9 DEF Sources
  <2> HIDE DEF p, over
  <2>4. ASSUME NEW f \in Fields PROVE final[n][f] = FirstOf(f, Sources(n, f))
    <3>1. CASE f \in Pinned
      <4>1. f \in DOMAIN FromPreset(p)
        BY <3>1, FromPresetIs DEF Pinned
      <4>2. Sources(n, f) = <<over, FromPreset(p)>>
        BY <2>3, <3>1
      <4>3. QED
        BY <2>2, <2>4, <3>1, <4>1, <4>2, FirstOfTwo, PresetConfigIs
    <3>2. CASE f \notin Pinned
      <4>1. f \in DOMAIN defaults
        BY <2>4, DefaultsDomain
      <4>2. Sources(n, f) = <<over, FileTop, FromPreset(p), defaults>>
        BY <2>3, <3>2
      <4>3. QED
        BY <2>2, <2>4, <3>2, <4>1, <4>2, FirstOfFour, PresetConfigIs
    <3>3. QED
      BY <3>1, <3>2
  <2>5. QED
    BY <2>2, <2>4
<1>11. Cardinality(UsablePresets) # 1 => \A n \in names : final[n] = configs[n]
  BY <1>5 DEF WithEnv
<1>12. Unique(final)
  BY <1>2, <1>4, <1>5, <1>8, <1>11 DEF Unique
<1>13. ASSUME Relative, Cardinality(UsablePresets) # 1, NEW n \in names
       PROVE  Clean(final[n].BuildDir) = final[n].BuildDir
  <2>1. PresetOf(n) \in Preset /\ Head(PresetOf(n).BinaryDir) # "/"
    BY <1>3, <1>13, UsableIs DEF Relative
  <2>2. final[n].BuildDir = expandBinaryDir(PresetOf(n))
    BY <1>4, <1>11, <1>13, PresetConfigIs
  <2>3. QED
    BY <2>1, <2>2, DirIsClean
<1>14. Relative => \A m, n \in names :
                     Clean(final[m].BuildDir) = Clean(final[n].BuildDir) => m = n
  BY <1>5, <1>8, <1>12, <1>13 DEF Unique
<1> HIDE DEF names
<1>15. QED
  BY <1>5, <1>7, <1>10, <1>12, <1>14 DEF Good

-----------------------------------------------------------------------------
(* Every step *)

FilesOK ==
  /\ FileOK
  /\ project \in {Absent, Broken} \/ IsPresetsFile(project)
  /\ user \in {Absent, Broken} \/ IsPresetsFile(user)

LoadInv ==
  /\ WalkProved /\ Ranked /\ FilesOK
  /\ step \in {"read", "resolve", "done"}
  /\ step = "read" => Walk(<<>>)
  /\ step = "resolve" => ~MultiMode
  /\ step = "done" => Good(result)
  /\ step # "done" => result = Pending

RankedPreset == {p \in Preset : p.Name \in DOMAIN Rank}

LEMMA RankedList ==
  ASSUME NEW list, IsPresetsFile(list)
  PROVE  list \in Seq(RankedPreset)
<1>1. DOMAIN list = 1 .. Len(list) /\ Len(list) \in Nat
      /\ \A k \in 1 .. Len(list) : list[k] \in RankedPreset
  BY DEF IsPresetsFile, RankedPreset
<1>2. list = [k \in 1 .. Len(list) |-> list[k]]
  BY DEF IsPresetsFile
<1>3. QED
  BY <1>1, <1>2

\* The list of both files is a list of their presets.
LEMMA MergeType ==
  ASSUME NEW p \in Seq(RankedPreset), NEW u \in Seq(RankedPreset)
  PROVE  mergePresets(p, u) \in Seq(RankedPreset)
<1> DEFINE K    == {k \in DOMAIN u : u[k].Name \notin NamesOf(p)}
           new(k) == IF p[k].Name \in NamesOf(u)
                       THEN u[CHOOSE j \in DOMAIN u : u[j].Name = p[k].Name] ELSE p[k]
           over == [k \in DOMAIN p |-> new(k)]
<1>1. Kept(u, K) \in Seq(RankedPreset)
  BY KeptType
<1>2. over \in Seq(RankedPreset)
  <2>1. DOMAIN p = 1 .. Len(p) /\ Len(p) \in Nat
    OBVIOUS
  <2>2. ASSUME NEW k \in DOMAIN p PROVE new(k) \in RankedPreset
    <3>1. CASE p[k].Name \in NamesOf(u)
      <4>1. \E j \in DOMAIN u : u[j].Name = p[k].Name
        BY <3>1 DEF NamesOf
      <4>2. (CHOOSE j \in DOMAIN u : u[j].Name = p[k].Name) \in DOMAIN u
        BY <4>1
      <4>3. QED
        BY <3>1, <4>2
    <3>2. CASE p[k].Name \notin NamesOf(u)
      BY <2>2, <3>2
    <3>3. QED
      BY <3>1, <3>2
  <2> HIDE DEF new
  <2>3. QED
    BY <2>1, <2>2
<1>3. mergePresets(p, u) = over \o Kept(u, K)
  BY DEF mergePresets
<1> HIDE DEF over, K
<1>4. QED
  BY <1>1, <1>2, <1>3

LEMMA LoadInitInv == LoadInit => LoadInv
<1> SUFFICES ASSUME LoadInit PROVE LoadInv
  OBVIOUS
<1>1. FilesOK
  BY LoadAssumption DEF LoadInit, FilesOK, FileOK
<1>2. <<>> \in Seq(Preset)
  OBVIOUS
<1>3. Walk(<<>>)
  BY DEF LoadInit
<1>4. WalkProved
  BY <1>2, <1>3, WalkBegins
<1>5. Ranked
  BY <1>3 DEF Ranked, Walk, Indices
<1>6. QED
  BY <1>1, <1>3, <1>4, <1>5 DEF LoadInit, LoadInv

\* What an answer is judged by does not change once it is given.
LEMMA GoodStays ==
  ASSUME NEW r, Good(r), result' = r, UNCHANGED Inputs, UNCHANGED walk
  PROVE  Good(result)'
<1>1. file' = file /\ env' = env /\ presets' = presets
  BY DEF Inputs, walk
<1>2. /\ MultiMode' = MultiMode /\ UsablePresets' = UsablePresets
      /\ FileTop' = FileTop /\ Environment' = Environment
  BY <1>1 DEF MultiMode, UsablePresets, Indices, FileTop, Environment
<1>3. PresetMode' = PresetMode /\ Relative' = Relative
  BY <1>2 DEF PresetMode, Relative
<1>4. \A n : PresetOf(n)' = PresetOf(n)
  BY <1>2 DEF PresetOf
<1>5. \A n, f : Sources(n, f)' = Sources(n, f)
  BY <1>1, <1>2, <1>3, <1>4 DEF Sources
<1>6. QED
  BY <1>3, <1>5 DEF Good

\* The steps before the answer leave the list a list.
LEMMA ResolveStep ==
  ASSUME LoadInv, Resolve
  PROVE  LoadInv'
<1>1. WalkProved' /\ step' = step /\ UNCHANGED Inputs /\ result' = result
  BY WalkGoesOn DEF LoadInv, Resolve
<1>2. FilesOK' /\ MultiMode' = MultiMode
  BY <1>1 DEF LoadInv, FilesOK, FileOK, Inputs, MultiMode
<1>3. Ranked'
  <2>1. Indices' = Indices /\ \A i \in Indices : presets'[i].Name = presets[i].Name
    <3>1. CASE InheritFrom
      BY <3>1, InheritType, WalkShows DEF LoadInv
    <3>2. CASE ~InheritFrom
      BY <3>2 DEF Resolve, WalkStep, EnterPreset, NextPreset, WalkEnds, MalformedInherits,
                  UnknownParent, Descend, CircularInherits, Leave, Indices
    <3>3. QED
      BY <3>1, <3>2
  <2>2. QED
    BY <2>1 DEF LoadInv, Ranked
<1>4. step = "resolve"
  BY DEF Resolve
<1>5. QED
  BY <1>1, <1>2, <1>3, <1>4 DEF LoadInv

LEMMA WalkBeginsAnew == (Walk(given) /\ given \in Seq(Preset))' => WalkProved'
<1>1. Walk(given) /\ given \in Seq(Preset) => WalkProved
  BY WalkBegins
<1>2. QED
  BY <1>1, PTL

LEMMA ReadStep ==
  ASSUME LoadInv, ReadPresets
  PROVE  LoadInv'
<1>1. /\ step = "read" /\ step' = "resolve" /\ UNCHANGED Inputs /\ result' = result
      /\ ~MultiMode /\ project \notin {Absent, Broken} /\ user # Broken
      /\ given' = mergePresets(project, IF user = Absent THEN <<>> ELSE user)
      /\ presets' = given' /\ UNCHANGED <<resolved, stack, cursor, outcome>>
  BY DEF ReadPresets
<1>2. FilesOK' /\ ~MultiMode'
  BY <1>1 DEF LoadInv, FilesOK, FileOK, Inputs, MultiMode
<1>3. presets' \in Seq(RankedPreset)
  <2>1. project \in Seq(RankedPreset)
    BY <1>1, RankedList DEF LoadInv, FilesOK
  <2>2. (IF user = Absent THEN <<>> ELSE user) \in Seq(RankedPreset)
    BY <1>1, RankedList DEF LoadInv, FilesOK
  <2>3. QED
    BY <1>1, <2>1, <2>2, MergeType
<1>4. presets' \in Seq(Preset) /\ \A i \in DOMAIN presets' : presets'[i].Name \in DOMAIN Rank
  <2>1. \A q \in RankedPreset : q \in Preset /\ q.Name \in DOMAIN Rank
    BY DEF RankedPreset
  <2>2. \A i \in DOMAIN presets' : presets'[i] \in RankedPreset
    BY <1>3
  <2>3. presets' = [i \in 1 .. Len(presets') |-> presets'[i]]
        /\ Len(presets') \in Nat /\ DOMAIN presets' = 1 .. Len(presets')
    BY <1>3
  <2>4. presets' \in Seq(Preset)
    BY <2>1, <2>2, <2>3
  <2>5. QED
    BY <2>1, <2>2, <2>4
<1>5. Walk(<<>>)
  BY <1>1 DEF LoadInv
<1>6. WalkProved'
  BY <1>1, <1>4, <1>5, WalkBeginsAnew DEF Walk
<1>7. Ranked'
  BY <1>4 DEF Ranked, Indices
<1>8. QED
  BY <1>1, <1>2, <1>6, <1>7 DEF LoadInv

LEMMA ReturnStep ==
  ASSUME LoadInv, NEW r, Good(r), Return(r), UNCHANGED walk
  PROVE  LoadInv'
<1>1. step' = "done" /\ result' = r /\ UNCHANGED Inputs
  BY DEF Return
<1>2. Good(result)'
  BY <1>1, GoodStays
<1>3. WalkProved'
  BY WalkGoesOn DEF LoadInv
<1>4. Ranked' /\ FilesOK'
  BY <1>1 DEF LoadInv, walk, Indices, Ranked, FilesOK, FileOK, Inputs
<1>5. QED
  BY <1>1, <1>2, <1>3, <1>4 DEF LoadInv

LEMMA LoadStep == LoadInv /\ [LoadNext]_loadVars => LoadInv'
<1> SUFFICES ASSUME LoadInv, [LoadNext]_loadVars PROVE LoadInv'
  OBVIOUS
<1>1. CASE ReadConfigFile
  <2>1. CASE Return(Failed)
    BY <1>1, <2>1, FailedIsGood, ReturnStep DEF ReadConfigFile
  <2>2. CASE MultiMode /\ Return(LoadMultiMode)
    <3>1. Good(LoadMultiMode)
      BY <2>2, MultiGood DEF LoadInv, FilesOK
    <3>2. QED
      BY <1>1, <2>2, <3>1, ReturnStep DEF ReadConfigFile
  <2>3. QED
    BY <1>1, <2>1, <2>2 DEF ReadConfigFile
<1>2. CASE NoPresets
  <2>1. CASE Return(Failed)
    BY <1>2, <2>1, FailedIsGood, ReturnStep DEF NoPresets
  <2>2. CASE Return(LoadSingleMode)
    <3>1. UsablePresets = {}
      BY <1>2 DEF NoPresets, LoadInv, Walk, UsablePresets, Indices
    <3>2. Good(LoadSingleMode)
      BY <1>2, <3>1, SingleGood DEF NoPresets
    <3>3. QED
      BY <1>2, <2>2, <3>2, ReturnStep DEF NoPresets
  <2>3. QED
    BY <1>2, <2>1, <2>2 DEF NoPresets
<1>3. CASE ReadPresets
  BY <1>3, ReadStep
<1>4. CASE Resolve
  BY <1>4, ResolveStep
<1>5. CASE ResolveFails
  BY <1>5, FailedIsGood, ReturnStep DEF ResolveFails
<1>6. CASE UsePresets
  <2>1. ~MultiMode /\ WalkTypeOK /\ Ranked
    BY <1>6, WalkShows DEF UsePresets, LoadInv
  <2>2. CASE UsablePresets = {}
    <3>1. Return(LoadSingleMode)
      BY <1>6, <2>2 DEF UsePresets
    <3>2. QED
      BY <1>6, <2>1, <2>2, <3>1, SingleGood, ReturnStep DEF UsePresets
  <2>3. CASE UsablePresets # {}
    <3>1. Return(LoadPresetMode)
      BY <1>6, <2>3 DEF UsePresets
    <3>2. QED
      BY <1>6, <2>1, <2>3, <3>1, PresetGood, ReturnStep DEF UsePresets
  <2>4. QED
    BY <2>2, <2>3
<1>7. CASE UNCHANGED loadVars
  <2>1. UNCHANGED <<step, result>> /\ UNCHANGED Inputs /\ UNCHANGED walk
    BY <1>7 DEF loadVars, Inputs, walk
  <2>2. step = "done" => Good(result)'
    BY <2>1, GoodStays DEF LoadInv
  <2>3. Ranked' /\ FilesOK' /\ MultiMode' = MultiMode /\ (Walk(<<>>) => Walk(<<>>)')
    BY <2>1 DEF LoadInv, walk, Indices, Ranked, FilesOK, FileOK, Inputs, MultiMode, Walk
  <2>4. WalkProved'
    BY <2>1, WalkGoesOn DEF LoadInv
  <2>5. QED
    BY <2>1, <2>2, <2>3, <2>4 DEF LoadInv
<1>8. QED
  BY <1>1, <1>2, <1>3, <1>4, <1>5, <1>6, <1>7 DEF LoadNext

LEMMA LoadInvHolds == LoadSpec => []LoadInv
  BY LoadInitInv, LoadStep, PTL DEF LoadSpec

LEMMA NothingPending ==
  ASSUME LoadInv
  PROVE  /\ Loaded => Good(result) /\ result # Failed
         /\ ~Loaded => DOMAIN Configs = {}
<1>1. DOMAIN Pending.configs = {} /\ DOMAIN Failed.configs = {}
  BY DEF Pending, Failed, NoSettings
<1>2. QED
  BY <1>1 DEF LoadInv, Loaded, Configs

-----------------------------------------------------------------------------
(* Theorems *)

\* The state of a load keeps its types, for any files: a configuration has a
\* value for each field (LoadMulti, mergePresets, resolveInherits).
THEOREM LoadTypeCorrect == LoadSpec => []LoadTypeOK
<1>1. LoadInv => LoadTypeOK
  BY NothingPending, WalkShows DEF LoadInv, LoadTypeOK, Good, Configs
<1>2. QED
  BY <1>1, LoadInvHolds, PTL

\* What LoadMulti returns has a default among its configurations, and no two
\* with one build_dir, for any files, presets and environment: the environment
\* is laid over a configuration only where there is no other (config.go
\* 110-131, 218, presets.go).  ConfigServer relies on it.
THEOREM LoadGuarantees == LoadSpec => []LoadGuarantee
<1>1. LoadInv => LoadGuarantee
  BY NothingPending DEF LoadGuarantee, Good, Configs
<1>2. QED
  BY <1>1, LoadInvHolds, PTL

\* Every field of every configuration comes from the first of its sources that
\* gives it, for any files and environment (config.go applyJSON, applyEnv,
\* buildPresetConfigs).
THEOREM SourcesInOrder == LoadSpec => []Precedence
<1>1. LoadInv => Precedence
  BY NothingPending DEF Precedence, Good, Configs
<1>2. QED
  BY <1>1, LoadInvHolds, PTL

\* Presets with relative directories get directories that differ when cleaned,
\* however they are spelled (presets.go expandBinaryDir, config.go:218).
THEOREM DirsApart == LoadSpec => []RelativeDirsApart
<1>1. LoadInv => RelativeDirsApart
  BY NothingPending DEF RelativeDirsApart, Good, Configs, Relative
<1>2. QED
  BY <1>1, LoadInvHolds, PTL

\* The presets of a load, those of both files together, inherit as those of
\* any list do (presets.go resolveInherits, loadPresetsMetadata).
THEOREM LoadInherits == LoadSpec => [](InheritedValues /\ CircularExact)
<1>1. LoadInv => InheritedValues /\ CircularExact
  BY WalkShows DEF LoadInv
<1>2. QED
  BY <1>1, LoadInvHolds, PTL
=============================================================================
