-------------------------- MODULE ReadTools_proofs --------------------------
(* What get_changed_files and suggest_fix answer, for any files, any contents *)
(* and any times.                                                             *)
EXTENDS ReadTools, TLAPS

\* The errors of a build are in lines that the file had.
Lines(list) == \A k \in DOMAIN list : list[k].line <= list[k].total

LinesInv ==
  /\ Lines(found)
  /\ Lines(errors)
  /\ fix.state \in {"asked", "answered", "panic"} => fix.diag.line <= fix.diag.total

\* Nothing is from the future, and comparing times finds what is due.
TimesInv ==
  /\ \A f \in Sources : saved[f] <= clock /\ read[f] <= clock /\ built[f] <= clock
  /\ since <= clock
  /\ Due = {f \in Existing : Changed(f, since)}

\* A walk still has before it, or has named, what was due all the time, and
\* will name nothing that was never out of date.
WalkInv ==
  /\ query.state = "walking" =>
       /\ query.since <= since
       /\ query.always \subseteq Due
       /\ query.always \subseteq query.left \cup query.files
       /\ query.files \subseteq query.ever
       /\ \A f \in Existing : Changed(f, query.since) => f \in query.ever
  /\ query.state # "walking" => query.left = {}

-----------------------------------------------------------------------------
(* The window *)

LEMMA Window ==
  ASSUME NEW line \in Nat, NEW total \in Nat \ {0}
  PROVE  /\ StartLine(line) \in Nat /\ EndLine(line, total) \in Nat
         /\ 1 <= StartLine(line) /\ EndLine(line, total) <= total
         /\ EndLine(line, total) - StartLine(line) <= 20
         /\ line <= total => /\ StartLine(line) <= DiagLine(line)
                             /\ DiagLine(line) <= EndLine(line, total)
         /\ ~Sliceable(StartLine(line), EndLine(line, total), total) => total + 11 < line
BY DEF StartLine, EndLine, DiagLine, Sliceable

LEMMA ErrorsInType ==
  ASSUME NEW f \in Sources, content[f] \in Contents
  PROVE  ErrorsIn(f) \in Seq(Error) /\ Lines(ErrorsIn(f))
<1>1. /\ content[f].total \in Nat
      /\ content[f].wrong \in Seq(Nat)
      /\ \A k \in DOMAIN content[f].wrong : content[f].wrong[k] <= content[f].total
  BY ReadToolsAssumption
<1> DEFINE n == Len(content[f].wrong)
<1>2. n \in Nat /\ DOMAIN content[f].wrong = 1 .. n
  BY <1>1
<1>3. \A k \in 1 .. n : content[f].wrong[k] \in Nat
  BY <1>1, <1>2
<1>4. ErrorsIn(f) \in [1 .. n -> Error]
  BY <1>1, <1>2, <1>3 DEF ErrorsIn, Error
<1>5. ErrorsIn(f) \in Seq(Error)
  BY <1>2, <1>4
<1>6. Lines(ErrorsIn(f))
  BY <1>1, <1>2, <1>3 DEF Lines, ErrorsIn
<1>7. QED
  BY <1>5, <1>6

-----------------------------------------------------------------------------
(* Types *)

\* The state keeps its types, for any files and contents (ReadToolsTypeOK).
THEOREM ReadToolsTypeCorrect == ReadToolsSpec => []ReadToolsTypeOK
<1>1. ReadToolsInit => ReadToolsTypeOK
  BY ReadToolsAssumption
  DEF ReadToolsInit, ReadToolsTypeOK, Query, Fix, NoQuery, NoFix, Never
<1>2. ReadToolsTypeOK /\ [ReadToolsNext]_readToolsVars => ReadToolsTypeOK'
  <2> SUFFICES ASSUME ReadToolsTypeOK, [ReadToolsNext]_readToolsVars
               PROVE  ReadToolsTypeOK'
    OBVIOUS
  <2> USE DEF ReadToolsTypeOK
  <2>u. Unbuilt' \subseteq Sources
    BY DEF Unbuilt, Existing
  <2>w. ASSUME Watch
        PROVE  query' \in Query
    BY <2>w, <2>u DEF Watch, Query
  <2>1. ASSUME NEW f \in Sources, NEW c \in Contents, Save(f, c)
        PROVE  ReadToolsTypeOK'
    BY <2>1, <2>w, <2>u DEF Save, Tick, build, store
  <2>2. ASSUME NEW f \in Sources, Delete(f)
        PROVE  ReadToolsTypeOK'
    BY <2>2, <2>w, <2>u DEF Delete, build, store, history
  <2>3. ASSUME NEW targets \in Goals, StartBuild(targets)
        PROVE  ReadToolsTypeOK'
    BY <2>3, ReadToolsAssumption DEF StartBuild, files, store, history
  <2>4. ASSUME NEW f \in Sources, Compile(f)
        PROVE  ReadToolsTypeOK'
    <3>1. content[f] \in Contents
      BY <2>4 DEF Compile
    <3>2. found' \in Seq(Error)
      BY <3>1, <2>4, ErrorsInType DEF Compile
    <3>3. QED
      BY <2>4, <3>2 DEF Compile, files, store, history
  <2>5. CASE FinishBuild
    <3>1. built' \in [Sources -> Nat \cup {Never}] /\ passed' \subseteq Sources
      BY <2>5 DEF FinishBuild
    <3>2. clock' \in Nat /\ since' \in Nat
      BY <2>5 DEF FinishBuild, Tick, LastSuccessfulBuildTime
    <3>3. QED
      BY <2>5, <3>1, <3>2, <2>w, <2>u DEF FinishBuild, files, Never
  <2>6. CASE SetClean
    BY <2>6 DEF SetClean, files, build, history
  <2>7. CASE BeginQuery
    BY <2>7, ReadToolsAssumption
    DEF BeginQuery, files, build, store, history, Query, Fix, NoFix, Existing, Unbuilt, Due
  <2>8. ASSUME NEW f \in Sources, Visit(f)
        PROVE  ReadToolsTypeOK'
    BY <2>8 DEF Visit, files, build, store, history, Query
  <2>9. ASSUME NEW f \in Sources, VisitFails(f)
        PROVE  ReadToolsTypeOK'
    BY <2>9 DEF VisitFails, files, build, store, history, Query, NoQuery
  <2>10. CASE EndQuery
    BY <2>10 DEF EndQuery, files, build, store, history, Query
  <2>11. ASSUME NEW k \in DOMAIN errors, AskFix(k)
         PROVE  ReadToolsTypeOK'
    <3>1. errors[k] \in Error
      OBVIOUS
    <3>2. QED
      BY <2>11, <3>1 DEF AskFix, files, build, store, history, Query, Fix, NoQuery, NoFix
  <2>12. CASE FileGone
    BY <2>12 DEF FileGone, files, build, store, history, Fix
  <2>13. CASE CutWindow
    <3>1. fix.diag \in Error /\ content[fix.diag.file] \in Contents
      BY <2>13 DEF CutWindow, Error
    <3>2. content[fix.diag.file].total \in Nat \ {0} /\ fix.diag.line \in Nat
      BY <3>1, ReadToolsAssumption DEF Error
    <3>3. fix' \in Fix /\ fix'.diag = fix.diag
      BY <2>13, <3>1, <3>2, Window DEF CutWindow, Fix
    <3>4. QED
      BY <2>13, <3>1, <3>3 DEF CutWindow, files, build, store, history
  <2>14. CASE UNCHANGED readToolsVars
    BY <2>14 DEF readToolsVars, files, build, store, history
  <2>15. QED
    BY <2>1, <2>2, <2>3, <2>4, <2>5, <2>6, <2>7, <2>8, <2>9, <2>10, <2>11, <2>12, <2>13,
       <2>14 DEF ReadToolsNext
<1>3. QED
  BY <1>1, <1>2, PTL DEF ReadToolsSpec

-----------------------------------------------------------------------------
(* suggest_fix *)

\* The steps that a call of suggest_fix takes.
LEMMA FixSteps ==
  ASSUME [ReadToolsNext]_readToolsVars
  PROVE  \/ fix' = fix
         \/ fix' = NoFix
         \/ \E k \in DOMAIN errors : AskFix(k)
         \/ fix' = [fix EXCEPT !.state = "unreadable"]
         \/ CutWindow
BY DEF readToolsVars, ReadToolsNext, Save, Delete, StartBuild, Compile, FinishBuild, SetClean,
       BeginQuery, Visit, VisitFails, EndQuery, FileGone

\* suggest_fix answers with lines of the file around the error (FixShowsLine).
THEOREM FixShowsItsLine == ReadToolsSpec => []FixShowsLine
<1>1. ReadToolsInit => FixShowsLine
  BY DEF ReadToolsInit, FixShowsLine, NoFix
<1>2. ReadToolsTypeOK /\ FixShowsLine /\ [ReadToolsNext]_readToolsVars => FixShowsLine'
  <2> SUFFICES ASSUME ReadToolsTypeOK, FixShowsLine, [ReadToolsNext]_readToolsVars
               PROVE  FixShowsLine'
    OBVIOUS
  <2>1. CASE CutWindow
    <3>1. fix \in Fix /\ fix.diag \in Error /\ content[fix.diag.file] \in Contents
      BY <2>1 DEF CutWindow, Error, ReadToolsTypeOK
    <3>2. content[fix.diag.file].total \in Nat \ {0} /\ fix.diag.line \in Nat
      BY <3>1, ReadToolsAssumption DEF Error
    <3>3. QED
      BY <2>1, <3>1, <3>2, Window DEF CutWindow, Fix, FixShowsLine
  <2>2. CASE fix' = fix
    BY <2>2 DEF FixShowsLine, DiagLine
  <2>3. CASE fix'.state # "answered"
    BY <2>3 DEF FixShowsLine
  <2>4. fix' = fix \/ fix'.state # "answered" \/ CutWindow
    <3>1. fix \in Fix
      BY DEF ReadToolsTypeOK
    <3>2. ASSUME NEW k \in DOMAIN errors, AskFix(k)
          PROVE  fix'.state = "asked"
      BY <3>2 DEF AskFix, NoFix
    <3>3. fix' = [fix EXCEPT !.state = "unreadable"] => fix'.state = "unreadable"
      BY <3>1 DEF Fix
    <3>4. NoFix.state = "idle"
      BY DEF NoFix
    <3>5. QED
      BY <3>2, <3>3, <3>4, FixSteps
  <2>5. QED
    BY <2>1, <2>2, <2>3, <2>4
<1>3. QED
  BY <1>1, <1>2, ReadToolsTypeCorrect, PTL DEF ReadToolsSpec

LEMMA LinesHold == ReadToolsSpec => []LinesInv
<1>1. ReadToolsInit => LinesInv
  BY DEF ReadToolsInit, LinesInv, Lines, NoFix
<1>2. ReadToolsTypeOK /\ LinesInv /\ [ReadToolsNext]_readToolsVars => LinesInv'
  <2> SUFFICES ASSUME ReadToolsTypeOK, LinesInv, [ReadToolsNext]_readToolsVars
               PROVE  LinesInv'
    OBVIOUS
  <2>1. Lines(found')
    <3>1. ASSUME NEW f \in Sources, Compile(f)
          PROVE  Lines(found')
      <4>1. /\ content[f] \in Contents
            /\ found' = found \o ErrorsIn(f)
        BY <3>1 DEF Compile, ReadToolsTypeOK
      <4>2. /\ ErrorsIn(f) \in Seq(Error) /\ Lines(ErrorsIn(f))
            /\ found \in Seq(Error) /\ Lines(found)
        BY <4>1, ErrorsInType DEF LinesInv, ReadToolsTypeOK
      <4>3. QED
        BY <4>1, <4>2 DEF Lines
    <3>2. ASSUME NEW targets \in Goals, StartBuild(targets)
          PROVE  Lines(found')
      BY <3>2 DEF StartBuild, Lines
    <3>3. CASE FinishBuild
      BY <3>3 DEF FinishBuild, Lines
    <3>4. CASE found' = found
      BY <3>4 DEF LinesInv, Lines
    <3>5. QED
      BY <3>1, <3>2, <3>3, <3>4
      DEF readToolsVars, ReadToolsNext, Save, Delete, SetClean, BeginQuery, Visit, VisitFails,
          EndQuery, AskFix, FileGone, CutWindow, build
  <2>2. Lines(errors')
    <3>1. errors' \in {errors, found, <<>>}
      BY DEF readToolsVars, ReadToolsNext, Save, Delete, StartBuild, Compile, FinishBuild,
             SetClean, BeginQuery, Visit, VisitFails, EndQuery, AskFix, FileGone, CutWindow, store
    <3>2. QED
      BY <3>1 DEF LinesInv, Lines
  <2>3. fix'.state \in {"asked", "answered", "panic"} => fix'.diag.line <= fix'.diag.total
    <3>1. ASSUME NEW k \in DOMAIN errors, AskFix(k)
          PROVE  fix'.diag.line <= fix'.diag.total
      BY <3>1 DEF AskFix, LinesInv, Lines, NoFix
    <3>2. CASE CutWindow
      <4>1. fix.state = "asked" /\ fix'.diag = fix.diag
        BY <3>2 DEF CutWindow, ReadToolsTypeOK, Fix
      <4>2. QED
        BY <4>1 DEF LinesInv
    <3>3. CASE fix' = NoFix \/ fix' = [fix EXCEPT !.state = "unreadable"]
      BY <3>3 DEF ReadToolsTypeOK, Fix, NoFix
    <3>4. CASE fix' = fix
      BY <3>4 DEF LinesInv
    <3>5. QED
      BY <3>1, <3>2, <3>3, <3>4, FixSteps
  <2>4. QED
    BY <2>1, <2>2, <2>3 DEF LinesInv, Lines
<1>3. QED
  BY <1>1, <1>2, ReadToolsTypeCorrect, PTL DEF ReadToolsSpec

\* The server is ended by suggest_fix only when a file has lost more than
\* eleven lines since it was compiled (PanicNeedsShrink).
THEOREM PanicOnlyAfterShrink == ReadToolsSpec => []PanicNeedsShrink
<1>1. ReadToolsInit => PanicNeedsShrink
  BY DEF ReadToolsInit, PanicNeedsShrink, NoFix
<1>2. /\ ReadToolsTypeOK /\ LinesInv /\ PanicNeedsShrink
      /\ [ReadToolsNext]_readToolsVars
      => PanicNeedsShrink'
  <2> SUFFICES ASSUME ReadToolsTypeOK, LinesInv, PanicNeedsShrink,
                      [ReadToolsNext]_readToolsVars
               PROVE  PanicNeedsShrink'
    OBVIOUS
  <2>1. CASE CutWindow
    <3>1. fix \in Fix /\ fix.diag \in Error /\ content[fix.diag.file] \in Contents
      BY <2>1 DEF CutWindow, Error, ReadToolsTypeOK
    <3>2. /\ content[fix.diag.file].total \in Nat \ {0}
          /\ fix.diag.line \in Nat /\ fix.diag.total \in Nat
          /\ fix.diag.line <= fix.diag.total
      BY <2>1, <3>1, ReadToolsAssumption DEF Error, CutWindow, LinesInv
    <3>3. QED
      BY <2>1, <3>1, <3>2, Window DEF CutWindow, Fix, PanicNeedsShrink
  <2>2. CASE fix' = fix
    BY <2>2 DEF PanicNeedsShrink
  <2>3. CASE fix'.state # "panic"
    BY <2>3 DEF PanicNeedsShrink
  <2>4. fix' = fix \/ fix'.state # "panic" \/ CutWindow
    <3>1. fix \in Fix
      BY DEF ReadToolsTypeOK
    <3>2. ASSUME NEW k \in DOMAIN errors, AskFix(k)
          PROVE  fix'.state = "asked"
      BY <3>2 DEF AskFix, NoFix
    <3>3. fix' = [fix EXCEPT !.state = "unreadable"] => fix'.state = "unreadable"
      BY <3>1 DEF Fix
    <3>4. NoFix.state = "idle"
      BY DEF NoFix
    <3>5. QED
      BY <3>2, <3>3, <3>4, FixSteps
  <2>5. QED
    BY <2>1, <2>2, <2>3, <2>4
<1>3. QED
  BY <1>1, <1>2, ReadToolsTypeCorrect, LinesHold, PTL DEF ReadToolsSpec

-----------------------------------------------------------------------------
(* get_changed_files *)

LEMMA TimesHold == ReadToolsSpec => []TimesInv
<1>1. ReadToolsInit => TimesInv
  BY ReadToolsAssumption
  DEF ReadToolsInit, TimesInv, Due, Unbuilt, Existing, Changed, Never
<1>2. ReadToolsTypeOK /\ TimesInv /\ [ReadToolsNext]_readToolsVars => TimesInv'
  <2> SUFFICES ASSUME ReadToolsTypeOK, TimesInv, [ReadToolsNext]_readToolsVars
               PROVE  TimesInv'
    OBVIOUS
  <2>t. /\ clock \in Nat /\ since \in Nat /\ saved \in [Sources -> Nat]
        /\ read \in [Sources -> Nat \cup {Never}] /\ built \in [Sources -> Nat \cup {Never}]
        /\ content \in [Sources -> Contents \cup {Gone}] /\ Never = -1
    BY DEF ReadToolsTypeOK, Never
  <2> USE DEF TimesInv
  <2>1. ASSUME NEW f \in Sources, NEW c \in Contents, Save(f, c)
        PROVE  TimesInv'
    <3>1. /\ clock' = clock + 1
          /\ content' = [content EXCEPT ![f] = c]
          /\ saved' = [saved EXCEPT ![f] = clock + 1]
          /\ passed' = passed \ {f}
          /\ read' = read /\ built' = built /\ since' = since
      BY <2>1 DEF Save, Tick, build, store
    <3>2. \A g \in Sources : saved'[g] <= clock' /\ read'[g] <= clock' /\ built'[g] <= clock'
      BY <2>t, <3>1
    <3>3. f \in Due' /\ f \in Existing' /\ Changed(f, since)'
      BY <2>t, <3>1, ReadToolsAssumption DEF Due, Unbuilt, Existing, Changed
    <3>4. ASSUME NEW g \in Sources \ {f}
          PROVE  /\ g \in Due' <=> g \in Due
                 /\ g \in Existing' <=> g \in Existing
                 /\ Changed(g, since)' <=> Changed(g, since)
      BY <2>t, <3>1 DEF Due, Unbuilt, Existing, Changed
    <3>5. Due' \subseteq Sources /\ Existing' \subseteq Sources
      BY DEF Due, Unbuilt, Existing
    <3>6. Due' = {g \in Existing : Changed(g, since)}'
      BY <3>3, <3>4, <3>5
    <3>7. QED
      BY <2>t, <3>1, <3>2, <3>6
  <2>2. ASSUME NEW f \in Sources, Delete(f)
        PROVE  TimesInv'
    <3>1. /\ Existing' = Existing \ {f}
          /\ UNCHANGED <<clock, saved, read, since, built, passed>>
      BY <2>2, <2>t DEF Delete, Existing, build, store, history
    <3>2. Due' = Due \ {f}
      BY <3>1 DEF Due, Unbuilt
    <3>3. QED
      BY <3>1, <3>2 DEF Changed
  <2>3. ASSUME NEW targets \in Goals, StartBuild(targets)
        PROVE  TimesInv'
    BY <2>3, <2>t DEF StartBuild, files, store, history, Due, Unbuilt, Existing, Changed
  <2>4. ASSUME NEW f \in Sources, Compile(f)
        PROVE  TimesInv'
    BY <2>4, <2>t DEF Compile, files, store, history, Due, Unbuilt, Existing, Changed
  <2>5. CASE FinishBuild
    <3>1. /\ clock' = clock + 1 /\ saved' = saved /\ content' = content
          /\ \A f \in Sources : read'[f] = Never /\ built'[f] \in {built[f], read[f]}
      BY <2>5, <2>t DEF FinishBuild, Tick, files
    <3>2. CASE Good
      <4>1. /\ since' = clock + 1
            /\ passed' = {f \in Sources : saved[f] # built'[f]}
        BY <2>5, <3>1, <3>2 DEF FinishBuild, LastSuccessfulBuildTime
      <4>2. Due' = {}
        BY <3>1, <4>1 DEF Due, Unbuilt, Existing
      <4>3. {f \in Existing : Changed(f, since)}' = {}
        BY <2>t, <3>1, <4>1 DEF Existing, Changed
      <4>4. QED
        BY <2>t, <3>1, <4>1, <4>2, <4>3
    <3>3. CASE ~Good
      <4>1. since' = since /\ passed' = passed /\ built' = built
        BY <2>5, <3>3 DEF FinishBuild, LastSuccessfulBuildTime
      <4>2. QED
        BY <2>t, <3>1, <4>1 DEF Due, Unbuilt, Existing, Changed
    <3>4. QED
      BY <3>2, <3>3
  <2>6. CASE UNCHANGED <<clock, content, saved, read, since, built, passed>>
    BY <2>6 DEF Due, Unbuilt, Existing, Changed
  <2>7. QED
    BY <2>1, <2>2, <2>3, <2>4, <2>5, <2>6
    DEF readToolsVars, ReadToolsNext, SetClean, BeginQuery, Visit, VisitFails, EndQuery, AskFix,
        FileGone, CutWindow, files, build, store, history
<1>3. QED
  BY <1>1, <1>2, ReadToolsTypeCorrect, PTL DEF ReadToolsSpec

\* get_changed_files names what was due as long as it ran, and nothing that
\* never was out of date (QueryTells).
THEOREM QueryAnswers == ReadToolsSpec => []QueryTells
<1> DEFINE Inv == WalkInv /\ QueryTells
<1>1. ReadToolsInit => Inv
  BY DEF ReadToolsInit, WalkInv, QueryTells, NoQuery
<1>2. ReadToolsTypeOK /\ TimesInv /\ TimesInv' /\ Inv /\ [ReadToolsNext]_readToolsVars => Inv'
  <2> SUFFICES ASSUME ReadToolsTypeOK, TimesInv, TimesInv', WalkInv, QueryTells,
                      [ReadToolsNext]_readToolsVars
               PROVE  WalkInv' /\ QueryTells'
    OBVIOUS
  <2>t. /\ query \in Query /\ since \in Nat /\ clock \in Nat
        /\ saved \in [Sources -> Nat] /\ content \in [Sources -> Contents \cup {Gone}]
    BY DEF ReadToolsTypeOK
  <2>1. ASSUME Watch, since' \in Nat, since <= since',
               \A f \in Existing' : \/ f \in Unbuilt'
                                    \/ f \in Existing /\ saved'[f] = saved[f]
        PROVE  WalkInv' /\ QueryTells'
    <3>1. CASE query.state = "walking"
      <4>1. query' = [query EXCEPT !.always = @ \cap Due', !.ever = @ \cup Unbuilt']
        BY <2>1, <3>1 DEF Watch
      <4>2. /\ query'.since = query.since /\ query'.left = query.left
            /\ query'.files = query.files /\ query'.state = "walking"
            /\ query'.always = query.always \cap Due'
            /\ query'.ever = query.ever \cup Unbuilt'
        BY <2>t, <3>1, <4>1 DEF Query
      <4>3. \A f \in Existing' : Changed(f, query.since)' => f \in query'.ever
        BY <2>1, <3>1, <4>2 DEF WalkInv, Changed, Existing
      <4>4. query'.since <= since'
        BY <2>1, <2>t, <3>1, <4>2 DEF WalkInv, Query
      <4>5. /\ query'.always \subseteq Due'
            /\ query'.always \subseteq query'.left \cup query'.files
            /\ query'.files \subseteq query'.ever
        BY <3>1, <4>2 DEF WalkInv
      <4>6. QED
        BY <4>2, <4>3, <4>4, <4>5 DEF WalkInv, QueryTells
    <3>2. CASE query.state # "walking"
      BY <2>1, <3>2 DEF Watch, WalkInv, QueryTells
    <3>3. QED
      BY <3>1, <3>2
  <2>2. ASSUME NEW s \in Sources, NEW c \in Contents, Save(s, c)
        PROVE  WalkInv' /\ QueryTells'
    <3>1. s \in Unbuilt'
      BY <2>2, <2>t, ReadToolsAssumption
      DEF Save, Tick, Unbuilt, Existing, TimesInv, ReadToolsTypeOK, Never
    <3>2. \A f \in Existing' : \/ f \in Unbuilt'
                               \/ f \in Existing /\ saved'[f] = saved[f]
      <4>1. /\ content' = [content EXCEPT ![s] = c]
            /\ saved' = [saved EXCEPT ![s] = clock']
        BY <2>2 DEF Save
      <4>2. ASSUME NEW f \in Existing', f # s
            PROVE  f \in Existing /\ saved'[f] = saved[f]
        BY <2>t, <4>1, <4>2 DEF Existing
      <4>3. QED
        BY <3>1, <4>2
    <3>3. Watch /\ since' \in Nat /\ since <= since'
      BY <2>2, <2>t DEF Save, store
    <3>4. QED
      BY <2>1, <3>2, <3>3
  <2>3. ASSUME NEW f \in Sources, Delete(f)
        PROVE  WalkInv' /\ QueryTells'
    <3>1. \A g \in Existing' : g \in Existing /\ saved'[g] = saved[g]
      BY <2>3, <2>t DEF Delete, Existing
    <3>2. Watch /\ since' \in Nat /\ since <= since'
      BY <2>3, <2>t DEF Delete, store
    <3>3. QED
      BY <2>1, <3>1, <3>2
  <2>4. CASE FinishBuild
    <3>1. Existing' = Existing /\ saved' = saved /\ Watch
      BY <2>4 DEF FinishBuild, files, Existing
    <3>2. since' \in Nat /\ since <= since'
      BY <2>4, <2>t DEF FinishBuild, LastSuccessfulBuildTime, Tick, TimesInv
    <3>3. QED
      BY <2>1, <3>1, <3>2
  <2>5. CASE BeginQuery
    <3>1. /\ query'.since = since /\ query'.left = Existing /\ query'.files = {}
          /\ query'.always = Due /\ query'.ever = Unbuilt /\ query'.state = "walking"
          /\ since' = since /\ Due' = Due /\ Existing' = Existing /\ saved' = saved
      BY <2>5 DEF BeginQuery, files, store, history, Due, Unbuilt, Existing
    <3>2. Due \subseteq Unbuilt /\ Due \subseteq Existing
      BY DEF Due, Unbuilt
    <3>3. \A f \in Existing : Changed(f, since) => f \in Due
      BY DEF TimesInv
    <3>4. QED
      BY <2>t, <3>1, <3>2, <3>3 DEF WalkInv, QueryTells, Changed
  <2>6. ASSUME NEW f \in Sources, Visit(f)
        PROVE  WalkInv' /\ QueryTells'
    <3>1. /\ f \in query.left /\ f \in Existing
          /\ query'.since = query.since /\ query'.left = query.left \ {f}
          /\ query'.files = IF Changed(f, query.since) THEN query.files \cup {f} ELSE query.files
          /\ query'.always = query.always /\ query'.ever = query.ever
          /\ query'.state = query.state
          /\ since' = since /\ Due' = Due /\ Existing' = Existing /\ saved' = saved
      BY <2>6, <2>t DEF Visit, Query, files, store, history, Due, Unbuilt, Existing
    <3>2. CASE query.state = "walking"
      <4>1. f \in query.always => Changed(f, query.since)
        BY <2>t, <3>2 DEF WalkInv, TimesInv, Changed, Query, Existing
      <4>2. query'.files \subseteq query'.ever
        BY <3>1, <3>2 DEF WalkInv
      <4>3. query'.always \subseteq query'.left \cup query'.files
        BY <3>1, <3>2, <4>1 DEF WalkInv
      <4>4. QED
        BY <3>1, <3>2, <4>2, <4>3 DEF WalkInv, QueryTells, Changed
    <3>3. CASE query.state # "walking"
      BY <3>1, <3>3 DEF QueryTells, WalkInv
    <3>4. QED
      BY <3>2, <3>3
  <2>7. ASSUME NEW f \in Sources, VisitFails(f)
        PROVE  WalkInv' /\ QueryTells'
    BY <2>7 DEF VisitFails, NoQuery, WalkInv, QueryTells
  <2>8. CASE EndQuery
    BY <2>8, <2>t DEF EndQuery, WalkInv, QueryTells, Query
  <2>9. ASSUME NEW k \in DOMAIN errors, AskFix(k)
        PROVE  WalkInv' /\ QueryTells'
    BY <2>9 DEF AskFix, NoQuery, WalkInv, QueryTells
  <2>10. CASE UNCHANGED <<query, content, saved, since, built, passed>>
    BY <2>10 DEF WalkInv, QueryTells, Due, Unbuilt, Existing, Changed
  <2>11. QED
    BY <2>2, <2>3, <2>4, <2>5, <2>6, <2>7, <2>8, <2>9, <2>10
    DEF readToolsVars, ReadToolsNext, StartBuild, Compile, SetClean, FileGone, CutWindow,
        files, build, store, history
<1>3. QED
  BY <1>1, <1>2, ReadToolsTypeCorrect, TimesHold, PTL DEF ReadToolsSpec
=============================================================================
