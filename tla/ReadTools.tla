----------------------------- MODULE ReadTools -----------------------------
(***************************************************************************)
(* The tools that read: get_errors, suggest_fix and get_changed_files of   *)
(* main.go with detectMtime of changes/detector.go, while builds run and a *)
(* user edits the sources.  They read the store under its lock and the     *)
(* files without any, and the files are not what they were when the build  *)
(* read them.                                                              *)
(*                                                                         *)
(* Of a file its number of lines and the lines the compiler finds errors   *)
(* in are kept.  The clock goes on with every save and every end of a      *)
(* build; time.Now and the times of files are taken to be exact.           *)
(***************************************************************************)
EXTENDS Integers, Sequences, FiniteSets

CONSTANTS
  Sources,   \* the source files
  Contents,  \* what a file may contain: its lines, and where its errors are
  Goals,     \* the sets of files that a build may be asked for
  Gone,      \* a file that is not there
  MaxClock   \* bound: the last moment at which a file is saved or a build ends

\* A compiler reports lines that exist, or 0 for a file as a whole.
ASSUME ReadToolsAssumption ==
  /\ \A c \in Contents :
       /\ c.total \in Nat \ {0}
       /\ c.wrong \in Seq(Nat)
       /\ \A k \in DOMAIN c.wrong : c.wrong[k] <= c.total
  /\ Goals \subseteq SUBSET Sources
  /\ Gone \notin Contents
  /\ MaxClock \in Nat

VARIABLES
  clock,
  content,  \* of each file
  saved,    \* when it was saved last
  goal,     \* the files that the build under way is asked for, {} when there is none
  read,     \* those it has compiled, and when the version it read had been saved
  found,    \* the errors it has found so far
  since,    \* LastSuccessfulBuildTime, 0 before the first
  errors,   \* Errors
  built,    \* history: when the version was saved that the last good build read
  passed,   \* history: the files that were out of date when it ended
  query,    \* the get_changed_files call under way
  fix       \* the suggest_fix call under way

files   == <<content, saved>>
build   == <<goal, read, found>>
store   == <<since, errors>>
history == <<built, passed>>
readToolsVars == <<clock, files, build, store, history, query, fix>>

Never == -1

NoQuery == [since |-> 0, left |-> {}, files |-> {}, always |-> {}, ever |-> {}, state |-> "idle"]
NoFix   == [diag |-> Gone, start |-> 0, end |-> 0, total |-> 0, state |-> "idle"]

ReadToolsInit ==
  /\ clock = 0
  /\ content \in [Sources -> Contents]
  /\ saved = [f \in Sources |-> 0]
  /\ goal = {} /\ read = [f \in Sources |-> Never] /\ found = <<>>
  /\ since = 0 /\ errors = <<>>
  /\ built = [f \in Sources |-> Never] /\ passed = {}
  /\ query = NoQuery
  /\ fix = NoFix

Existing == {f \in Sources : content[f] # Gone}

\* A panic in a handler ends the server.
Up == fix.state # "panic"

\* One reading call at a time: they change nothing, for each other neither.
Free == Up /\ query.state # "walking" /\ fix.state # "asked"

-----------------------------------------------------------------------------
(* What get_changed_files is asked for *)

\* The files that are not what the last good build of them read.
Unbuilt == {f \in Existing : saved[f] # built[f]}

\* A good build passes over the files outside its targets and those that are
\* saved after it has read them; they count again when they are saved again.
Due == Unbuilt \ passed

\* Histories of the call under way: the files that were due all the time, and
\* those that were out of date at some time.
Watch ==
  query' = IF query.state = "walking"
             THEN [query EXCEPT !.always = @ \cap Due', !.ever = @ \cup Unbuilt']
             ELSE query

-----------------------------------------------------------------------------
(* The user *)

Tick == clock < MaxClock /\ clock' = clock + 1

Save(f, c) ==
  /\ Up /\ Tick
  /\ content' = [content EXCEPT ![f] = c]
  /\ saved' = [saved EXCEPT ![f] = clock']
  /\ passed' = passed \ {f}
  /\ UNCHANGED <<build, store, built, fix>>
  /\ Watch

Delete(f) ==
  /\ Up /\ content[f] # Gone
  /\ content' = [content EXCEPT ![f] = Gone]
  /\ UNCHANGED <<clock, saved, build, store, history, fix>>
  /\ Watch

-----------------------------------------------------------------------------
(* Builds *)

StartBuild(targets) ==
  /\ Up /\ goal = {}
  /\ goal' = targets
  /\ read' = [f \in Sources |-> Never]
  /\ found' = <<>>
  /\ UNCHANGED <<clock, files, store, history, query, fix>>

\* total is history: how long the file was.
ErrorsIn(f) ==
  [k \in DOMAIN content[f].wrong |->
     [file |-> f, line |-> content[f].wrong[k], total |-> content[f].total]]

Compile(f) ==
  /\ Up /\ f \in goal
  /\ read[f] = Never /\ content[f] # Gone
  /\ read' = [read EXCEPT ![f] = saved[f]]
  /\ found' = found \o ErrorsIn(f)
  /\ UNCHANGED <<clock, files, goal, store, history, query, fix>>

Complete == \A f \in goal : read[f] # Never
Good     == Complete /\ found = <<>>

LastSuccessfulBuildTime_Any  == clock'
LastSuccessfulBuildTime == IF Good THEN clock' ELSE since

\* The build ends when it has compiled everything or something failed.
FinishBuild ==
  /\ Up /\ goal # {}
  /\ Complete \/ found # <<>> \/ \E f \in goal : content[f] = Gone
  /\ Tick
  /\ since' = LastSuccessfulBuildTime
  /\ errors' = found
  /\ built' = IF Good THEN [f \in Sources |-> IF f \in goal THEN read[f] ELSE built[f]] ELSE built
  /\ passed' = IF Good THEN {f \in Sources : saved[f] # built'[f]} ELSE passed
  /\ goal' = {} /\ read' = [f \in Sources |-> Never] /\ found' = <<>>
  /\ UNCHANGED <<files, fix>>
  /\ Watch

\* handleClean ends with SetClean, beside a build too.
SetClean ==
  /\ Up /\ errors # <<>>
  /\ errors' = <<>>
  /\ UNCHANGED <<clock, files, build, since, history, query, fix>>

-----------------------------------------------------------------------------
(* handleGetChangedFiles and detectMtime, outside of git.  The sources are in *)
(* one directory, the names in which the walk reads at its beginning.         *)

BeginQuery ==
  /\ Free
  /\ fix' = NoFix
  /\ query' = [since |-> since, left |-> Existing, files |-> {},
               always |-> Due, ever |-> Unbuilt, state |-> "walking"]
  /\ UNCHANGED <<clock, files, build, store, history>>

Changed(f, time) == time = 0 \/ saved[f] > time

Visit(f) ==
  /\ Up /\ f \in query.left /\ content[f] # Gone
  /\ query' = [query EXCEPT !.left = @ \ {f},
                            !.files = IF Changed(f, query.since) THEN @ \cup {f} ELSE @]
  /\ UNCHANGED <<clock, files, build, store, history, fix>>

\* A file that is deleted before its turn ends the walk with an error.
VisitFails(f) ==
  /\ Up /\ f \in query.left /\ content[f] = Gone
  /\ query' = [NoQuery EXCEPT !.state = "failed"]
  /\ UNCHANGED <<clock, files, build, store, history, fix>>

EndQuery ==
  /\ Up /\ query.state = "walking" /\ query.left = {}
  /\ query' = [query EXCEPT !.state = "answered"]
  /\ UNCHANGED <<clock, files, build, store, history, fix>>

-----------------------------------------------------------------------------
(* handleSuggestFix *)

\* Errors() gives a copy, of which one entry is used.
AskFix(k) ==
  /\ Free
  /\ k \in DOMAIN errors
  /\ query' = NoQuery
  /\ fix' = [NoFix EXCEPT !.diag = errors[k], !.state = "asked"]
  /\ UNCHANGED <<clock, files, build, store, history>>

DiagLine(line) == IF line <= 0 THEN 1 ELSE line

StartLine_Unclamped(line) == DiagLine(line) - 10
StartLine(line) == IF DiagLine(line) - 10 < 1 THEN 1 ELSE DiagLine(line) - 10

EndLine_Wide(line, total) == IF DiagLine(line) + 11 > total THEN total ELSE DiagLine(line) + 11
EndLine(line, total) == IF DiagLine(line) + 10 > total THEN total ELSE DiagLine(line) + 10

\* lines[start - 1 : end] of a slice of total lines.
Sliceable(start, end, total) == 0 <= start - 1 /\ start - 1 <= end /\ end <= total

FileGone ==
  /\ Up /\ fix.state = "asked"
  /\ content[fix.diag.file] = Gone
  /\ fix' = [fix EXCEPT !.state = "unreadable"]
  /\ UNCHANGED <<clock, files, build, store, history, query>>

CutWindow ==
  /\ Up /\ fix.state = "asked"
  /\ content[fix.diag.file] # Gone
  /\ LET total == content[fix.diag.file].total
         start == StartLine(fix.diag.line)
         end   == EndLine(fix.diag.line, total)
     IN  fix' = [fix EXCEPT !.start = start, !.end = end, !.total = total,
                            !.state = IF Sliceable(start, end, total) THEN "answered" ELSE "panic"]
  /\ UNCHANGED <<clock, files, build, store, history, query>>

-----------------------------------------------------------------------------

ReadToolsNext ==
  \/ \E s \in Sources : (\E c \in Contents : Save(s, c)) \/ Delete(s) \/ Compile(s)
                       \/ Visit(s) \/ VisitFails(s)
  \/ \E targets \in Goals : StartBuild(targets)
  \/ \E k \in DOMAIN errors : AskFix(k)
  \/ FinishBuild \/ SetClean \/ BeginQuery \/ EndQuery \/ FileGone \/ CutWindow

ReadToolsSpec == ReadToolsInit /\ [][ReadToolsNext]_readToolsVars

-----------------------------------------------------------------------------
(* Correctness *)

Error == [file : Sources, line : Nat, total : Nat]

Query == [since : Nat, left : SUBSET Sources, files : SUBSET Sources,
          always : SUBSET Sources, ever : SUBSET Sources,
          state : {"idle", "walking", "answered", "failed"}]

Fix == [diag : Error \cup {Gone}, start : Nat, end : Nat, total : Nat,
        state : {"idle", "asked", "answered", "unreadable", "panic"}]

\* The types of the state; the window that suggest_fix cuts never begins
\* before the first line.
ReadToolsTypeOK ==
  /\ clock \in Nat
  /\ content \in [Sources -> Contents \cup {Gone}]
  /\ saved \in [Sources -> Nat]
  /\ goal \subseteq Sources
  /\ read \in [Sources -> Nat \cup {Never}]
  /\ found \in Seq(Error) /\ errors \in Seq(Error)
  /\ since \in Nat
  /\ built \in [Sources -> Nat \cup {Never}]
  /\ passed \subseteq Sources
  /\ query \in Query
  /\ fix \in Fix
  /\ fix.state \in {"asked", "answered", "panic"} => fix.diag \in Error

\* get_changed_files names every file that was out of date as long as the call
\* ran, and none that never was, with builds ending and files being saved
\* while it walks; except the files that the last good build passed over
\* (README.md:195, "files changed since the last successful build").
QueryTells ==
  query.state = "answered" =>
    /\ query.always \subseteq query.files
    /\ query.files \subseteq query.ever

\* suggest_fix returns at most ten lines on either side, all of the file, with
\* the line of the error among them as long as the file has that line
\* (README.md:193).
FixShowsLine ==
  fix.state = "answered" =>
    /\ 1 <= fix.start /\ fix.end <= fix.total /\ fix.end - fix.start <= 20
    /\ fix.diag.line <= fix.total =>
         fix.start <= DiagLine(fix.diag.line) /\ DiagLine(fix.diag.line) <= fix.end

\* The slice expression of handleSuggestFix panics, and with it the server,
\* only when the file has lost more than eleven lines since it was compiled
\* (main.go:980).
PanicNeedsShrink == fix.state = "panic" => fix.total + 11 < fix.diag.total
=============================================================================
