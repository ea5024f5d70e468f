---------------------------- MODULE BuildProcess ----------------------------
(***************************************************************************)
(* One call of CMakeBuilder.run: an external process, the goroutine of     *)
(* os/exec that copies its stdout, the one that ends it when the call's    *)
(* context is done, and the goroutine of scanProgress.                     *)
(*                                                                         *)
(* When progressFunc is set the copier tees every line into a buffer and   *)
(* into an io.Pipe: a write to that pipe returns once the scanner has read *)
(* it.  os/exec and io are modelled from how run uses them.  The module    *)
(* opens up what BuildSession takes as one step, CompileExit.              *)
(***************************************************************************)
EXTENDS Naturals, Sequences

CONSTANTS
  LineKinds,  \* the kinds of line the process may print
  MaxLines    \* bound on the lines it prints

\* step is a [N/M] line and final one with N = M; a long line does not fit
\* the 64 KiB of a bufio.Scanner.
ASSUME ProcessAssumption ==
  /\ LineKinds \subseteq {"text", "step", "final", "long"}
  /\ MaxLines \in Nat

VARIABLES
  callback,   \* progressFunc is not nil; other calls set and reset it
  piped,      \* run saw it set, and made the pipe
  ctxDone,    \* the context timed out or was cancelled
  proc,       \* external: the process
  heir,       \* external: a descendant of it still holds its stdout open
  written,    \* external: the lines printed so far
  copied,     \* how many of them the copier has read
  captured,   \* how many are in the stdout buffer
  fdClosed,   \* the read end of stdout was closed by WaitDelay
  copier,     \* where the copier is; at "pipe" it writes line number copied
  killer,     \* where the goroutine is that watches the context
  scanner,    \* where scanProgress is, or how it ended
  scanned,    \* the line it last read
  delivered,  \* the lines progressFunc was called with
  run,        \* where run is
  err,        \* the error of cmd.Run
  meddled     \* history: another call set or reset progressFunc during run

environment == <<callback, ctxDone, meddled>>
process     == <<proc, heir, written>>
copying     == <<copied, captured, fdClosed, copier>>
scanning    == <<scanner, scanned, delivered>>
running     == <<piped, run, err>>
vars == <<environment, process, copying, scanning, running, killer>>

Errors == {"nil", "start", "exit", "ctx", "delay"}

Init ==
  /\ callback \in BOOLEAN
  /\ ctxDone = FALSE
  /\ proc = "unborn"
  /\ heir = FALSE
  /\ written = <<>>
  /\ copied = 0
  /\ captured = 0
  /\ fdClosed = FALSE
  /\ copier = "off"
  /\ killer = "watch"
  /\ scanner = "off"
  /\ scanned = 0
  /\ delivered = {}
  /\ piped = FALSE
  /\ run = "start"
  /\ err = "nil"
  /\ meddled = FALSE

-----------------------------------------------------------------------------
(* Other calls, the client and the clock *)

\* The handler of this call sets progressFunc before run and resets it when
\* run has returned; in between it is the handler of another call that does.
SetProgressFunc ==
  /\ callback' = ~callback
  /\ meddled' = (meddled \/ run \notin {"start", "returned"})
  /\ UNCHANGED <<ctxDone, process, copying, scanning, running, killer>>

\* A context that ends later is of no interest to run.
ContextDone ==
  /\ ~ctxDone
  /\ run # "returned"
  /\ ctxDone' = TRUE
  /\ UNCHANGED <<callback, meddled, process, copying, scanning, running, killer>>

(* The process and what descends from it *)

WriteLine(kind) ==
  /\ proc = "running" \/ heir
  /\ ~fdClosed
  /\ Len(written) < MaxLines
  /\ written' = Append(written, kind)
  /\ UNCHANGED <<environment, proc, heir, copying, scanning, running, killer>>

\* By itself, or in answer to SIGTERM.
Exit ==
  /\ proc = "running"
  /\ proc' \in {"exit0", "exitN"}
  /\ heir' \in BOOLEAN
  /\ UNCHANGED <<environment, written, copying, scanning, running, killer>>

HeirExit ==
  /\ heir
  /\ heir' = FALSE
  /\ UNCHANGED <<environment, proc, written, copying, scanning, running, killer>>

-----------------------------------------------------------------------------
(* run *)

Dead == proc \in {"exit0", "exitN"}

\* The callback is looked at once, and the scanner started, before the process.
MakePipe ==
  /\ piped' = callback
  /\ scanner' = IF callback THEN "read" ELSE "off"

Start_Ok ==
  /\ run = "start"
  /\ ~ctxDone
  /\ MakePipe
  /\ run' = "wait"
  /\ proc' = "running"
  /\ copier' = "read"
  /\ UNCHANGED <<environment, heir, written, copied, captured, fdClosed, scanned,
                 delivered, err, killer>>

Start_Failed ==
  /\ run = "start"
  /\ MakePipe
  /\ err' \in {"start"} \cup {e \in {"ctx"} : ctxDone}
  /\ run' = "join"
  /\ UNCHANGED <<environment, process, copying, scanned, delivered, killer>>

\* Process.Wait returned: a bad exit status is the error, or else a signal
\* that was sent.
Reap ==
  /\ run = "wait"
  /\ Dead
  /\ err' = IF proc = "exitN" THEN "exit"
            ELSE IF killer = "termed" THEN "ctx" ELSE "nil"
  /\ run' = "copy"
  /\ UNCHANGED <<environment, process, copying, scanning, piped, killer>>

CopyDone ==
  /\ run \in {"copy", "closing"}
  /\ copier = "done"
  /\ err' = IF run = "closing" /\ err = "nil" THEN "delay" ELSE err
  /\ run' = "join"
  /\ UNCHANGED <<environment, process, copying, scanning, piped, killer>>

\* Three seconds after the process was signalled or reaped its stdout is
\* closed; the copier is still waited for.  Counted from the reaping, that is
\* time enough for a copier that nothing keeps waiting.
WaitDelay ==
  /\ run = "copy"
  /\ copier # "done"
  /\ killer = "termed" \/ heir \/ scanner \in {"call", "overflow"}
  /\ fdClosed' = TRUE
  /\ run' = "closing"
  /\ UNCHANGED <<environment, process, copied, captured, copier, scanning, piped,
                 err, killer>>

\* pipeW.Close() comes before "join"; then wg.Wait().
Join_NoWait ==
  /\ run = "join"
  /\ run' = "returned"
  /\ UNCHANGED <<environment, process, copying, scanning, piped, err, killer>>
Join ==
  /\ run = "join"
  /\ scanner \in {"off", "eof", "drained", "overflow"}
  /\ run' = "returned"
  /\ UNCHANGED <<environment, process, copying, scanning, piped, err, killer>>

RunStep == Start_Ok \/ Start_Failed \/ Reap \/ CopyDone \/ WaitDelay \/ Join

\* The result, one of the Outcomes of BuildSession, of a run whose context
\* was (or was not) done when it looked.
Result_NoKill(e, done) ==
  CASE e = "nil"  -> "ok"
    [] e = "exit" -> IF done THEN "killed" ELSE "failed"
    [] OTHER      -> "error"
Result(e, done) ==
  CASE e = "nil"           -> "ok"
    [] e # "nil" /\ done   -> "killed"
    [] e = "exit" /\ ~done -> "failed"
    [] OTHER               -> "error"

-----------------------------------------------------------------------------
(* The goroutine that watches the context: SIGTERM by cmd.Cancel, SIGKILL  *)
(* after WaitDelay.  A process that is dead but not yet reaped may take the *)
(* signal or be reported as done.                                          *)

Terminate ==
  /\ killer = "watch"
  /\ run = "wait"
  /\ ctxDone
  /\ killer' \in IF Dead THEN {"termed", "late"} ELSE {"termed"}
  /\ UNCHANGED <<environment, process, copying, scanning, running>>

Kill ==
  /\ killer = "termed"
  /\ proc = "running"
  /\ proc' = "exitN"
  /\ heir' \in BOOLEAN
  /\ UNCHANGED <<environment, written, copying, scanning, running, killer>>

-----------------------------------------------------------------------------
(* The copier: io.Copy from stdout into the buffer, or the MultiWriter of  *)
(* the buffer and the pipe.                                                *)

CopierRead_PipeOnly ==
  /\ copier = "read"
  /\ ~fdClosed
  /\ copied < Len(written)
  /\ copied' = copied + 1
  /\ captured' = IF piped THEN captured ELSE captured + 1
  /\ copier' = IF piped THEN "pipe" ELSE "read"
  /\ UNCHANGED <<environment, process, fdClosed, scanning, running, killer>>
CopierRead_PastEnd ==
  /\ copier = "read"
  /\ ~fdClosed
  /\ copied <= Len(written)
  /\ copied' = copied + 1
  /\ captured' = captured + 1
  /\ copier' = "read"
  /\ UNCHANGED <<environment, process, fdClosed, scanning, running, killer>>
CopierRead ==
  /\ copier = "read"
  /\ ~fdClosed
  /\ copied < Len(written)
  /\ copied' = copied + 1
  /\ captured' = captured + 1
  /\ copier' = IF piped THEN "pipe" ELSE "read"
  /\ UNCHANGED <<environment, process, fdClosed, scanning, running, killer>>

CopierEOF ==
  /\ copier = "read"
  /\ fdClosed \/ (copied = Len(written) /\ Dead /\ ~heir)
  /\ copier' = "done"
  /\ UNCHANGED <<environment, process, copied, captured, fdClosed, scanning, running,
                 killer>>

CopierStep == CopierRead \/ CopierEOF

-----------------------------------------------------------------------------
(* scanProgress *)

\* The throttle lets a step through or not; a final line always goes through.
Notified_Throttled(kind) == IF kind \in {"step", "final"} THEN BOOLEAN ELSE {FALSE}
Notified(kind) == CASE kind = "step"  -> BOOLEAN
                    [] kind = "final" -> {TRUE}
                    [] OTHER          -> {FALSE}

Scan ==
  /\ scanner = "read"
  /\ copier = "pipe"
  /\ written[copied] # "long"
  /\ \E notify \in Notified(written[copied]) :
       scanner' = IF notify THEN "call" ELSE "read"
  /\ scanned' = copied
  /\ copier' = "read"
  /\ UNCHANGED <<environment, process, copied, captured, fdClosed, delivered, running,
                 killer>>

\* bufio.ErrTooLong: Scan returns false and the goroutine ends, in the middle
\* of the line.
ScanTooLong ==
  /\ scanner = "read"
  /\ copier = "pipe"
  /\ written[copied] = "long"
  /\ scanner' = "overflow"
  /\ UNCHANGED <<environment, process, copying, scanned, delivered, running, killer>>

CallProgress ==
  /\ scanner = "call"
  /\ callback
  /\ delivered' = delivered \cup {scanned}
  /\ scanner' = "read"
  /\ UNCHANGED <<environment, process, copying, scanned, running, killer>>

\* Calling a nil progressFunc panics; recover drains what is left.
Panic_Ends ==
  /\ scanner = "call"
  /\ ~callback
  /\ scanner' = "drained"
  /\ UNCHANGED <<environment, process, copying, scanned, delivered, running, killer>>
Panic ==
  /\ scanner = "call"
  /\ ~callback
  /\ scanner' = "drain"
  /\ UNCHANGED <<environment, process, copying, scanned, delivered, running, killer>>

Drain ==
  /\ scanner = "drain"
  /\ copier = "pipe"
  /\ copier' = "read"
  /\ UNCHANGED <<environment, process, copied, captured, fdClosed, scanning, running,
                 killer>>

\* The pipe was closed by run.
ScannerEOF ==
  /\ run \in {"join", "returned"}
  /\ \/ scanner = "read"  /\ scanner' = "eof"
     \/ scanner = "drain" /\ scanner' = "drained"
  /\ UNCHANGED <<environment, process, copying, scanned, delivered, running, killer>>

ScannerStep == \/ Scan \/ ScanTooLong \/ CallProgress \/ Panic \/ Drain \/ ScannerEOF

-----------------------------------------------------------------------------

Next == \/ SetProgressFunc \/ ContextDone
        \/ (\E kind \in LineKinds : WriteLine(kind)) \/ Exit \/ HeirExit
        \/ RunStep \/ Terminate \/ Kill \/ CopierStep \/ ScannerStep

Spec == Init /\ [][Next]_vars

\* The Go scheduler runs every goroutine that can go on, and the WaitDelay
\* timers fire.  Nothing makes the process end by itself, its descendants
\* least of all, and nothing makes the context end.
Fairness ==
  /\ WF_vars(RunStep)
  /\ WF_vars(Terminate)
  /\ WF_vars(Kill)
  /\ WF_vars(CopierStep)
  /\ WF_vars(ScannerStep)

FairSpec == Spec /\ Fairness

-----------------------------------------------------------------------------
(* Correctness *)

TypeOK ==
  /\ callback \in BOOLEAN /\ ctxDone \in BOOLEAN /\ piped \in BOOLEAN
  /\ meddled \in BOOLEAN
  /\ proc \in {"unborn", "running", "exit0", "exitN"}
  /\ heir \in BOOLEAN
  /\ written \in Seq(LineKinds)
  /\ copied \in 0..Len(written)
  /\ captured \in 0..copied
  /\ scanned \in 0..copied
  /\ fdClosed \in BOOLEAN
  /\ copier \in {"off", "read", "pipe", "done"}
  /\ killer \in {"watch", "termed", "late"}
  /\ scanner \in {"off", "read", "call", "drain", "eof", "drained", "overflow"}
  /\ delivered \subseteq 1..copied
  /\ run \in {"start", "wait", "copy", "closing", "join", "returned"}
  /\ err \in Errors

\* What run returns, once it has returned.
Returned(res) == run = "returned" /\ Result(err, ctxDone) = res

\* A build that was sent SIGTERM is reported as killed, so that the caller
\* marks the store dirty, however the process, its descendants, the copier
\* and the two timers raced (run: "killed" is worked out last, from err and
\* the context).
KillReported ==
  run = "returned" /\ killer = "termed" => Returned("killed")

\* The output handed to the parser of a build that exited 0 is all of it,
\* that of descendants that outlived the process included, whatever became
\* of the scanner (run returns an error when WaitDelay cut the output off).
OutputComplete ==
  Returned("ok") => captured = Len(written) /\ ~heir

\* The scanner finds a nil progressFunc, and loses the rest of the progress,
\* only when the handler of another call reset it while this run was under way:
\* the handler's own deferred SetProgressFunc(nil) is never seen by a scanner
\* that it left behind (run: wg.Wait, cmake.go:508-511).
PanicIsForeign == scanner \in {"drain", "drained"} => meddled

\* Every final [N/N] line that was printed reached progressFunc by the time run
\* returns, unless the scanner gave up: the throttle, the closing of the pipe
\* and the end of the process may not swallow it, and run may not return while
\* the scanner is still about to report it.
FinalDelivered ==
  Returned("ok") /\ piped /\ scanner \notin {"overflow", "drain", "drained"} =>
    \A k \in 1..Len(written) : written[k] = "final" => k \in delivered

\* Once the context is done run returns, whatever the process and its
\* descendants do and although the callback may panic, unless a line was too
\* long for the scanner.
TimeoutEndsRunOrOverflow == ctxDone ~> run = "returned" \/ scanner = "overflow"

-----------------------------------------------------------------------------
(* What the repository says of itself and the code does not keep.          *)

\* build_timeout is the "max build duration" (README.md:211): once the
\* context is done run returns.
TimeoutEndsRun == ctxDone ~> run = "returned"
=============================================================================
