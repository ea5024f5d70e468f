------------------------ MODULE BuildProcess_proofs ------------------------
(* What run returns, for any number of lines of any kinds. *)
EXTENDS BuildProcess, TLAPS

\* The states run can be in before the process was reaped.
Unreaped == {"start", "wait"}

RunTyped == run \in {"start", "wait", "copy", "closing", "join", "returned"}

\* A signal was sent only while run waited, and it shows in the error.
KillInv ==
  /\ RunTyped
  /\ killer = "termed" => ctxDone /\ run # "start"
  /\ killer = "termed" /\ run \notin Unreaped => err # "nil"

\* A copier that ended by itself has copied everything, and no one is left to
\* print more; without an error that is how it ended.
OutputInv ==
  /\ RunTyped
  /\ captured = copied
  /\ run = "start" => copier = "off" /\ proc = "unborn"
  /\ run \in Unreaped => err = "nil"
  /\ run # "start" /\ err = "nil" => copier # "off"
  /\ fdClosed => run \in {"closing", "join", "returned"}
  /\ fdClosed /\ run # "closing" => err # "nil"
  /\ copier = "done" /\ ~fdClosed => copied = Len(written) /\ Dead /\ ~heir
  /\ run \in {"join", "returned"} /\ err = "nil" => copier = "done"

-----------------------------------------------------------------------------

\* Until run returns the callback the scanner was started for stays set, unless
\* another call resets it; and by then the scanner has ended.
CallbackInv ==
  /\ RunTyped
  /\ run = "start" => scanner = "off"
  /\ piped => scanner # "off"
  /\ run = "returned" => scanner \notin {"read", "call", "drain"}
  /\ scanner \in {"read", "call"} /\ ~meddled => callback
  /\ PanicIsForeign

LEMMA CallbackInvHolds == Spec => []CallbackInv
<1>1. Init => CallbackInv
  BY DEF Init, CallbackInv, RunTyped, PanicIsForeign
<1>2. CallbackInv /\ [Next]_vars => CallbackInv'
  <2> SUFFICES ASSUME CallbackInv, [Next]_vars
               PROVE  CallbackInv'
    OBVIOUS
  <2> USE DEF CallbackInv, RunTyped, PanicIsForeign
  <2>1. CASE RunStep
    BY <2>1 DEF RunStep, Start_Ok, Start_Failed, Reap, CopyDone, WaitDelay, Join,
                MakePipe, scanning, environment
  <2>2. CASE ScannerStep
    BY <2>2 DEF ScannerStep, Scan, ScanTooLong, CallProgress, Panic, Drain,
                ScannerEOF, running, scanning, environment
  <2>3. CASE SetProgressFunc
    BY <2>3 DEF SetProgressFunc, scanning, running
  <2>4. CASE UNCHANGED <<callback, meddled, scanning, running>>
    BY <2>4 DEF scanning, running
  <2>5. QED
    BY <2>1, <2>2, <2>3, <2>4 DEF Next, ContextDone, WriteLine, Exit, HeirExit,
       Terminate, Kill, CopierStep, CopierRead, CopierEOF, vars, environment
<1>3. QED
  BY <1>1, <1>2, PTL DEF Spec

\* A scanner that panics was left without a callback by another call, never by
\* the reset that ends its own (PanicIsForeign): the callback is set from before
\* the scanner starts until run returns, and run returns after the scanner.
THEOREM PanicsAreForeign == Spec => []PanicIsForeign
<1>1. CallbackInv => PanicIsForeign
  BY DEF CallbackInv
<1>2. QED
  BY <1>1, CallbackInvHolds, PTL

-----------------------------------------------------------------------------

LEMMA KillInvHolds == Spec => []KillInv
<1>1. Init => KillInv
  BY DEF Init, KillInv, RunTyped
<1>2. KillInv /\ [Next]_vars => KillInv'
  <2> SUFFICES ASSUME KillInv, [Next]_vars
               PROVE  KillInv'
    OBVIOUS
  <2> USE DEF KillInv, RunTyped, Unreaped
  <2>1. CASE RunStep
    <3>1. CASE Start_Ok \/ Start_Failed
      BY <3>1 DEF Start_Ok, Start_Failed, environment
    <3>2. CASE Reap
      BY <3>2 DEF Reap, Dead, environment
    <3>3. CASE CopyDone \/ WaitDelay \/ Join
      BY <3>3 DEF CopyDone, WaitDelay, Join, environment
    <3>4. QED
      BY <2>1, <3>1, <3>2, <3>3 DEF RunStep
  <2>2. CASE Terminate
    BY <2>2 DEF Terminate, environment, running
  <2>3. CASE ContextDone
    BY <2>3 DEF ContextDone, running
  <2>4. CASE UNCHANGED <<ctxDone, running, killer>>
    BY <2>4 DEF running
  <2>5. QED
    BY <2>1, <2>2, <2>3, <2>4 DEF Next, SetProgressFunc, WriteLine, Exit, HeirExit, Kill,
       CopierStep, CopierRead, CopierEOF, ScannerStep, Scan, ScanTooLong,
       CallProgress, Panic, Drain, ScannerEOF, vars, environment
<1>3. QED
  BY <1>1, <1>2, PTL DEF Spec

\* A run whose process was sent SIGTERM reports it as killed (KillReported).
THEOREM KillIsReported == Spec => []KillReported
<1>1. KillInv => KillReported
  BY DEF KillInv, KillReported, Unreaped, Returned, Result
<1>2. QED
  BY <1>1, KillInvHolds, PTL

-----------------------------------------------------------------------------

LEMMA OutputInvHolds == Spec => []OutputInv
<1>1. Init => OutputInv
  BY DEF Init, OutputInv, RunTyped, Unreaped
<1>2. OutputInv /\ [Next]_vars => OutputInv'
  <2> SUFFICES ASSUME OutputInv, [Next]_vars
               PROVE  OutputInv'
    OBVIOUS
  <2> USE DEF OutputInv, RunTyped, Unreaped, Dead
  <2>1. CASE RunStep
    <3>1. CASE Start_Ok
      BY <3>1 DEF Start_Ok
    <3>2. CASE Start_Failed
      BY <3>2 DEF Start_Failed, process, copying
    <3>3. CASE Reap
      BY <3>3 DEF Reap, process, copying
    <3>4. CASE CopyDone \/ WaitDelay \/ Join
      BY <3>4 DEF CopyDone, WaitDelay, Join, process, copying
    <3>5. QED
      BY <2>1, <3>1, <3>2, <3>3, <3>4 DEF RunStep
  <2>2. CASE \E kind \in LineKinds : WriteLine(kind)
    BY <2>2 DEF WriteLine, copying, running
  <2>3. CASE Exit \/ HeirExit \/ Kill
    BY <2>3 DEF Exit, HeirExit, Kill, copying, running
  <2>4. CASE CopierStep
    BY <2>4 DEF CopierStep, CopierRead, CopierEOF, process, running
  <2>5. CASE ScannerStep
    BY <2>5 DEF ScannerStep, Scan, ScanTooLong, CallProgress, Panic, Drain,
                ScannerEOF, process, copying, running
  <2>6. CASE UNCHANGED <<process, copying, running>>
    BY <2>6 DEF process, copying, running
  <2>7. QED
    BY <2>1, <2>2, <2>3, <2>4, <2>5, <2>6 DEF Next, SetProgressFunc, ContextDone,
       Terminate, vars
<1>3. QED
  BY <1>1, <1>2, PTL DEF Spec

\* The output of a build that exited 0 is complete (OutputComplete).
THEOREM OutputIsComplete == Spec => []OutputComplete
<1>1. OutputInv => OutputComplete
  BY DEF OutputInv, OutputComplete, Returned, Result
<1>2. QED
  BY <1>1, OutputInvHolds, PTL

-----------------------------------------------------------------------------

\* The line the copier holds, and the one the scanner reports, were printed;
\* there is a scanner exactly when there is a pipe.
ProcessInv ==
  /\ TypeOK
  /\ copier = "pipe" => copied > 0
  /\ scanner = "call" => scanned > 0
  /\ scanner # "off" => piped
  /\ run = "start" => copier = "off" /\ scanner = "off" /\ copied = 0
  /\ run \in {"join", "returned"} => copier \in {"off", "done"}

LEMMA ProcessStep == ProcessInv /\ [Next]_vars => ProcessInv'
<1> SUFFICES ASSUME ProcessInv, [Next]_vars PROVE ProcessInv'
  OBVIOUS
<1> USE DEF ProcessInv, TypeOK
<1>1. CASE RunStep
  <2>1. CASE Start_Ok
    BY <2>1 DEF Start_Ok, MakePipe, environment
  <2>2. CASE Start_Failed
    BY <2>2 DEF Start_Failed, MakePipe, environment, process, copying, Errors
  <2>3. CASE Reap
    BY <2>3 DEF Reap, environment, process, copying, scanning, Errors
  <2>4. CASE CopyDone
    BY <2>4 DEF CopyDone, environment, process, copying, scanning, Errors
  <2>5. CASE WaitDelay
    BY <2>5 DEF WaitDelay, environment, process, scanning
  <2>6. CASE Join
    BY <2>6 DEF Join, environment, process, copying, scanning
  <2>7. QED
    BY <1>1, <2>1, <2>2, <2>3, <2>4, <2>5, <2>6 DEF RunStep
<1>2. ASSUME NEW kind \in LineKinds, WriteLine(kind) PROVE ProcessInv'
  <2>1. written' \in Seq(LineKinds) /\ Len(written') = Len(written) + 1
    BY <1>2 DEF WriteLine
  <2>2. QED
    BY <1>2, <2>1 DEF WriteLine, environment, copying, scanning, running
<1>3. CASE Exit \/ HeirExit \/ Kill
  <2>1. CASE Exit
    BY <2>1 DEF Exit, environment, copying, scanning, running
  <2>2. CASE HeirExit
    <3>1. heir' \in BOOLEAN
      BY <2>2 DEF HeirExit
    <3>2. UNCHANGED <<callback, ctxDone, proc, written, copied, captured, fdClosed, copier,
                      scanner, scanned, delivered, piped, run, err, killer, meddled>>
      BY <2>2 DEF HeirExit, environment, copying, scanning, running
    <3>3. QED
      BY <3>1, <3>2
  <2>3. CASE Kill
    BY <2>3 DEF Kill, environment, copying, scanning, running
  <2>4. QED
    BY <1>3, <2>1, <2>2, <2>3
<1>4. CASE CopierStep
  <2>1. CASE CopierRead
    BY <2>1 DEF CopierRead, environment, process, scanning, running
  <2>2. CASE CopierEOF
    BY <2>2 DEF CopierEOF, environment, process, scanning, running
  <2>3. QED
    BY <1>4, <2>1, <2>2 DEF CopierStep
<1>5. CASE ScannerStep
  <2>1. CASE Scan
    BY <2>1 DEF Scan, environment, process, running
  <2>2. CASE ScanTooLong
    BY <2>2 DEF ScanTooLong, environment, process, copying, running
  <2>3. CASE CallProgress
    BY <2>3 DEF CallProgress, environment, process, copying, running
  <2>4. CASE Panic \/ ScannerEOF
    BY <2>4 DEF Panic, ScannerEOF, environment, process, copying, running
  <2>5. CASE Drain
    BY <2>5 DEF Drain, environment, process, scanning, running
  <2>6. QED
    BY <1>5, <2>1, <2>2, <2>3, <2>4, <2>5 DEF ScannerStep
<1>6. CASE SetProgressFunc \/ ContextDone \/ Terminate
  <2>1. CASE SetProgressFunc
    BY <2>1 DEF SetProgressFunc, process, copying, scanning, running
  <2>2. CASE ContextDone
    BY <2>2 DEF ContextDone, process, copying, scanning, running
  <2>3. CASE Terminate
    BY <2>3 DEF Terminate, environment, process, copying, scanning, running
  <2>4. QED
    BY <1>6, <2>1, <2>2, <2>3
<1>7. CASE UNCHANGED vars
  BY <1>7 DEF vars, environment, process, copying, scanning, running
<1>8. QED
  BY <1>1, <1>2, <1>3, <1>4, <1>5, <1>6, <1>7 DEF Next

LEMMA ProcessInvHolds == Spec => []ProcessInv
<1>1. Init => ProcessInv
  <2> SUFFICES ASSUME Init PROVE ProcessInv
    OBVIOUS
  <2>1. written \in Seq(LineKinds) /\ Len(written) = 0
    BY DEF Init
  <2>2. /\ callback \in BOOLEAN /\ ctxDone \in BOOLEAN /\ piped \in BOOLEAN
        /\ meddled \in BOOLEAN
        /\ heir \in BOOLEAN /\ fdClosed \in BOOLEAN
    BY DEF Init
  <2>3. /\ copied \in 0..Len(written) /\ captured \in 0..copied /\ scanned \in 0..copied
        /\ delivered \subseteq 1..copied
    BY <2>1 DEF Init
  <2>4. /\ proc = "unborn" /\ copier = "off" /\ killer = "watch" /\ scanner = "off"
        /\ run = "start" /\ err = "nil" /\ copied = 0
    BY DEF Init
  <2>5. QED
    BY <2>1, <2>2, <2>3, <2>4 DEF ProcessInv, TypeOK, Errors
<1>2. QED
  BY <1>1, ProcessStep, PTL DEF Spec

\* The variables of a run keep their types: what was captured, scanned and
\* reported is never more than what was copied, nor that than what was printed.
THEOREM ProcessTypeCorrect == Spec => []TypeOK
<1>1. ProcessInv => TypeOK
  BY DEF ProcessInv
<1>2. QED
  BY <1>1, ProcessInvHolds, PTL

-----------------------------------------------------------------------------

\* Unless the scanner gave up, a final line that was copied has been reported,
\* or the copier still holds it, or the scanner is about to report it.
FinalInv ==
  scanner \in {"read", "call", "eof"} =>
    \A k \in 1..copied : written[k] = "final" =>
      \/ k \in delivered
      \/ copier = "pipe" /\ k = copied
      \/ scanner = "call" /\ k = scanned

LEMMA FinalStep == ProcessInv /\ FinalInv /\ [Next]_vars => FinalInv'
<1> SUFFICES ASSUME ProcessInv, FinalInv, [Next]_vars,
                    scanner' \in {"read", "call", "eof"},
                    NEW k \in 1..copied', written'[k] = "final"
             PROVE  \/ k \in delivered'
                    \/ copier' = "pipe" /\ k = copied'
                    \/ scanner' = "call" /\ k = scanned'
  BY DEF FinalInv
<1> USE DEF ProcessInv, TypeOK, FinalInv
<1>1. CASE RunStep
  BY <1>1 DEF RunStep, Start_Ok, Start_Failed, MakePipe, Reap, CopyDone,
              WaitDelay, Join, process, copying, scanning
<1>2. ASSUME NEW kind \in LineKinds, WriteLine(kind)
      PROVE  k \in 1..copied /\ written[k] = "final" /\ UNCHANGED <<copying, scanning>>
  BY <1>2 DEF WriteLine, copying
<1>3. CASE Exit \/ HeirExit \/ Kill
  BY <1>3 DEF Exit, HeirExit, Kill, copying, scanning
<1>4. CASE CopierStep
  BY <1>4 DEF CopierStep, CopierRead, CopierEOF, process, scanning, running
<1>5. CASE ScannerStep
  <2>1. CASE Scan
    BY <2>1 DEF Scan, Notified, process
  <2>2. CASE ScanTooLong \/ Panic \/ Drain
    BY <2>2 DEF ScanTooLong, Panic, Drain, process, copying, scanning
  <2>3. CASE CallProgress
    BY <2>3 DEF CallProgress, process, copying
  <2>4. CASE ScannerEOF
    BY <2>4 DEF ScannerEOF, process, copying
  <2>5. QED
    BY <1>5, <2>1, <2>2, <2>3, <2>4 DEF ScannerStep
<1>6. CASE UNCHANGED <<process, copying, scanning>>
  BY <1>6 DEF process, copying, scanning
<1>7. QED
  BY <1>1, <1>2, <1>3, <1>4, <1>5, <1>6 DEF Next, SetProgressFunc, ContextDone,
     Terminate, vars, copying, scanning

\* Every final [N/N] line that was printed has reached progressFunc when run
\* returns without an error and the scanner did not give up (scanProgress, its
\* throttle and the order in which run closes the pipe and waits).
THEOREM FinalIsDelivered == Spec => []FinalDelivered
<1>1. Init => FinalInv
  BY DEF Init, FinalInv
<1>2. ProcessInv /\ OutputInv /\ CallbackInv /\ FinalInv => FinalDelivered
  BY DEF ProcessInv, TypeOK, OutputInv, CallbackInv, FinalInv, FinalDelivered, Returned,
         Result
<1>3. QED
  BY <1>1, <1>2, ProcessInvHolds, OutputInvHolds, CallbackInvHolds, FinalStep, PTL DEF Spec
=============================================================================
