------------------------- MODULE StreamHandleProofs -------------------------
(***************************************************************************)
(* Theorems about the stream handle, for every set of threads and every    *)
(* number of starts.                                                       *)
(***************************************************************************)
EXTENDS StreamHandle, TLAPS

\* The flag worker_active_ is what the threads know of the workers.
FlagTellsWorkers ==
  /\ \A w \in Workers : Alive(w) => workerActive
  /\ \A w \in Workers : w > launches => worker[w] = "none"

\* Closing is final in the flag and in the machine.
ClosedIsFinal ==
  /\ closed => machine = "closed"
  /\ \A t \in Threads : call[t] = "closing" => closed
  /\ "waited" \in closeReturned => closed /\ ~workerActive

\* What a worker about to end leaves behind.
EndIsAccounted ==
  /\ stopEvent = "set" => stopRequested
  /\ \A w \in Workers :
       worker[w] \in {"exit", "lastReport"} /\ machine = "running" => stopRequested

IInv ==
  /\ TypeOK
  /\ OneWorker
  /\ FlagTellsWorkers
  /\ ClosedIsFinal
  /\ EndIsAccounted
  /\ NoSilentDeath

\* What a transition does, where it is legal and where it is ignored.
LEMMA TransitionFacts ==
  ASSUME machine \in DOMAIN CanTransition
  PROVE  /\ DOMAIN CanTransition = {"prepared", "running", "stopped", "faulted", "closed"}
         /\ After("stop") = IF machine = "running" THEN "stopped" ELSE machine
         /\ After("fault") = IF machine = "closed" THEN "closed" ELSE "faulted"
         /\ After("close") = "closed"
         /\ "start" \in CanTransition[machine] => machine \in {"prepared", "stopped"}
         /\ "reset" \in CanTransition[machine] => machine \in {"prepared", "stopped", "faulted"}
<1>1. DOMAIN CanTransition = {"prepared", "running", "stopped", "faulted", "closed"}
  BY DEF CanTransition
<1>2. CASE machine = "prepared"
  BY <1>1, <1>2 DEF After, CanTransition, NextState
<1>3. CASE machine = "running"
  BY <1>1, <1>3 DEF After, CanTransition, NextState
<1>4. CASE machine = "stopped"
  BY <1>1, <1>4 DEF After, CanTransition, NextState
<1>5. CASE machine = "faulted"
  BY <1>1, <1>5 DEF After, CanTransition, NextState
<1>6. CASE machine = "closed"
  BY <1>1, <1>6 DEF After, CanTransition, NextState
<1>7. QED BY <1>1, <1>2, <1>3, <1>4, <1>5, <1>6

\* The strengthened invariant holds initially.
LEMMA InitIInv == Init => IInv
<1> SUFFICES ASSUME Init
             PROVE  IInv
  OBVIOUS
<1>1. "prepared" \in DOMAIN CanTransition
  BY DEF CanTransition
<1>2. TypeOK
  <2>1. launches \in 0..MaxLaunches /\ late \in 0..MaxLate
    BY StreamAssumption DEF Init, MaxLate
  <2>2. QED BY <1>1, <2>1 DEF Init, TypeOK
<1>3. \A w \in Workers : worker[w] = "none"
  BY DEF Init
<1>4. \A t \in Threads : call[t] = "idle"
  BY DEF Init
<1>5. OneWorker /\ FlagTellsWorkers /\ EndIsAccounted
  BY <1>3 DEF Init, OneWorker, FlagTellsWorkers, EndIsAccounted, Alive
<1>6. ClosedIsFinal /\ NoSilentDeath
  BY <1>4 DEF Init, ClosedIsFinal, NoSilentDeath
<1>7. QED BY <1>2, <1>5, <1>6 DEF IInv

\* A start finds no worker alive, and launches the only one.
LEMMA StartKeeps ==
  ASSUME IInv, NEW t \in Threads, Start(t)
  PROVE  IInv'
<1> USE DEF IInv
<1>1. \A w \in Workers : ~Alive(w)
  BY DEF Start, MayStart, FlagTellsWorkers
<1>2. /\ launches + 1 \in Workers
      /\ worker' = [worker EXCEPT ![launches + 1] = "init"]
      /\ worker \in [Workers -> {"none", "init", "client", "loop", "tick", "packet", "callback",
                                  "fault", "lastFault", "report", "lastReport", "exit", "gone"}]
  BY StreamAssumption DEF Start, Go, TypeOK, Workers
<1>3. \A w \in Workers : Alive(w)' => w = launches + 1
  BY <1>1, <1>2 DEF Alive
<1>4. TypeOK'
  <2>1. launches' \in 0..MaxLaunches /\ late' \in 0..MaxLate
    BY StreamAssumption DEF Start, TypeOK, MaxLate
  <2>2. machine' \in DOMAIN CanTransition
    BY TransitionFacts DEF Start, TypeOK
  <2>3. worker' \in [Workers -> {"none", "init", "client", "loop", "tick", "packet", "callback",
                                 "fault", "lastFault", "report", "lastReport", "exit", "gone"}]
    BY <1>2
  <2>4. QED BY <2>1, <2>2, <2>3 DEF Start, Move, TypeOK
<1>5. OneWorker'
  BY <1>3 DEF OneWorker
<1>6. FlagTellsWorkers'
  <2>1. \A w \in Workers : w > launches' => worker'[w] = "none"
    BY <1>2 DEF Start, FlagTellsWorkers, TypeOK, Workers
  <2>2. QED BY <2>1 DEF Start, FlagTellsWorkers
<1>7. ClosedIsFinal'
  BY DEF Start, MayStart, Move, ClosedIsFinal, TypeOK
<1>8. EndIsAccounted'
  <2>1. \A w \in Workers : worker'[w] \notin {"exit", "lastReport"}
    BY <1>1, <1>2 DEF Alive
  <2>2. QED BY <2>1 DEF Start, EndIsAccounted
<1>9. NoSilentDeath'
  BY DEF Start, NoSilentDeath
<1>10. QED BY <1>4, <1>5, <1>6, <1>7, <1>8, <1>9

\* Every step of the loop that neither ends the worker nor touches its flags.
LEMMA StepKeeps ==
  ASSUME IInv, NEW w \in Workers, NEW place \in {"loop", "packet", "callback", "fault", "lastFault"},
         Step(w, place)
  PROVE  IInv'
<1>1. worker[w] \in {"tick", "packet", "callback"}
  BY DEF Step, Successors, IInv, TypeOK
<1>2. late' \in 0..MaxLate
  BY DEF Step, IInv, TypeOK, MaxLate
<1>3. QED
  BY <1>1, <1>2
  DEF IInv, TypeOK, OneWorker, FlagTellsWorkers, ClosedIsFinal, EndIsAccounted, NoSilentDeath,
      Alive, Step, Go, lifecycle, signals, launch

\* The strengthened invariant is kept by every step.
LEMMA NextIInv == IInv /\ [Next]_vars => IInv'
<1> SUFFICES ASSUME IInv, [Next]_vars
             PROVE  IInv'
  OBVIOUS
<1> USE DEF IInv, TypeOK, OneWorker, FlagTellsWorkers, ClosedIsFinal, EndIsAccounted,
            NoSilentDeath, Alive
<1>1. ASSUME NEW t \in Threads, LaunchFails(t) PROVE IInv'
  <2>1. machine' = "faulted" /\ machine' \in DOMAIN CanTransition
    BY <1>1, TransitionFacts DEF LaunchFails
  <2>2. /\ launches' \in 0..MaxLaunches
        /\ \A w \in Workers : w > launches' => w > launches
    BY <1>1, StreamAssumption DEF LaunchFails, Workers
  <2>3. \A w \in Workers : ~Alive(w)
    BY <1>1 DEF LaunchFails, MayStart
  <2>4. QED BY <1>1, <2>1, <2>2, <2>3 DEF LaunchFails, MayStart
<1>2. ASSUME NEW t \in Threads, Stop(t) PROVE IInv'
  BY <1>2, TransitionFacts DEF Stop, MayStop, RequestStop, Signal, Signalled, Move,
        launch
<1>3. ASSUME NEW t \in Threads, Reset(t) PROVE IInv'
  BY <1>3, TransitionFacts DEF Reset, MayStop, RequestStop, Signal, Signalled, Move,
        signals, launch
<1>4. ASSUME NEW t \in Threads, Close(t) PROVE IInv'
  BY <1>4, TransitionFacts DEF Close, Signal, Signalled, Move, launch
<1>5. ASSUME NEW t \in Threads, CloseAgain(t) PROVE IInv'
  BY <1>5 DEF CloseAgain, lifecycle, signals, launch
<1>6. ASSUME NEW t \in Threads, StartSucceeds(t) PROVE IInv'
  BY <1>6 DEF StartSucceeds, Move, signals, launch
<1>7. ASSUME NEW t \in Threads, StartFails(t) PROVE IInv'
  BY <1>7 DEF StartFails, Move, lifecycle, signals, launch
<1>8. ASSUME NEW t \in Threads, FailureReturns(t) PROVE IInv'
  BY <1>8 DEF FailureReturns, Move, lifecycle, signals, launch
<1>9. ASSUME NEW t \in Threads, StopReturns(t) PROVE IInv'
  BY <1>9 DEF StopReturns, Move, Stopped, signals, launch
<1>10. ASSUME NEW t \in Threads, ResetStopped(t) PROVE IInv'
  BY <1>10 DEF ResetStopped, Move, Stopped, signals, launch
<1>11. ASSUME NEW t \in Threads, ResetReturns(t) PROVE IInv'
  BY <1>11, TransitionFacts DEF ResetReturns, Move, signals, launch
<1>12. ASSUME NEW t \in Threads, CloseReturns(t) PROVE IInv'
  BY <1>12 DEF CloseReturns, Move, lifecycle, signals, launch
<1>13. ASSUME NEW w \in Workers, InitFails(w) PROVE IInv'
  BY <1>13, TransitionFacts DEF InitFails, Fault, Go, signals
<1>14. ASSUME NEW w \in Workers, CancelStartup(w) PROVE IInv'
  BY <1>14 DEF CancelStartup, Cancelled, Go, lifecycle, signals
<1>15. ASSUME NEW w \in Workers, Prepare(w) PROVE IInv'
  BY <1>15 DEF Prepare, Go, lifecycle, signals, launch
<1>16. ASSUME NEW w \in Workers, PublishStartup(w) PROVE IInv'
  BY <1>16 DEF PublishStartup, Cancelled, Go, signals
<1>17. ASSUME NEW w \in Workers, Halt(w) PROVE IInv'
  BY <1>17 DEF Halt, Go, lifecycle, signals, launch
<1>18. ASSUME NEW w \in Workers, RecordRuntimeError(w) PROVE IInv'
  BY <1>18, TransitionFacts DEF RecordRuntimeError, Fault, Go, signals, launch
<1>19. ASSUME NEW w \in Workers, ReportReturns(w) PROVE IInv'
  BY <1>19 DEF ReportReturns, Go, lifecycle, signals, launch
<1>20. ASSUME NEW w \in Workers, EmergencyFailure(w) PROVE IInv'
  BY <1>20, TransitionFacts DEF EmergencyFailure, Fault, Go, signals
<1>21. ASSUME NEW w \in Workers, Exit(w) PROVE IInv'
  BY <1>21 DEF Exit, Stopped, Go
<1>22. ASSUME NEW w \in Workers, Wake(w) PROVE IInv'
  BY <1>22 DEF Wake, Go, lifecycle, signals, launch
<1>23. ASSUME NEW w \in Workers, SelfStop(w) PROVE IInv'
  BY <1>23, TransitionFacts DEF SelfStop, InCallback, MayStop, RequestStop, Signal,
        Signalled, launch
<1>24. ASSUME NEW w \in Workers, SelfClose(w) PROVE IInv'
  BY <1>24 DEF SelfClose, InCallback, Signal, Signalled, lifecycle, launch
<1>25. CASE UNCHANGED vars
  BY <1>25 DEF vars, lifecycle, signals, launch
<1>26. QED
  BY <1>1, <1>2, <1>3, <1>4, <1>5, <1>6, <1>7, <1>8, <1>9, <1>10, <1>11, <1>12, <1>13,
        <1>14, <1>15, <1>16, <1>17, <1>18, <1>19, <1>20, <1>21, <1>22, <1>23, <1>24,
        <1>25, StartKeeps, StepKeeps
  DEF Next, Call, Return, Proceed

\* The strengthened invariant holds in every state of the stream handle.
THEOREM Invariance == Spec => []IInv
  BY InitIInv, NextIInv, PTL DEF Spec

\* Type correctness of the stream handle; the stop event lives as long as a worker.
THEOREM TypeCorrect == Spec => []TypeOK
<1>1. IInv => TypeOK BY DEF IInv
<1>2. QED BY <1>1, Invariance, PTL

\* However many threads start, stop and reset the stream, and however often:
\* two workers never run at once.
THEOREM WorkersAlone == Spec => []OneWorker
<1>1. IInv => OneWorker BY DEF IInv
<1>2. QED BY <1>1, Invariance, PTL

\* A close() that waited leaves no worker and no callback behind, for good.
THEOREM CloseSafe == Spec => []ClosedIsQuiet
<1>1. IInv => ClosedIsQuiet BY DEF IInv, ClosedIsFinal, FlagTellsWorkers, ClosedIsQuiet
<1>2. QED BY <1>1, Invariance, PTL

\* No failure ends a worker while the state machine goes on saying running.
THEOREM DeathIsHeard == Spec => []NoSilentDeath
<1>1. IInv => NoSilentDeath BY DEF IInv
<1>2. QED BY <1>1, Invariance, PTL

-----------------------------------------------------------------------------
(* How late a render callback may be.                                      *)

\* A worker that was asked to stop has its event set, and a render worker that
\* began a callback since then has left its waiting and its tick behind.
LateInv ==
  /\ stopRequested /\ workerActive => stopEvent = "set"
  /\ kind = "render" =>
       /\ late <= 1
       /\ \A w \in Workers : worker[w] # "packet"
       /\ late = 1 /\ workerActive =>
            stopRequested /\ \A w \in Workers : worker[w] \notin {"init", "client", "tick"}

\* Where a render worker's loop goes, and when it is counted as late.
LEMMA RenderSteps ==
  ASSUME kind = "render", NEW w \in Workers, NEW place, Step(w, place), IInv, LateInv
  PROVE  /\ place # "packet"
         /\ late' # late => worker[w] = "tick" /\ place = "callback" /\ stopRequested
                            /\ late = 0 /\ late' = 1
<1>1. worker[w] \in {"tick", "callback"} /\ place \in {"loop", "lastFault", "callback"}
      /\ (place = "callback" => worker[w] = "tick")
  BY DEF Step, Successors
<1>2. late' # late => place = "callback" /\ stopRequested /\ late' = late + 1
  BY DEF Step
<1>3. late \in {0, 1} /\ (worker[w] = "tick" => late = 0)
  BY DEF IInv, TypeOK, MaxLate, LateInv, FlagTellsWorkers, Alive
<1>4. QED BY <1>1, <1>2, <1>3

\* A worker that moves on without a callback keeps the bound, unless it goes back
\* to where a callback may begin although it was asked to stop.
LEMMA MoveKeepsLate ==
  ASSUME IInv, LateInv, NEW w \in Workers, NEW place, worker' = [worker EXCEPT ![w] = place],
         UNCHANGED <<kind, late, signals, workerActive>>,
         place # "packet", place \in {"init", "client", "tick"} => ~stopRequested
  PROVE  LateInv'
<1>1. \A v \in Workers : worker'[v] = IF v = w THEN place ELSE worker[v]
  BY DEF IInv, TypeOK
<1>2. QED BY <1>1 DEF LateInv, signals

\* No step lets a second callback begin after the stop.
LEMMA NextLateInv ==
  ASSUME IInv, LateInv, [Next]_vars
  PROVE  LateInv'
<1> USE DEF LateInv, Go, Move
<1>1. ASSUME NEW t \in Threads, Start(t) PROVE LateInv'
  <2>1. \A w \in Workers : ~Alive(w)
    BY <1>1 DEF Start, MayStart, IInv, FlagTellsWorkers
  <2>2. QED BY <1>1, <2>1 DEF Start, Alive, IInv, TypeOK
<1>2. ASSUME NEW t \in Threads, LaunchFails(t) PROVE LateInv'
  BY <1>2 DEF LaunchFails, MayStart
<1>3. ASSUME NEW t \in Threads, Stop(t) PROVE LateInv'
  BY <1>3 DEF Stop, RequestStop, Signal, Signalled, IInv, TypeOK, launch
<1>4. ASSUME NEW t \in Threads, Reset(t) PROVE LateInv'
  BY <1>4 DEF Reset, RequestStop, Signal, Signalled, IInv, TypeOK, signals, launch
<1>5. ASSUME NEW t \in Threads, Close(t) PROVE LateInv'
  BY <1>5 DEF Close, Signal, Signalled, IInv, TypeOK, launch
<1>6. ASSUME NEW t \in Threads, CloseAgain(t) PROVE LateInv'
  BY <1>6 DEF CloseAgain, signals, launch
<1>7. ASSUME NEW t \in Threads, Return(t) PROVE LateInv'
  BY <1>7 DEF Return, StartSucceeds, StartFails, FailureReturns, StopReturns, ResetStopped,
              ResetReturns, CloseReturns, signals, launch
<1>8. ASSUME NEW w \in Workers, InitFails(w) \/ CancelStartup(w) \/ EmergencyFailure(w)
      PROVE  LateInv'
  <2>1. worker' = [worker EXCEPT ![w] = "exit"] /\ UNCHANGED <<kind, late, signals, workerActive>>
    BY <1>8 DEF InitFails, CancelStartup, EmergencyFailure, lifecycle, signals
  <2>2. QED BY <2>1, MoveKeepsLate
<1>9. ASSUME NEW w \in Workers, Prepare(w) \/ PublishStartup(w) PROVE LateInv'
  <2>1. /\ \E place \in {"client", "loop"} : worker' = [worker EXCEPT ![w] = place]
        /\ UNCHANGED <<kind, late, signals, workerActive>> /\ ~stopRequested
    BY <1>9 DEF Prepare, PublishStartup, Cancelled, signals, launch
  <2>2. QED BY <2>1, MoveKeepsLate
<1>10. ASSUME NEW w \in Workers, Halt(w) \/ RecordRuntimeError(w) \/ ReportReturns(w)
       PROVE  LateInv'
  <2>1. /\ \E place \in {"exit", "loop", "report", "lastReport"} :
             worker' = [worker EXCEPT ![w] = place]
        /\ UNCHANGED <<kind, late, signals, workerActive>>
    BY <1>10 DEF Halt, RecordRuntimeError, ReportReturns, signals, launch
  <2>2. QED BY <2>1, MoveKeepsLate
<1>11. ASSUME NEW w \in Workers, NEW place \in {"loop", "packet", "callback", "fault", "lastFault"},
              Step(w, place)
       PROVE  LateInv'
  <2>1. /\ UNCHANGED <<kind, stopRequested, stopEvent, workerActive>>
        /\ worker' = [worker EXCEPT ![w] = place]
    BY <1>11 DEF Step, signals, launch
  <2>2. ASSUME kind = "render" PROVE LateInv'
    <3>1. CASE UNCHANGED late
      BY <1>11, <2>1, <2>2, <3>1, RenderSteps
    <3>2. CASE late' # late
      <4>1. worker[w] = "tick" /\ place = "callback" /\ stopRequested /\ late' = 1
        BY <1>11, <2>2, <3>2, RenderSteps
      <4>2. \A v \in Workers : Alive(v) => v = w
        BY <4>1 DEF IInv, OneWorker, Alive
      <4>3. \A v \in Workers : v # w => worker'[v] \in {"none", "gone"}
        BY <2>1, <4>2 DEF Alive, IInv, TypeOK
      <4>4. worker'[w] = "callback"
        BY <2>1, <4>1 DEF IInv, TypeOK
      <4>5. QED BY <2>1, <4>1, <4>3, <4>4
    <3>3. QED BY <3>1, <3>2
  <2>3. QED BY <2>1, <2>2
<1>12. ASSUME NEW w \in Workers, Exit(w) PROVE LateInv'
  BY <1>12 DEF Exit
<1>13. ASSUME NEW w \in Workers, Wake(w) PROVE LateInv'
  <2>1. workerActive /\ ~stopRequested
    BY <1>13 DEF Wake, IInv, FlagTellsWorkers, Alive
  <2>2. QED BY <1>13, <2>1 DEF Wake, signals, launch
<1>14. ASSUME NEW w \in Workers, SelfStop(w) PROVE LateInv'
  BY <1>14 DEF SelfStop, RequestStop, Signal, Signalled, IInv, TypeOK, launch
<1>15. ASSUME NEW w \in Workers, SelfClose(w) PROVE LateInv'
  BY <1>15 DEF SelfClose, Signal, Signalled, IInv, TypeOK, launch
<1>16. CASE UNCHANGED vars
  BY <1>16 DEF vars, signals, launch
<1>17. QED
  BY <1>1, <1>2, <1>3, <1>4, <1>5, <1>6, <1>7, <1>8, <1>9, <1>10, <1>11, <1>12, <1>13, <1>14,
     <1>15, <1>16
  DEF Next, Call, Proceed

\* stop() and close() are heard: at most one render callback begins after the
\* worker was asked to stop.
THEOREM LateOnce == Spec => []OneLateCallback
<1>1. Init => LateInv
  BY DEF Init, LateInv
<1>2. IInv /\ LateInv /\ [Next]_vars => LateInv'
  BY NextLateInv
<1>3. LateInv => OneLateCallback
  BY DEF LateInv, OneLateCallback
<1>4. QED BY Invariance, <1>1, <1>2, <1>3, PTL DEF Spec
=============================================================================
