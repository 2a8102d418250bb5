---------------------------- MODULE StreamHandle ----------------------------
(***************************************************************************)
(* The WASAPI stream handle: start, stop, reset and close called by any    *)
(* thread, the detached worker of every start, and the calls which the     *)
(* user's callback makes on its own stream.                                *)
(*                                                                         *)
(* A critical section of mutex_ is one action; a wait on a condition       *)
(* variable ends the action that begins it.  A call that is refused and    *)
(* changes nothing is not an action.  What the audio client does is a      *)
(* choice of outcomes.                                                     *)
(***************************************************************************)
EXTENDS Naturals

CONSTANTS
  Threads,     \* application threads
  MaxLaunches  \* bound: workers launched

ASSUME StreamAssumption == MaxLaunches \in Nat \ {0}

VARIABLES
  kind,          \* which handle: "render" or "capture"
  machine,       \* state_machine_
  status,        \* status_.state
  closed,        \* closed_
  workerActive,  \* worker_active_
  stopRequested, \* stop_requested_
  stopEvent,     \* stop_event_: none, or a manual-reset event clear or set
  startup,       \* startup_completed_ and startup_error_
  launches,      \* workers launched so far
  worker,        \* where each worker is
  call,          \* where each thread is in its call
  closeReturned, \* how the calls of close() that succeeded came to return
  late           \* callbacks begun since the current worker was asked to stop

lifecycle == <<machine, status, closed>>
signals == <<stopRequested, stopEvent>>
launch == <<workerActive, startup, launches>>
vars == <<kind, lifecycle, signals, launch, worker, call, closeReturned, late>>

Workers == 1..MaxLaunches

\* Bound: late callbacks are counted up to here.
MaxLate == 2

Init ==
  /\ kind \in {"render", "capture"}
  /\ machine = "prepared" /\ status = "prepared" /\ closed = FALSE
  /\ workerActive = FALSE /\ stopRequested = FALSE /\ stopEvent = "none"
  /\ startup = "pending"
  /\ launches = 0
  /\ worker = [w \in Workers |-> "none"]
  /\ call = [t \in Threads |-> "idle"]
  /\ closeReturned = {}
  /\ late = 0

-----------------------------------------------------------------------------
(* stream_state_machine.                                                   *)

CanTransition ==
  [prepared |-> {"start", "reset", "fault", "close"},
   running  |-> {"stop", "fault", "close"},
   stopped  |-> {"start", "reset", "fault", "close"},
   faulted  |-> {"reset", "close"},
   closed   |-> {}]

NextState ==
  [start |-> "running", stop |-> "stopped", reset |-> "prepared",
   fault |-> "faulted", close |-> "closed"]

\* The state after a transition that is ignored where it is illegal.
After(transition) ==
  IF transition \in CanTransition[machine] THEN NextState[transition] ELSE machine

Fault ==
  /\ machine' = After("fault")
  /\ status' = "faulted"

\* The end of a run leaves a fault or the end of the stream standing.
Stopped == IF closed \/ status = "faulted" THEN status ELSE "stopped"

Move(t, place) == call' = [call EXCEPT ![t] = place]
Go(w, place) == worker' = [worker EXCEPT ![w] = place]

-----------------------------------------------------------------------------
(* start().                                                                *)

\* Variant: a start does not look for the previous worker.
MayStartBesideWorker ==
  /\ ~closed
  /\ "start" \in CanTransition[machine]

MayStart ==
  /\ ~closed
  /\ ~workerActive
  /\ "start" \in CanTransition[machine]

Start(t) ==
  /\ call[t] = "idle" /\ launches < MaxLaunches
  /\ MayStart
  /\ machine' = "running"
  /\ launches' = launches + 1
  /\ stopEvent' = "clear" /\ stopRequested' = FALSE
  /\ startup' = "pending"
  /\ workerActive' = TRUE
  /\ Go(launches + 1, "init")
  /\ late' = 0
  /\ Move(t, "starting")
  /\ UNCHANGED <<kind, status, closed, closeReturned>>

\* No event, or no thread: the second after the flags were reset.
LaunchFails(t) ==
  /\ call[t] = "idle" /\ launches < MaxLaunches
  /\ MayStart
  /\ machine' = "faulted" /\ status' = "faulted"
  /\ launches' = launches + 1
  /\ stopEvent' = "none"
  /\ \/ UNCHANGED <<stopRequested, startup>>
     \/ stopRequested' = FALSE /\ startup' = "pending"
  /\ UNCHANGED <<kind, closed, workerActive, worker, call, closeReturned, late>>

StartSucceeds(t) ==
  /\ call[t] = "starting" /\ startup = "ok"
  /\ status' = "running"
  /\ Move(t, "idle")
  /\ UNCHANGED <<kind, machine, closed, signals, launch, worker, closeReturned, late>>

StartFails(t) ==
  /\ call[t] = "starting" /\ startup = "failed"
  /\ Move(t, "failing")
  /\ UNCHANGED <<kind, lifecycle, signals, launch, worker, closeReturned, late>>

FailureReturns(t) ==
  /\ call[t] = "failing" /\ ~workerActive
  /\ Move(t, "idle")
  /\ UNCHANGED <<kind, lifecycle, signals, launch, worker, closeReturned, late>>

-----------------------------------------------------------------------------
(* stop(), reset() and close() from application threads.                   *)

Signalled == IF stopEvent = "none" THEN "none" ELSE "set"

\* Variant: only the flag is raised, which a running worker does not read.
SignalFlagOnly ==
  /\ stopRequested' = TRUE
  /\ UNCHANGED stopEvent

Signal ==
  /\ stopRequested' = TRUE
  /\ stopEvent' = Signalled

MayStop == ~closed /\ (workerActive \/ status = "faulted")

RequestStop ==
  /\ machine' = After("stop")
  /\ Signal

Stop(t) ==
  /\ call[t] = "idle"
  /\ MayStop /\ RequestStop
  /\ Move(t, IF workerActive THEN "stopping" ELSE "idle")
  /\ UNCHANGED <<kind, status, closed, launch, worker, closeReturned, late>>

StopReturns(t) ==
  /\ call[t] = "stopping" /\ ~workerActive
  /\ status' = Stopped
  /\ Move(t, "idle")
  /\ UNCHANGED <<kind, machine, closed, signals, launch, worker, closeReturned, late>>

\* reset() calls stop(), and goes on where that refuses.
Reset(t) ==
  /\ call[t] = "idle"
  /\ \/ /\ MayStop /\ RequestStop
        /\ Move(t, IF workerActive THEN "resetStopping" ELSE "resetting")
     \/ /\ ~MayStop
        /\ Move(t, "resetting")
        /\ UNCHANGED <<machine, signals>>
  /\ UNCHANGED <<kind, status, closed, launch, worker, closeReturned, late>>

ResetStopped(t) ==
  /\ call[t] = "resetStopping" /\ ~workerActive
  /\ status' = Stopped
  /\ Move(t, "resetting")
  /\ UNCHANGED <<kind, machine, closed, signals, launch, worker, closeReturned, late>>

ResetReturns(t) ==
  /\ call[t] = "resetting"
  /\ IF ~closed /\ "reset" \in CanTransition[machine]
     THEN machine' = "prepared" /\ status' = "prepared"
     ELSE UNCHANGED <<machine, status>>
  /\ Move(t, "idle")
  /\ UNCHANGED <<kind, closed, signals, launch, worker, closeReturned, late>>

Close(t) ==
  /\ call[t] = "idle" /\ ~closed
  /\ Signal
  /\ closed' = TRUE
  /\ machine' = After("close") /\ status' = "closed"
  /\ Move(t, "closing")
  /\ UNCHANGED <<kind, launch, worker, closeReturned, late>>

\* Variant: close() does not wait for the worker.
CloseWithoutWait(t) ==
  /\ call[t] = "closing"
  /\ closeReturned' = closeReturned \cup {"waited"}
  /\ Move(t, "idle")
  /\ UNCHANGED <<kind, lifecycle, signals, launch, worker, late>>

CloseReturns(t) ==
  /\ call[t] = "closing" /\ ~workerActive
  /\ closeReturned' = closeReturned \cup {"waited"}
  /\ Move(t, "idle")
  /\ UNCHANGED <<kind, lifecycle, signals, launch, worker, late>>

CloseAgain(t) ==
  /\ call[t] = "idle" /\ closed
  /\ closeReturned' = closeReturned \cup {"already"}
  /\ UNCHANGED <<kind, lifecycle, signals, launch, worker, call, late>>

-----------------------------------------------------------------------------
(* The worker: startup.                                                    *)

\* Variant: a startup that fails is reported to start() only.
InitFailsSilently(w) ==
  /\ worker[w] \in {"init", "client"}
  /\ startup' = "failed"
  /\ Go(w, "exit")
  /\ UNCHANGED <<kind, lifecycle, signals, workerActive, launches, call, closeReturned, late>>

InitFails(w) ==
  /\ worker[w] \in {"init", "client"}
  /\ startup' = "failed"
  /\ IF ~closed /\ machine = "running" THEN Fault ELSE UNCHANGED <<machine, status>>
  /\ Go(w, "exit")
  /\ UNCHANGED <<kind, closed, signals, workerActive, launches, call, closeReturned, late>>

Cancelled == stopRequested \/ closed

CancelStartup(w) ==
  /\ worker[w] \in {"init", "client"} /\ Cancelled
  /\ startup' = "failed"
  /\ Go(w, "exit")
  /\ UNCHANGED <<kind, lifecycle, signals, workerActive, launches, call, closeReturned, late>>

Prepare(w) ==
  /\ worker[w] = "init" /\ ~Cancelled
  /\ Go(w, "client")
  /\ UNCHANGED <<kind, lifecycle, signals, launch, call, closeReturned, late>>

\* Variant: the startup that succeeded is not announced to start().
PublishStartupUnannounced(w) ==
  /\ worker[w] = "client" /\ ~Cancelled
  /\ status' = "running"
  /\ Go(w, "loop")
  /\ UNCHANGED <<kind, machine, closed, signals, launch, call, closeReturned, late>>

PublishStartup(w) ==
  /\ worker[w] = "client" /\ ~Cancelled
  /\ status' = "running"
  /\ startup' = "ok"
  /\ Go(w, "loop")
  /\ UNCHANGED <<kind, machine, closed, signals, workerActive, launches, call,
                 closeReturned, late>>

-----------------------------------------------------------------------------
(* The worker: the loop.                                                   *)

\* Variant: the audio event is the first of the handles waited for.
WakeForAudioFirst(w) ==
  /\ worker[w] = "loop"
  /\ \E place \in {"tick", "lastFault"} : Go(w, place)
  /\ UNCHANGED <<kind, lifecycle, signals, launch, call, closeReturned, late>>

\* WaitForMultipleObjects answers with the stop event if both are set.
Wake(w) ==
  /\ worker[w] = "loop"
  /\ stopEvent # "set"
  /\ \E place \in {"tick", "lastFault"} : Go(w, place)
  /\ UNCHANGED <<kind, lifecycle, signals, launch, call, closeReturned, late>>

Halt(w) ==
  /\ worker[w] = "loop" /\ stopEvent = "set"
  /\ Go(w, "exit")
  /\ UNCHANGED <<kind, lifecycle, signals, launch, call, closeReturned, late>>

\* Where the worker may be next.  A render worker leaves its loop at the first
\* error; a capture worker that failed inside its packet loop only leaves that.
Successors ==
  [render |->
     [tick     |-> {"loop", "lastFault", "callback"},
      callback |-> {"loop", "lastFault"}],
   capture |->
     [tick     |-> {"loop", "lastFault", "packet"},
      packet   |-> {"callback", "fault"},
      callback |-> {"packet", "loop", "fault"}]]

Step(w, place) ==
  /\ worker[w] \in DOMAIN Successors[kind]
  /\ place \in Successors[kind][worker[w]]
  /\ Go(w, place)
  /\ late' = IF place = "callback" /\ stopRequested /\ late < MaxLate THEN late + 1 ELSE late
  /\ UNCHANGED <<kind, lifecycle, signals, launch, call, closeReturned>>

RecordRuntimeError(w) ==
  /\ worker[w] \in {"fault", "lastFault"}
  /\ IF closed
     THEN /\ Go(w, IF worker[w] = "fault" THEN "loop" ELSE "exit")
          /\ UNCHANGED <<machine, status>>
     ELSE /\ Go(w, IF worker[w] = "fault" THEN "report" ELSE "lastReport")
          /\ Fault
  /\ UNCHANGED <<kind, closed, signals, launch, call, closeReturned, late>>

\* on_stream_error returns.
ReportReturns(w) ==
  /\ worker[w] \in {"report", "lastReport"}
  /\ Go(w, IF worker[w] = "report" THEN "loop" ELSE "exit")
  /\ UNCHANGED <<kind, lifecycle, signals, launch, call, closeReturned, late>>

\* Not even the error could be allocated: startup completes without one.
EmergencyFailure(w) ==
  /\ worker[w] \in {"init", "lastFault"}
  /\ IF closed THEN UNCHANGED <<machine, status>> ELSE Fault
  /\ startup' = IF startup = "pending" THEN "ok" ELSE startup
  /\ Go(w, "exit")
  /\ UNCHANGED <<kind, closed, signals, workerActive, launches, call, closeReturned, late>>

\* Variant: the stop event outlives its worker.
ExitKeepingEvent(w) ==
  /\ worker[w] = "exit"
  /\ startup' = IF startup = "pending" THEN "failed" ELSE startup
  /\ workerActive' = FALSE
  /\ status' = Stopped
  /\ Go(w, "gone")
  /\ UNCHANGED <<kind, machine, closed, signals, launches, call, closeReturned, late>>

\* The tail of worker_entry.
Exit(w) ==
  /\ worker[w] = "exit"
  /\ startup' = IF startup = "pending" THEN "failed" ELSE startup
  /\ workerActive' = FALSE /\ stopEvent' = "none"
  /\ status' = Stopped
  /\ Go(w, "gone")
  /\ UNCHANGED <<kind, machine, closed, stopRequested, launches, call, closeReturned, late>>

-----------------------------------------------------------------------------
(* Calls the user's callback makes on the stream it is called by: they     *)
(* only ask for the stop, and fail.                                        *)

InCallback(w) == worker[w] \in {"callback", "report", "lastReport"}

SelfStop(w) ==
  /\ InCallback(w)
  /\ MayStop /\ RequestStop
  /\ UNCHANGED <<kind, status, closed, launch, worker, call, closeReturned, late>>

SelfClose(w) ==
  /\ InCallback(w)
  /\ ~closed
  /\ Signal
  /\ UNCHANGED <<kind, lifecycle, launch, worker, call, closeReturned, late>>

-----------------------------------------------------------------------------

Call(t) ==
  \/ Start(t) \/ LaunchFails(t)
  \/ Stop(t)
  \/ Reset(t)
  \/ Close(t) \/ CloseAgain(t)

Return(t) ==
  \/ StartSucceeds(t) \/ StartFails(t) \/ FailureReturns(t)
  \/ StopReturns(t)
  \/ ResetStopped(t) \/ ResetReturns(t)
  \/ CloseReturns(t)

\* Every step of a worker but the arrival of audio.
Proceed(w) ==
  \/ InitFails(w) \/ CancelStartup(w) \/ Prepare(w) \/ PublishStartup(w)
  \/ Halt(w)
  \/ \E place \in {"loop", "packet", "callback", "fault", "lastFault"} : Step(w, place)
  \/ RecordRuntimeError(w) \/ ReportReturns(w)
  \/ EmergencyFailure(w)
  \/ Exit(w)

Next ==
  \/ \E t \in Threads : Call(t) \/ Return(t)
  \/ \E w \in Workers : Proceed(w) \/ Wake(w) \/ SelfStop(w) \/ SelfClose(w)

Spec == Init /\ [][Next]_vars

\* Threads waiting are woken, callbacks return, and a capture worker sooner or
\* later finds no further packet.
Fairness ==
  /\ \A t \in Threads : WF_vars(Return(t))
  /\ \A w \in Workers : WF_vars(Proceed(w)) /\ SF_vars(Step(w, "loop"))

FairSpec == Spec /\ Fairness

-----------------------------------------------------------------------------
(* Properties.                                                             *)

\* Every variable keeps to its type, the members of wasapi_stream_handle_base,
\* and the stop event exists exactly as long as there is a worker to hear it.
TypeOK ==
  /\ kind \in {"render", "capture"}
  /\ machine \in DOMAIN CanTransition
  /\ status \in {"prepared", "running", "stopped", "faulted", "closed"}
  /\ closed \in BOOLEAN /\ workerActive \in BOOLEAN /\ stopRequested \in BOOLEAN
  /\ stopEvent \in {"none", "clear", "set"}
  /\ startup \in {"pending", "ok", "failed"}
  /\ launches \in 0..MaxLaunches
  /\ worker \in [Workers -> {"none", "init", "client", "loop", "tick", "packet", "callback",
                             "fault", "lastFault", "report", "lastReport", "exit", "gone"}]
  /\ call \in [Threads -> {"idle", "starting", "failing", "stopping", "resetStopping",
                           "resetting", "closing"}]
  /\ closeReturned \subseteq {"waited", "already"}
  /\ late \in 0..MaxLate
  /\ stopEvent = "none" <=> ~workerActive

Alive(w) == worker[w] \notin {"none", "gone"}

\* Two workers never run at once, however stop, reset, start and the end of
\* a worker interleave: they would share the callback and the stop event.
OneWorker == \A v, w \in Workers : Alive(v) /\ Alive(w) => v = w

\* Once a close() that waited has returned, no worker is left and the user's
\* callback is not running: it may be destroyed.
ClosedIsQuiet == "waited" \in closeReturned => \A w \in Workers : ~Alive(w)

\* A machine left at running without a worker was asked to stop by a callback:
\* no failure ends a worker without the machine hearing of it.
NoSilentDeath == machine = "running" /\ ~workerActive => stopRequested

\* A render callback begins at most once after its worker was asked to stop.
OneLateCallback == kind = "render" => late <= 1

\* Whoever calls close() to close the stream is answered.
CloseTerminates == \A t \in Threads : call[t] = "closing" ~> call[t] = "idle"

WaitsForEnd(t) ==
  /\ call[t] \in {"stopping", "resetStopping", "failing"}
  /\ stopRequested \/ startup = "failed"

\* Who waits for a worker that was asked to stop, or that failed to start, is
\* answered, unless another start comes first: then stop(), reset() and the
\* start() that failed wait on, for a worker that nobody asked to stop.
WaitTerminates ==
  \A t \in Threads, n \in 1..MaxLaunches :
    WaitsForEnd(t) /\ launches = n ~> ~WaitsForEnd(t) \/ launches > n

WaitsForStartup(t) == call[t] = "starting" /\ (workerActive \/ startup # "pending")

\* start() learns of the end of the startup, unless another start comes first:
\* one that could not launch its worker leaves it waiting for none.
StartupEnds ==
  \A t \in Threads, n \in 1..MaxLaunches :
    WaitsForStartup(t) /\ launches = n ~> ~WaitsForStartup(t) \/ launches > n
=============================================================================
