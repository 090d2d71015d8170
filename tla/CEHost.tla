------------------------------- MODULE CEHost -------------------------------
(***************************************************************************)
(* The host model of the iOS application around one runtime: programs are   *)
(* launched, stopped and paused by the user, a timer queues ticks, a tick   *)
(* runs a slice of the guest, and iOS may kill the application at any       *)
(* moment.  Everything of CERuntimeModel runs on the main actor, one call   *)
(* after the other, but a call may be cut off between two of its steps by a *)
(* kill, and a tick that is queued is not taken back when its timer ends.   *)
(*                                                                          *)
(* The runtime is CERegistry's: it exists while process is not "none".  The *)
(* programs launched share one working directory, hence one registry file.  *)
(* restart() launches the program launched last, so it is Launch as well,   *)
(* and the end of the application object does what stop() does.             *)
(***************************************************************************)
EXTENDS CERegistry

CONSTANT MaxTicks   \* bound on the ticks queued at a time

ASSUME MaxTicksAssumption == MaxTicks \in Nat \ {0}

VARIABLES call,      \* what runs on the main actor
          timer,     \* a scheduled timer exists
          ticks,     \* ticks that are queued on the main actor
          running,   \* published
          paused,    \* published
          state,     \* runtime->state, or "NONE" without a runtime
          before,    \* history: the table of the runtime when stop() was last called
          kept       \* history: the next runtime has to have that table

hostVars == <<call, timer, ticks, running, paused, state>>
allVars == <<vars, hostVars, before, kept>>

\* "launch" is stop() at the start of launch(), "create" what follows it, "load" is
\* CERuntimeLoadExecutable, which runs the entry points of DLLs.
Calls == {"none", "stop", "launch", "create", "load", "slice"}

HostInit ==
  /\ Init
  /\ call = "none" /\ timer = FALSE /\ ticks = 0
  /\ running = FALSE /\ paused = FALSE
  /\ state = "NONE"
  /\ before = <<>> /\ kept = FALSE
-----------------------------------------------------------------------------
\* The table that the next runtime has to find.
Remember ==
  /\ before' = IF process = "running" THEN registry ELSE before
  /\ kept' = (kept \/ process = "running")

\* Nothing is asked of the next runtime: what was written is lost, or was found.
Forget == before' = <<>> /\ kept' = FALSE

\* Faulty variant of Launch: the runtime of the program before is dropped instead of
\* stopped.
LaunchOver ==
  /\ call = "none"
  /\ call' = "create"
  /\ process' = "none"
  /\ Remember
  /\ UNCHANGED <<registry, file, flushed, saved, timer, ticks, running, paused, state>>

\* Faulty variant of StopCalled: the timer goes on.
StopKeepsTimer(as) ==
  /\ call = "none"
  /\ call' = as
  /\ Remember
  /\ UNCHANGED <<vars, timer, ticks, running, paused, state>>

\* stop() on its own or at the start of launch(): the timer is invalidated first.
StopCalled(as) ==
  /\ call = "none"
  /\ call' = as
  /\ timer' = FALSE
  /\ Remember
  /\ UNCHANGED <<vars, ticks, running, paused, state>>

Stop == StopCalled("stop")

Launch == StopCalled("launch")

\* CERuntimeDestroy inside stop(): the flush, step by step.  A file that cannot be
\* opened, or a write that fails, is ignored and ends it.
Destroy ==
  /\ call \in {"stop", "launch"}
  /\ FlushOpens \/ FlushWrites \/ FlushCloses \/ CERuntimeDestroyed
  /\ IF process = "running" /\ process' = "none" THEN Forget ELSE UNCHANGED <<before, kept>>
  /\ UNCHANGED hostVars

FlushFails ==
  /\ call \in {"stop", "launch"}
  /\ process = "flushing" /\ Killed
  /\ Forget
  /\ UNCHANGED hostVars

\* The rest of stop(), with no runtime from the start or any more.
Stopped ==
  /\ call \in {"stop", "launch"}
  /\ process = "none"
  /\ call' = IF call = "stop" THEN "none" ELSE "create"
  /\ running' = FALSE /\ paused' = FALSE
  /\ state' = "NONE"
  /\ UNCHANGED <<vars, timer, ticks, before, kept>>

\* The program cannot be read, or CERuntimeCreate has no memory.
LaunchFails ==
  /\ call = "create"
  /\ call' = "none"
  /\ UNCHANGED <<vars, timer, ticks, running, paused, state, before, kept>>

\* CERuntimeCreate, which reads the registry.
Create ==
  /\ call = "create"
  /\ CEKernelInit
  /\ call' = "load"
  /\ state' = "IDLE"
  /\ Forget
  /\ UNCHANGED <<timer, ticks, running, paused>>

\* Faulty variant of Loaded: no new timer is scheduled.
LoadedWithoutTimer ==
  /\ call = "load"
  /\ call' = "none"
  /\ state' = "LOADED"
  /\ running' = TRUE /\ paused' = FALSE
  /\ UNCHANGED <<vars, timer, ticks, before, kept>>

Loaded ==
  /\ call = "load"
  /\ call' = "none"
  /\ state' = "LOADED"
  /\ running' = TRUE /\ paused' = FALSE
  /\ timer' = TRUE
  /\ UNCHANGED <<vars, ticks, before, kept>>

\* CERuntimeLoadExecutable fails; without memory for the stack the state stays.  The
\* runtime is kept.
LoadFails ==
  /\ call = "load"
  /\ call' = "none"
  /\ state' \in {"IDLE", "FAULTED"}
  /\ UNCHANGED <<vars, timer, ticks, running, paused, before, kept>>

\* The timer queues a tick as a task of its own.
TimerFires ==
  /\ call = "none" /\ timer
  /\ ticks < MaxTicks
  /\ ticks' = ticks + 1
  /\ UNCHANGED <<vars, call, timer, running, paused, state, before, kept>>

\* Faulty variant of Runnable: CERuntimeRunSlice does not look at the state.
RunnableAlways == TRUE

\* The states in which CERuntimeRunSlice runs the guest; in the others it returns.
Runnable == state \in {"LOADED", "RUNNING"}

\* tick(): a slice of the guest, unless there is no runtime or it is paused.  The
\* tick may be one of an earlier launch.
Tick ==
  /\ call = "none" /\ ticks > 0
  /\ ticks' = ticks - 1
  /\ LET slice == process = "running" /\ ~paused /\ Runnable IN
     /\ call' = IF slice THEN "slice" ELSE "none"
     /\ state' = IF slice THEN "RUNNING" ELSE state
  /\ UNCHANGED <<vars, timer, running, paused, before, kept>>

\* The instructions of the slice are used up, or the guest has ended or faulted.
SliceEnds ==
  /\ call = "slice"
  /\ call' = "none"
  /\ state' \in {"RUNNING", "EXITED", "FAULTED"}
  /\ UNCHANGED <<vars, timer, ticks, running, paused, before, kept>>

\* The registry calls of guest code, in a slice or in the entry point of a DLL.
GuestCall ==
  /\ call \in {"slice", "load"}
  /\ \/ \E key \in Keys, name \in Names, kind \in Kinds, data \in Data :
           RegSetValue(key, name, kind, data)
     \/ \E key \in Keys, name \in Names, kind \in Kinds : RegSetValueUnreadable(key, name, kind)
     \/ \E key \in Keys, name \in Names : RegDeleteValue(key, name)
  /\ UNCHANGED <<hostVars, before, kept>>

TogglePause ==
  /\ call = "none" /\ process = "running"
  /\ paused' = ~paused
  /\ UNCHANGED <<vars, call, timer, ticks, running, state, before, kept>>

\* The application is killed and started again; only the file is left.
KilledByHost ==
  /\ \/ Killed
     \/ process = "none" /\ UNCHANGED vars
  /\ call' = "none" /\ timer' = FALSE /\ ticks' = 0
  /\ running' = FALSE /\ paused' = FALSE
  /\ state' = "NONE"
  /\ IF process = "none" THEN UNCHANGED <<before, kept>> ELSE Forget

HostNext ==
  \/ Stop \/ Launch \/ Destroy \/ FlushFails \/ Stopped
  \/ LaunchFails \/ Create \/ Loaded \/ LoadFails
  \/ TimerFires \/ Tick \/ SliceEnds \/ GuestCall
  \/ TogglePause \/ KilledByHost

\* The run loop fires the timer and the main actor runs what is queued and goes on
\* with the call it is in.  Nothing is assumed of the user, of iOS or of the guest.
HostFairness ==
  /\ WF_allVars(TimerFires)
  /\ WF_allVars(Tick)
  /\ WF_allVars(Destroy)
  /\ WF_allVars(Stopped)

HostSpec == HostInit /\ [][HostNext]_allVars /\ HostFairness
-----------------------------------------------------------------------------
States == {"NONE", "IDLE", "LOADED", "RUNNING", "EXITED", "FAULTED"}

\* The model's published state agrees with the runtime: between two calls a runtime
\* exists exactly when it has a state, and a timer exists exactly while the model says
\* that it runs.
HostTypeOK ==
  /\ TypeOK
  /\ call \in Calls /\ ticks \in 0 .. MaxTicks
  /\ {timer, running, paused, kept} \subseteq BOOLEAN
  /\ state \in States
  /\ before \in Seq(Value)
  /\ call = "none" => (process = "running" <=> state # "NONE") /\ timer = running

\* Guest code of the program runs only in the slices of a runtime that was loaded, is
\* shown as running and is not paused, although ticks of an earlier launch are still
\* queued when a later one fails and leaves its runtime behind (27-29, 40-42 and
\* CERuntimeRunSlice 292).
SlicesOnlyWhileRunning ==
  call = "slice" => running /\ ~paused /\ timer /\ process = "running"

\* launch() stops the runtime before it creates the next one, so a relaunched program
\* finds the registry as it left it, unless the process died or the file could not be
\* written in between (14-18, 31-35, CERuntimeDestroy 263, CEKernelInit).
RelaunchKeepsRegistry ==
  [][Create => (kept => registry' = before)]_allVars

\* Waiting for a slice: loaded, not ended, not paused.
Waiting == call = "none" /\ running /\ ~paused /\ Runnable

\* A program that runs and is not paused gets its next slice (26-29, 40-42).
SliceComes == Waiting ~> (call = "slice" \/ paused \/ ~running)
=============================================================================
