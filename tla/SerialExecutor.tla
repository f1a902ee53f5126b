--------------------------- MODULE SerialExecutor ---------------------------
(***************************************************************************)
(* What an OperationQueue promises the sessions built on it: operations    *)
(* run one at a time, in the order they were added; the main() of one is   *)
(* over, and its callback made or dropped, before the next begins; an      *)
(* operation cancelled before it begins does not run (unless it asked to), *)
(* and one cancelled before its callback gets none.  A worker exists while *)
(* there is work, and is let go, in three steps, when there is none.  How  *)
(* threads, semaphores and the main thread's run loop achieve this is the  *)
(* business of OperationQueue, which implements this specification.        *)
(***************************************************************************)
EXTENDS Integers, Sequences

CONSTANTS Operations, RunWhenCancelled

VARIABLES
  waiting,    \* the operations added and not finished, oldest first
  phase,      \* how far each operation has come
  cancelled,  \* operations that were cancelled
  worker      \* the worker's life

vars == <<waiting, phase, cancelled, worker>>

Phases == {"new", "waiting", "running", "finished", "called", "dropped"}

TypeOK ==
  /\ waiting \in Seq(Operations)
  /\ phase \in [Operations -> Phases]
  /\ cancelled \subseteq Operations
  /\ worker \in {"none", "started", "quitting", "stopping"}

Init ==
  /\ waiting = <<>>
  /\ phase = [o \in Operations |-> "new"]
  /\ cancelled = {}
  /\ worker = "none"

Move(o, from, to) ==
  /\ phase[o] = from
  /\ phase' = [phase EXCEPT ![o] = to]

Idle == \A o \in Operations : phase[o] \notin {"running", "finished"}

\* Nothing begins while an operation runs or awaits its callback.
AtHead(o) ==
  /\ worker \in {"started", "quitting"}
  /\ Idle
  /\ waiting # <<>>
  /\ o = Head(waiting)

Add(o) ==
  /\ Move(o, "new", "waiting")
  /\ waiting' = Append(waiting, o)
  /\ worker' = IF worker = "none" THEN "started" ELSE worker
  /\ UNCHANGED cancelled

Cancel(S) ==
  /\ cancelled' = cancelled \cup S
  /\ UNCHANGED <<waiting, phase, worker>>

Begin(o) ==
  /\ AtHead(o)
  /\ o \notin cancelled \/ o \in RunWhenCancelled
  /\ Move(o, "waiting", "running")
  /\ UNCHANGED <<waiting, cancelled, worker>>

Finish(o) ==
  /\ Move(o, "running", "finished")
  /\ waiting' = Tail(waiting)
  /\ UNCHANGED <<cancelled, worker>>

Skip(o) ==
  /\ AtHead(o)
  /\ o \in cancelled \ RunWhenCancelled
  /\ Move(o, "waiting", "dropped")
  /\ waiting' = Tail(waiting)
  /\ UNCHANGED <<cancelled, worker>>

Call(o) ==
  /\ o \notin cancelled
  /\ Move(o, "finished", "called")
  /\ UNCHANGED <<waiting, cancelled, worker>>

Drop(o) ==
  /\ o \in cancelled
  /\ Move(o, "finished", "dropped")
  /\ UNCHANGED <<waiting, cancelled, worker>>

\* With nothing waiting the worker is told to quit ...
Quit ==
  /\ worker = "started" /\ waiting = <<>>
  /\ worker' = "quitting"
  /\ UNCHANGED <<waiting, phase, cancelled>>

\* ... decides to, if there still is nothing to do ...
Stop ==
  /\ worker = "quitting" /\ waiting = <<>> /\ Idle
  /\ worker' = "stopping"
  /\ UNCHANGED <<waiting, phase, cancelled>>

\* ... and is gone, replaced at once if something was added meanwhile.
Stopped ==
  /\ worker = "stopping"
  /\ worker' = IF waiting = <<>> THEN "none" ELSE "started"
  /\ UNCHANGED <<waiting, phase, cancelled>>

Execute(o) == Begin(o) \/ Finish(o) \/ Skip(o) \/ Call(o) \/ Drop(o)

Serve == Quit \/ Stop \/ Stopped \/ \E o \in Operations : Execute(o)

Next ==
  \/ \E S \in SUBSET Operations : Cancel(S)
  \/ \E o \in Operations : Add(o)
  \/ Serve

Spec == Init /\ [][Next]_vars

\* Whatever can be done for the operations that were added gets done, and
\* then the worker goes.
FairSpec == Spec /\ WF_vars(Serve)
=============================================================================
