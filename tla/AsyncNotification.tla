------------------------- MODULE AsyncNotification -------------------------
(***************************************************************************)
(* The blocking form of an asynchronous kernel: AsyncCpuKernel::Compute    *)
(* (async_cpu_kernel.cc) puts a Notification (notification.h) on its stack, *)
(* hands `done` to ComputeAsync and waits.  One caller makes up to MaxCalls *)
(* calls in a row, so that each Notification lies where the last one was;  *)
(* the callback of call n is a process of its own, on another thread or,   *)
(* when ComputeAsync runs it inline, on the caller's.                      *)
(*                                                                         *)
(* Steps are the accesses to the mutex, the flag and the condition variable. *)
(* ComputeAsync is a kernel's own code: it may refuse and never call done, *)
(* or accept and call it exactly once.                                     *)
(***************************************************************************)
EXTENDS Naturals

CONSTANT MaxCalls          \* bound on the calls the caller makes

ASSUME MaxCallsAssumption == MaxCalls \in Nat \ {0}

Calls == 1 .. MaxCalls

VARIABLES pc,              \* where the caller is
          call,            \* the call it is in, or has returned from
          alive,           \* the Notification of that call exists
          mu,              \* who holds mu_
          notified,        \* notified_
          cb               \* where the callback of each call is

asyncVars == <<pc, call, alive, mu, notified, cb>>

AsyncInit ==
  /\ pc = "idle" /\ call = 0 /\ alive = FALSE
  /\ mu = "free" /\ notified = FALSE
  /\ cb = [n \in Calls |-> "none"]

-----------------------------------------------------------------------------
(* The caller. *)

\* Notification n;
Construct_Stale ==
  /\ pc = "idle" /\ call < MaxCalls
  /\ pc' = "compute" /\ call' = call + 1 /\ alive' = TRUE
  /\ mu' = "free"
  /\ UNCHANGED <<notified, cb>>
Construct ==
  /\ pc = "idle" /\ call < MaxCalls
  /\ pc' = "compute" /\ call' = call + 1 /\ alive' = TRUE
  /\ mu' = "free" /\ notified' = FALSE
  /\ UNCHANGED cb

\* ComputeAsync returns an error and drops done: Compute waits all the same.
RefuseDone ==
  /\ pc = "compute" /\ pc' = "test"
  /\ UNCHANGED <<call, alive, mu, notified, cb>>

\* ComputeAsync leaves done to another thread ("test" at once), or calls it.
Accept ==
  /\ pc = "compute" /\ pc' \in {"test", "inline"}
  /\ cb' = [cb EXCEPT ![call] = "called"]
  /\ UNCHANGED <<call, alive, mu, notified>>

InlineDone ==
  /\ pc = "inline" /\ cb[call] = "finished" /\ pc' = "test"
  /\ UNCHANGED <<call, alive, mu, notified, cb>>

\* The test without the lock, at the head of WaitForNotification.
FastTest ==
  /\ pc = "test" /\ pc' = IF notified THEN "destroy" ELSE "lock"
  /\ UNCHANGED <<call, alive, mu, notified, cb>>

Lock ==
  /\ pc = "lock" /\ mu = "free" /\ mu' = "caller" /\ pc' = "loop"
  /\ UNCHANGED <<call, alive, notified, cb>>

LoopTest ==
  /\ pc = "loop"
  /\ IF notified THEN pc' = "destroy" /\ mu' = "free" ELSE pc' = "sleep" /\ UNCHANGED mu
  /\ UNCHANGED <<call, alive, notified, cb>>

\* cv_.wait(l): joins the waiters and releases the mutex in one step.
Sleep ==
  /\ pc = "sleep" /\ pc' = "waiting" /\ mu' = "free"
  /\ UNCHANGED <<call, alive, notified, cb>>

SpuriousWake ==
  /\ pc = "waiting" /\ pc' = "relock"
  /\ UNCHANGED <<call, alive, mu, notified, cb>>

Relock ==
  /\ pc = "relock" /\ mu = "free" /\ mu' = "caller" /\ pc' = "loop"
  /\ UNCHANGED <<call, alive, notified, cb>>

\* ~Notification: its body takes and drops the lock, then the members go.
Destructor_NoLock ==
  /\ pc = "destroy" /\ pc' = "free"
  /\ UNCHANGED <<call, alive, mu, notified, cb>>
Destructor ==
  /\ pc = "destroy" /\ mu = "free" /\ pc' = "free"
  /\ UNCHANGED <<call, alive, mu, notified, cb>>

Return ==
  /\ pc = "free" /\ pc' = "idle" /\ alive' = FALSE
  /\ UNCHANGED <<call, mu, notified, cb>>

Caller ==
  \/ RefuseDone \/ Accept \/ InlineDone
  \/ FastTest \/ Lock \/ LoopTest \/ Sleep \/ Relock
  \/ Destructor \/ Return

-----------------------------------------------------------------------------
(* Notify, called by the callback of call n. *)

NotifyLock(n) ==
  /\ cb[n] = "called" /\ mu = "free" /\ mu' = "callback"
  /\ cb' = [cb EXCEPT ![n] = "locked"]
  /\ UNCHANGED <<pc, call, alive, notified>>

NotifyStore(n) ==
  /\ cb[n] = "locked" /\ notified' = TRUE
  /\ cb' = [cb EXCEPT ![n] = IF notified THEN "unlocking" ELSE "waking"]
  /\ UNCHANGED <<pc, call, alive, mu>>

NotifyAll_Nobody(n) ==
  /\ cb[n] = "waking" /\ cb' = [cb EXCEPT ![n] = "unlocking"]
  /\ UNCHANGED <<pc, call, alive, mu, notified>>
NotifyAll(n) ==
  /\ cb[n] = "waking" /\ cb' = [cb EXCEPT ![n] = "unlocking"]
  /\ pc' = IF pc = "waiting" THEN "relock" ELSE pc
  /\ UNCHANGED <<call, alive, mu, notified>>

NotifyUnlock(n) ==
  /\ cb[n] = "unlocking" /\ mu' = "free" /\ cb' = [cb EXCEPT ![n] = "finished"]
  /\ UNCHANGED <<pc, call, alive, notified>>

Callback(n) == NotifyLock(n) \/ NotifyStore(n) \/ NotifyAll(n) \/ NotifyUnlock(n)

AsyncNext == Construct \/ Caller \/ SpuriousWake \/ \E n \in Calls : Callback(n)

\* Threads inside a call are scheduled, and an accepted done is called.  The
\* mutex is fair to the callback that asks for it: a caller that keeps being
\* woken for nothing does not starve it.  Nothing forces spurious wakeups or
\* further calls.
Fairness ==
  /\ WF_asyncVars(Caller)
  /\ \A n \in Calls : WF_asyncVars(Callback(n)) /\ SF_asyncVars(NotifyLock(n))

AsyncSpec == AsyncInit /\ [][AsyncNext]_asyncVars
FairSpec == AsyncSpec /\ Fairness

-----------------------------------------------------------------------------
TypeOK ==
  /\ pc \in {"idle", "compute", "inline", "test", "lock", "loop", "sleep",
             "waiting", "relock", "destroy", "free"}
  /\ call \in 0 .. MaxCalls
  /\ alive \in BOOLEAN
  /\ mu \in {"free", "caller", "callback"}
  /\ notified \in BOOLEAN
  /\ cb \in [Calls -> {"none", "called", "locked", "waking", "unlocking", "finished"}]

\* A callback that has yet to touch its Notification finds it there, and not
\* the one of a later call in its place: what the lock in ~Notification is for.
NoUseAfterFree ==
  \A n \in Calls : cb[n] \notin {"none", "finished"} => alive /\ call = n

\* Compute returns only after its own callback has run to the end: no early
\* return on a spurious wakeup or on what an earlier call left behind.
ReturnsAfterDone ==
  \A n \in Calls : n < call \/ (n = call /\ pc = "idle") => cb[n] = "finished"

\* Nobody sleeps through the notification: if the flag is set while the
\* caller is among the waiters, the callback is about to wake it.
NoLostWakeup == pc = "waiting" /\ notified => cb[call] = "waking"

\* An accepted call returns.  (One that was refused never does: see README.)
AcceptedReturns ==
  \A n \in Calls : cb[n] = "called" ~> (call > n \/ (call = n /\ pc = "idle"))

\* What the proofs add: who holds the mutex, that a callback runs only once
\* its call has begun, what the flag says of the callback, and what the caller
\* knows of it at the points of its code.
MutexHeld ==
  /\ mu = "caller" <=> pc \in {"loop", "sleep"}
  /\ mu = "callback" <=> \E n \in Calls : cb[n] \in {"locked", "waking", "unlocking"}

CallbacksOfCalls ==
  /\ alive <=> pc # "idle"
  /\ pc # "idle" => call \in Calls
  /\ \A n \in Calls : n > call => cb[n] = "none"
  /\ pc = "compute" => cb[call] = "none"

FlagSound ==
  /\ pc # "idle" => (notified <=> cb[call] \in {"waking", "unlocking", "finished"})
  /\ pc = "sleep" => ~notified
  /\ pc = "destroy" => notified
  /\ pc = "free" => cb[call] = "finished"

IInv ==
  /\ TypeOK
  /\ NoUseAfterFree
  /\ ReturnsAfterDone
  /\ NoLostWakeup
  /\ MutexHeld
  /\ CallbacksOfCalls
  /\ FlagSound
=============================================================================
