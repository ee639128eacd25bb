----------------------------- MODULE Dispatcher -----------------------------
(***************************************************************************)
(* async/dispatcher.{h,cpp}: a FIFO of functions filled by any task or     *)
(* interrupt and drained by one FreeRTOS task, which sleeps on its task    *)
(* notification.  Every critical section of the code (spinlock) is one     *)
(* step; the unlocked read of `initialized' in dispatch() is a step of its *)
(* own.                                                                    *)
(*                                                                         *)
(* FreeRTOS is external.  A notification is one pending bit: giving it     *)
(* sets the bit, and with eNoAction giving always succeeds, so the branch  *)
(* of dispatch() that undoes a push is dead code and is not modelled.      *)
(* Creating the task can fail (no memory).                                 *)
(***************************************************************************)
EXTENDS Naturals, Sequences, Functions

CONSTANTS Callers,  (* tasks and interrupt handlers that use the dispatcher *)
          Isrs,     (* those of them that are interrupt handlers            *)
          Worker,   (* the dispatcher task; its callbacks dispatch, too     *)
          Jobs,     (* the functions handed over, each at most once         *)
          NoJob

ASSUME DispatcherAssumption ==
  /\ Isrs \subseteq Callers
  /\ Worker \notin Callers
  /\ NoJob \notin Jobs

VARIABLES
  initialized,  (* Dispatcher::initialized                                  *)
  workers,      (* how many dispatcher tasks xTaskCreate has created        *)
  notified,     (* the task's notification is pending                       *)
  dispatched,   (* Dispatcher::dispatched                                   *)
  pc,           (* dispatcher_task: "none", "wait", "poll" or "run"         *)
  hasMore,      (* what process_pending_tasks will return                   *)
  running,      (* the function it has popped, or NoJob                     *)
  returned,     (* the functions that have returned                         *)
  call,         (* per thread: "idle", in begin(), or about to "push"       *)
  arg,          (* per thread: the function it dispatches, NoJob in begin() *)
  fresh         (* functions no thread has handed over yet                  *)

dispatcherVars == <<initialized, workers, notified, dispatched, pc, hasMore, running,
          returned, call, arg, fresh>>

workerVars == <<pc, hasMore, running, returned>>

Threads == Callers \cup {Worker}

DispatcherInit ==
  /\ initialized = FALSE
  /\ workers = 0
  /\ notified = FALSE
  /\ dispatched = <<>>
  /\ pc = "none"
  /\ hasMore = FALSE
  /\ running = NoJob
  /\ returned = {}
  /\ call = [t \in Threads |-> "idle"]
  /\ arg = [t \in Threads |-> NoJob]
  /\ fresh = Jobs

(***************************************************************************)
(* Callers.                                                                *)
(***************************************************************************)
\* The dispatcher task calls only from inside the function it is running.
CanCall(t) == call[t] = "idle" /\ (t = Worker => pc = "run")

Enter(t, step, j) ==
  /\ call' = [call EXCEPT ![t] = step]
  /\ arg' = [arg EXCEPT ![t] = j]

\* begin() called on its own, as AsyncEspNow::begin does.
CallBegin(t) ==
  /\ CanCall(t)
  /\ Enter(t, "begin", NoJob)
  /\ UNCHANGED <<initialized, workers, notified, dispatched, workerVars, fresh>>

\* dispatch(fn): reads `initialized' outside the lock to choose its path.
Dispatch(t, j) ==
  /\ CanCall(t)
  /\ j \in fresh
  /\ fresh' = fresh \ {j}
  /\ Enter(t, IF initialized THEN "push" ELSE "begin", j)
  /\ UNCHANGED <<initialized, workers, notified, dispatched, workerVars>>

\* Where begin() returns true to: dispatch() goes on, a bare begin() is over.
AfterBegin(t) ==
  call' = [call EXCEPT ![t] = IF arg[t] = NoJob THEN "idle" ELSE "push"]

\* begin() without the second test under the lock.
CreateWorkerUnchecked(t) ==
  /\ call[t] = "begin"
  /\ t \notin Isrs
  /\ initialized' = TRUE
  /\ workers' = workers + 1
  /\ pc' = IF pc = "none" THEN "wait" ELSE pc
  /\ AfterBegin(t)
  /\ UNCHANGED <<notified, dispatched, hasMore, running, returned, arg, fresh>>

\* begin() under the lock, the task being created by this call.
CreateWorker(t) ==
  /\ call[t] = "begin"
  /\ t \notin Isrs
  /\ ~initialized
  /\ initialized' = TRUE
  /\ workers' = workers + 1
  /\ pc' = "wait"
  /\ AfterBegin(t)
  /\ UNCHANGED <<notified, dispatched, hasMore, running, returned, arg, fresh>>

\* begin() under the lock, the task having been created by another call.
BeginAgain(t) ==
  /\ call[t] = "begin"
  /\ t \notin Isrs
  /\ initialized
  /\ AfterBegin(t)
  /\ UNCHANGED <<initialized, workers, notified, dispatched, workerVars, arg, fresh>>

\* begin() returns false: in an interrupt, or xTaskCreate fails.  dispatch()
\* then returns false and the function is not queued.
BeginFails(t) ==
  /\ call[t] = "begin"
  /\ t \in Isrs \/ ~initialized
  /\ Enter(t, "idle", NoJob)
  /\ UNCHANGED <<initialized, workers, notified, dispatched, workerVars, fresh>>

\* A dispatch() that trusts a running task to find the function by itself.
PushQuietWhenBusy(t) ==
  /\ call[t] = "push"
  /\ dispatched' = Append(dispatched, arg[t])
  /\ notified' = (notified \/ pc = "wait")
  /\ Enter(t, "idle", NoJob)
  /\ UNCHANGED <<initialized, workers, workerVars, fresh>>

\* The critical section of dispatch(): push, and give the notification.
Push(t) ==
  /\ call[t] = "push"
  /\ dispatched' = Append(dispatched, arg[t])
  /\ notified' = TRUE
  /\ Enter(t, "idle", NoJob)
  /\ UNCHANGED <<initialized, workers, workerVars, fresh>>

(***************************************************************************)
(* The dispatcher task.                                                    *)
(***************************************************************************)
\* xTaskNotifyWait: returns at once if a notification is pending, and takes it.
Wake ==
  /\ pc = "wait"
  /\ notified
  /\ notified' = FALSE
  /\ pc' = "poll"
  /\ UNCHANGED <<initialized, workers, dispatched, hasMore, running, returned,
                 call, arg, fresh>>

\* process_pending_tasks under the lock, the queue being empty.
PollEmpty ==
  /\ pc = "poll"
  /\ dispatched = <<>>
  /\ pc' = "wait"
  /\ UNCHANGED <<initialized, workers, notified, dispatched, hasMore, running,
                 returned, call, arg, fresh>>

\* Pops without remembering whether more is left.
PollPopForgetful ==
  /\ pc = "poll"
  /\ dispatched # <<>>
  /\ running' = Head(dispatched)
  /\ dispatched' = Tail(dispatched)
  /\ hasMore' = FALSE
  /\ pc' = "run"
  /\ UNCHANGED <<initialized, workers, notified, returned, call, arg, fresh>>

\* process_pending_tasks under the lock: pop, and remember whether more is left.
PollPop ==
  /\ pc = "poll"
  /\ dispatched # <<>>
  /\ running' = Head(dispatched)
  /\ dispatched' = Tail(dispatched)
  /\ hasMore' = (Tail(dispatched) # <<>>)
  /\ pc' = "run"
  /\ UNCHANGED <<initialized, workers, notified, returned, call, arg, fresh>>

\* The function returns; delay_if_too_long only yields or feeds the watchdog.
Return ==
  /\ pc = "run"
  /\ call[Worker] = "idle"
  /\ returned' = returned \cup {running}
  /\ running' = NoJob
  /\ pc' = IF hasMore THEN "poll" ELSE "wait"
  /\ UNCHANGED <<initialized, workers, notified, dispatched, hasMore, call, arg,
                 fresh>>

WorkerStep == Wake \/ PollEmpty \/ PollPop \/ Return

DispatcherNext ==
  \/ \E t \in Threads :
       \/ \E j \in Jobs : Dispatch(t, j)
       \/ CreateWorker(t)
       \/ BeginAgain(t)
       \/ BeginFails(t)
       \/ Push(t)
  \/ \E t \in Callers : CallBegin(t)
  \/ WorkerStep

(***************************************************************************)
(* FreeRTOS keeps scheduling the dispatcher task (priority 1, and it yields *)
(* by itself), and the functions it runs return: the task is weakly fair,  *)
(* and so is the dispatch() it is in the middle of.  Nothing is assumed of *)
(* the other threads.                                                      *)
(***************************************************************************)
WorkerFairness ==
  WF_dispatcherVars(WorkerStep) /\ WF_dispatcherVars(Push(Worker))

DispatcherSafeSpec == DispatcherInit /\ [][DispatcherNext]_dispatcherVars
DispatcherSpec == DispatcherSafeSpec /\ WorkerFairness

(***************************************************************************)
(* Properties.                                                             *)
(***************************************************************************)
DispatcherTypeOK ==
  /\ initialized \in BOOLEAN
  /\ workers \in Nat
  /\ notified \in BOOLEAN
  /\ dispatched \in Seq(Jobs)
  /\ pc \in {"none", "wait", "poll", "run"}
  /\ hasMore \in BOOLEAN
  /\ running \in Jobs \cup {NoJob}
  /\ returned \in SUBSET Jobs
  /\ call \in [Threads -> {"idle", "begin", "push"}]
  /\ arg \in [Threads -> Jobs \cup {NoJob}]
  /\ fresh \in SUBSET Jobs

\* However many tasks race through dispatch() and begin() before the first
\* function is queued, at most one dispatcher task is ever created: the double
\* test of `initialized' in begin().
OneWorker == workers = (IF initialized THEN 1 ELSE 0)

\* The dispatcher task never sleeps on a non-empty queue: when it is about to
\* wait, or will wait because hasMore was computed before the latest push, the
\* notification of that push is still pending.
NoLostWakeup ==
  /\ pc = "wait" /\ dispatched # <<>> => notified
  /\ pc = "run" /\ dispatched # <<>> => hasMore \/ notified

Exec == INSTANCE Executor
          WITH waiting <- dispatched, current <- running, done <- returned

\* The dispatcher's steps are the executor's: accepted functions run exactly
\* once, in order, one at a time.
ExecutorSafety == Exec!SafeSpec

\* The dispatcher keeps all of the executor's promise: besides, each accepted
\* function does run, whatever was queued while the task was busy or asleep.
ImplementsExecutor == Exec!Spec
=============================================================================
