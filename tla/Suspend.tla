------------------------------- MODULE Suspend -------------------------------
(***************************************************************************)
(* A cluster of threads (lib/cluster.c), its suspend protocol              *)
(* (lib/suspend.c) and the life of the threads that take part in it        *)
(* (libwasi_threads/wasi_threads.c, pthread build).                        *)
(*                                                                         *)
(* One step is one critical section of cluster.lock, or one access to an   *)
(* atomic field outside it.  A wait on a condition variable ends a step:   *)
(* the thread is in `waiting` (stop_cv) or joinwait holds (cv) until a     *)
(* broadcast, a signal or a spurious wakeup releases it, and what it does  *)
(* with the lock taken again is a step of its own.                         *)
(*                                                                         *)
(* The C assertions do not stop the model, as they do not stop a Release   *)
(* build; the ones that matter are stated as properties at the end.        *)
(***************************************************************************)
EXTENDS Naturals, FiniteSets

CONSTANTS Threads,  \* the threads of the program; one pthread each
          Main,     \* the thread that runs _start
          NoThread

ASSUME ThreadsAssumption == /\ IsFiniteSet(Threads)
                            /\ Main \in Threads
                            /\ NoThread \notin Threads

VARIABLES nrunners, nparked, suspend_state, interrupt,  \* struct cluster
          waiting,    \* the threads blocked on stop_cv
          joinwait,   \* the main thread is blocked on cv
          pc          \* where each thread is

cluster == <<nrunners, nparked, suspend_state, interrupt>>
svars == <<nrunners, nparked, suspend_state, interrupt, waiting, joinwait, pc>>

SuspendStates == {"NONE", "STOPPING", "RESUMING"}

PCs == {"new",           \* not spawned yet
        "starting",      \* counted in nrunners, pthread_create not called yet
        "run",           \* in the interpreter or in a host function
        "spawning",      \* between cluster_add_thread and pthread_create
        "restart",       \* unwound with a restartable error
        "parking",       \* in suspend_parked, saw STOPPING, without the lock
        "parked",        \* in parked(), called by suspend_parked
        "sp_parked",     \* in parked(), called by suspend_threads
        "sp_resuming",   \* in suspend_threads, waiting for RESUMING to end
        "sp_stopping",   \* in suspend_threads, waiting for the others
        "suspender",     \* suspend_threads has returned
        "exiting",       \* execution is over, still counted in nrunners
        "joining",       \* the main thread, in cluster_join
        "done"}

(* The threads counted in nrunners, and those counted in nparked. *)
Gone == {"new", "joining", "done"}
Live == {t \in Threads : pc[t] \notin Gone}
Parked == {t \in Threads : pc[t] \in {"parked", "sp_parked"}}

TypeOK ==
  /\ nrunners \in Nat
  /\ nparked \in Nat
  /\ suspend_state \in SuspendStates
  /\ interrupt \in BOOLEAN
  /\ waiting \subseteq Threads
  /\ joinwait \in BOOLEAN
  /\ pc \in [Threads -> PCs]

-----------------------------------------------------------------------------
(* cluster_init *)
Init ==
  /\ nrunners = 0
  /\ nparked = 0
  /\ suspend_state = "NONE"
  /\ interrupt = FALSE
  /\ waiting = {}
  /\ joinwait = FALSE
  /\ pc = [t \in Threads |-> "new"]

Goto(t, l) == pc' = [pc EXCEPT ![t] = l]

(* cluster_add_thread *)
ClusterAddThread == nrunners' = nrunners + 1

(* Mutant of ClusterRemoveThread: the broadcast of stop_cv is forgotten. *)
ClusterRemoveThread_NoBroadcast ==
  /\ nrunners' = nrunners - 1
  /\ joinwait' = (joinwait /\ nrunners - 1 # 0)
  /\ UNCHANGED waiting

(* cluster_remove_thread: cv is signalled at 0, stop_cv while STOPPING. *)
ClusterRemoveThread ==
  /\ nrunners' = nrunners - 1
  /\ joinwait' = (joinwait /\ nrunners - 1 # 0)
  /\ waiting' = IF suspend_state = "STOPPING" THEN {} ELSE waiting

(* wasi_threads_setup_exec_context.  The main thread can execute again after
   it has joined the threads of the previous execution.  The flag is cleared
   after the unlock; nobody else is there to see that (JoinedBeforeReuse). *)
SetupExecContext ==
  /\ pc[Main] \in {"new", "done"}
  /\ ClusterAddThread
  /\ interrupt' = FALSE
  /\ Goto(Main, "run")
  /\ UNCHANGED <<nparked, suspend_state, waiting, joinwait>>

(* wasi_thread_spawn_common: t counts the new thread u before it exists. *)
SpawnAdd(t, u) ==
  /\ pc[t] = "run"
  /\ pc[u] = "new" /\ u # Main
  /\ ClusterAddThread
  /\ pc' = [pc EXCEPT ![t] = "spawning", ![u] = "starting"]
  /\ UNCHANGED <<nparked, suspend_state, interrupt, waiting, joinwait>>

(* pthread_create succeeds and u enters runner. *)
SpawnCreate(t, u) ==
  /\ pc[t] = "spawning" /\ pc[u] = "starting"
  /\ pc' = [pc EXCEPT ![t] = "run", ![u] = "run"]
  /\ UNCHANGED <<cluster, waiting, joinwait>>

(* Mutant of SpawnUndo: the count is not taken back. *)
SpawnUndo_StillCounted(t, u) ==
  /\ pc[t] = "spawning" /\ pc[u] = "starting"
  /\ pc' = [pc EXCEPT ![t] = "run", ![u] = "done"]
  /\ UNCHANGED <<cluster, waiting, joinwait>>

(* pthread_create fails and the count is taken back. *)
SpawnUndo(t, u) ==
  /\ pc[t] = "spawning" /\ pc[u] = "starting"
  /\ ClusterRemoveThread
  /\ pc' = [pc EXCEPT ![t] = "run", ![u] = "done"]
  /\ UNCHANGED <<nparked, suspend_state, interrupt>>

(* cluster_check_interrupt, interrupt set: a thread-local trap ends t. *)
CheckInterruptExit(t) ==
  /\ pc[t] = "run"
  /\ interrupt
  /\ Goto(t, "exiting")
  /\ UNCHANGED <<cluster, waiting, joinwait>>

(* suspend_check_interrupt: t unwinds its stack with ETOYWASMRESTART. *)
CheckInterruptSuspend(t) ==
  /\ pc[t] = "run"
  /\ ~interrupt
  /\ suspend_state = "STOPPING"
  /\ Goto(t, "restart")
  /\ UNCHANGED <<cluster, waiting, joinwait>>

(* The other sources of a restartable error in check_interrupt: a user
   interrupt, and the restarts a debug build injects. *)
CheckInterruptOther(t) ==
  /\ pc[t] = "run"
  /\ Goto(t, "restart")
  /\ UNCHANGED <<cluster, waiting, joinwait>>

(* suspend_parked, the test of suspend_state without the lock.  The execution
   continues if it is not STOPPING. *)
SuspendParkedTest(t) ==
  /\ pc[t] = "restart"
  /\ Goto(t, IF suspend_state = "STOPPING" THEN "parking" ELSE "run")
  /\ UNCHANGED <<cluster, waiting, joinwait>>

(* Mutant of ParkedEnter: the last thread to park does not tell. *)
ParkedEnter_NoBroadcast(t, l, np, wt) ==
  /\ nparked' = np + 1
  /\ waiting' = IF suspend_state = "STOPPING" THEN wt \cup {t} ELSE wt
  /\ Goto(t, l)
  /\ UNCHANGED suspend_state

(* parked() up to its first wait, with np threads parked and wt waiting; the
   thread stays at l.  It does not wait if the state is not STOPPING. *)
ParkedEnter(t, l, np, wt) ==
  /\ nparked' = np + 1
  /\ LET woken == IF nrunners = np + 2 THEN {} ELSE wt
     IN  waiting' = IF suspend_state = "STOPPING" THEN woken \cup {t} ELSE woken
  /\ Goto(t, l)
  /\ UNCHANGED suspend_state

(* suspend_parked, the call of parked() with the lock. *)
SuspendParked(t) ==
  /\ pc[t] = "parking"
  /\ ParkedEnter(t, "parked", nparked, waiting)
  /\ UNCHANGED <<nrunners, interrupt, joinwait>>

(* The rest of parked() after the loop: what it leaves in nparked,
   suspend_state and waiting. *)
LeftParked == nparked - 1
LeftState == IF LeftParked = 0 THEN "NONE" ELSE suspend_state
LeftWaiting == IF LeftParked = 0 THEN {} ELSE waiting

(* Mutant of ParkedWake: the wait is an "if", not a loop. *)
ParkedWake_If(t) ==
  /\ pc[t] = "parked"
  /\ t \notin waiting
  /\ nparked' = LeftParked
  /\ suspend_state' = LeftState
  /\ waiting' = LeftWaiting
  /\ Goto(t, "run")
  /\ UNCHANGED <<nrunners, interrupt, joinwait>>

(* A thread parked in suspend_parked continues with the lock taken again. *)
ParkedWake(t) ==
  /\ pc[t] = "parked"
  /\ t \notin waiting
  /\ IF suspend_state = "STOPPING"
     THEN /\ waiting' = waiting \cup {t}
          /\ UNCHANGED <<nparked, suspend_state, pc>>
     ELSE /\ nparked' = LeftParked
          /\ suspend_state' = LeftState
          /\ waiting' = LeftWaiting
          /\ Goto(t, "run")
  /\ UNCHANGED <<nrunners, interrupt, joinwait>>

(* suspend_threads from the label retry, in a state where suspend_state is
   st, nparked is np and wt is waiting. *)
SuspendRetry(t, st, np, wt) ==
  \/ st = "STOPPING" /\ ParkedEnter(t, "sp_parked", np, wt)
  \/ /\ st = "RESUMING"
     /\ waiting' = wt \cup {t}
     /\ nparked' = np
     /\ suspend_state' = st
     /\ Goto(t, "sp_resuming")
  \/ /\ st = "NONE"
     /\ suspend_state' = "STOPPING"
     /\ nparked' = np
     /\ IF nrunners # np + 1
        THEN waiting' = wt \cup {t} /\ Goto(t, "sp_stopping")
        ELSE waiting' = wt /\ Goto(t, "suspender")

(* suspend_threads, from the lock to its first wait or its return. *)
SuspendThreads(t) ==
  /\ SuspendRetry(t, suspend_state, nparked, waiting)
  /\ UNCHANGED <<nrunners, interrupt, joinwait>>

(* suspend_threads, woken in the parked() it called. *)
SpParkedWake(t) ==
  /\ pc[t] = "sp_parked"
  /\ t \notin waiting
  /\ IF suspend_state = "STOPPING"
     THEN /\ waiting' = waiting \cup {t}
          /\ UNCHANGED <<nparked, suspend_state, pc>>
     ELSE SuspendRetry(t, LeftState, LeftParked, LeftWaiting)
  /\ UNCHANGED <<nrunners, interrupt, joinwait>>

(* suspend_threads, woken while the previous suspend was resuming. *)
SpResumingWake(t) ==
  /\ pc[t] = "sp_resuming"
  /\ t \notin waiting
  /\ SuspendThreads(t)

(* Mutant of SpStoppingWake: the wait is an "if", not a loop. *)
SpStoppingWake_If(t) ==
  /\ pc[t] = "sp_stopping"
  /\ t \notin waiting
  /\ Goto(t, "suspender")
  /\ UNCHANGED <<cluster, waiting, joinwait>>

(* suspend_threads, woken in the loop that waits for the others. *)
SpStoppingWake(t) ==
  /\ pc[t] = "sp_stopping"
  /\ t \notin waiting
  /\ IF nrunners # nparked + 1
     THEN waiting' = waiting \cup {t} /\ UNCHANGED pc
     ELSE Goto(t, "suspender") /\ UNCHANGED waiting
  /\ UNCHANGED <<cluster, joinwait>>

(* Mutant of ResumeThreads: the parked threads are not woken. *)
ResumeThreads_NoBroadcast(t) ==
  /\ pc[t] = "suspender"
  /\ suspend_state' = IF nparked > 0 THEN "RESUMING" ELSE "NONE"
  /\ Goto(t, "run")
  /\ UNCHANGED <<nrunners, nparked, interrupt, waiting, joinwait>>

(* resume_threads *)
ResumeThreads(t) ==
  /\ pc[t] = "suspender"
  /\ suspend_state' = IF nparked > 0 THEN "RESUMING" ELSE "NONE"
  /\ waiting' = {}
  /\ Goto(t, "run")
  /\ UNCHANGED <<nrunners, nparked, interrupt, joinwait>>

(* The function of t returns or t calls thread_exit. *)
ReturnFromExec(t) ==
  /\ pc[t] = "run"
  /\ Goto(t, "exiting")
  /\ UNCHANGED <<cluster, waiting, joinwait>>

(* t traps or calls proc_exit; wasi_threads_propagate_trap interrupts all. *)
PropagateTrap(t) ==
  /\ pc[t] = "run"
  /\ interrupt' = TRUE
  /\ Goto(t, "exiting")
  /\ UNCHANGED <<nrunners, nparked, suspend_state, waiting, joinwait>>

(* done_thread_start_func, its last critical section. *)
DoneThreadStartFunc(t) ==
  /\ pc[t] = "exiting"
  /\ t # Main
  /\ ClusterRemoveThread
  /\ Goto(t, "done")
  /\ UNCHANGED <<nparked, suspend_state, interrupt>>

(* Mutant of InstanceJoin: the other threads are not told to exit. *)
InstanceJoin_NoInterrupt ==
  /\ pc[Main] = "exiting"
  /\ ClusterRemoveThread
  /\ Goto(Main, "joining")
  /\ UNCHANGED <<nparked, suspend_state, interrupt>>

(* wasi_threads_instance_join, up to cluster_join. *)
InstanceJoin ==
  /\ pc[Main] = "exiting"
  /\ interrupt' = TRUE
  /\ ClusterRemoveThread
  /\ Goto(Main, "joining")
  /\ UNCHANGED <<nparked, suspend_state>>

(* cluster_join, one turn of its loop. *)
ClusterJoin ==
  /\ pc[Main] = "joining"
  /\ ~joinwait
  /\ IF nrunners > 0
     THEN joinwait' = TRUE /\ UNCHANGED pc
     ELSE Goto(Main, "done") /\ UNCHANGED joinwait
  /\ UNCHANGED <<cluster, waiting>>

(* pthread_cond_wait may return for no reason. *)
SpuriousWakeup(t) ==
  /\ t \in waiting
  /\ waiting' = waiting \ {t}
  /\ UNCHANGED <<cluster, joinwait, pc>>

-----------------------------------------------------------------------------
(* The steps of a thread inside the protocol, whatever its client does. *)
ProtocolStep(t) ==
  \/ SuspendParkedTest(t)
  \/ SuspendParked(t)
  \/ ParkedWake(t)
  \/ SpParkedWake(t)
  \/ SpResumingWake(t)
  \/ SpStoppingWake(t)

(* The steps that only a thread executing a program takes. *)
ProgramStep(t) ==
  \/ \E u \in Threads : SpawnAdd(t, u)
  \/ CheckInterruptExit(t)
  \/ CheckInterruptSuspend(t)
  \/ CheckInterruptOther(t)
  \/ ReturnFromExec(t)
  \/ PropagateTrap(t)

SpawnEnd(t) == \E u \in Threads : SpawnCreate(t, u) \/ SpawnUndo(t, u)

LifeStep(t) ==
  \/ SpawnEnd(t)
  \/ DoneThreadStartFunc(t)
  \/ t = Main /\ (SetupExecContext \/ InstanceJoin \/ ClusterJoin)

(* The client of the protocol: any running thread may stop the world. *)
ClientStep(t) ==
  \/ pc[t] = "run" /\ SuspendThreads(t)
  \/ ResumeThreads(t)

Next == \E t \in Threads :
  \/ ProtocolStep(t)
  \/ ProgramStep(t)
  \/ LifeStep(t)
  \/ ClientStep(t)
  \/ SpuriousWakeup(t)

Spec == Init /\ [][Next]_svars

(* Every thread that can run does; the code between suspend_threads and
   resume_threads ends; and a thread that executes for ever calls
   check_interrupt for ever, every check_interval instructions, so that a
   request to exit that stays set is seen even by a thread that suspends the
   others again and again. *)
Fairness == \A t \in Threads :
  /\ WF_svars(ProtocolStep(t))
  /\ WF_svars(CheckInterruptSuspend(t))
  /\ SF_svars(CheckInterruptExit(t))
  /\ WF_svars(ResumeThreads(t))
  /\ WF_svars(SpawnEnd(t))
  /\ WF_svars(DoneThreadStartFunc(t))
  /\ WF_svars(t = Main /\ (InstanceJoin \/ ClusterJoin))

FairSpec == Spec /\ Fairness

-----------------------------------------------------------------------------
(* suspend.h: when suspend_threads returns every other thread of the cluster
   is blocked in suspend_threads or in suspend_parked, and stays there until
   resume_threads. *)
WorldStopped == \A t \in Threads :
  pc[t] = "suspender" => /\ suspend_state = "STOPPING"
                         /\ \A u \in Live \ {t} : u \in Parked

(* suspend.h: suspend_threads works as a cluster-global mutex: the state is
   STOPPING exactly while one thread, and only one, has asked for the others
   to stop and has not resumed them. *)
Coordinators == {t \in Threads : pc[t] \in {"sp_stopping", "suspender"}}

OneCoordinator ==
  /\ suspend_state = "STOPPING" <=> Coordinators # {}
  /\ \A t, u \in Coordinators : t = u

(* The counters of struct cluster agree with where the threads are: nrunners
   and nparked are what cluster_add_thread, cluster_remove_thread and parked()
   leave in them, and RESUMING lasts exactly until the last parked thread has
   left (the assertions on nparked in suspend_threads and on suspend_state in
   parked). *)
CountersAgree ==
  /\ nrunners = Cardinality(Live)
  /\ nparked = Cardinality(Parked)
  /\ suspend_state = "NONE" => Parked = {}
  /\ suspend_state = "RESUMING" => Parked # {}

(* A thread that read STOPPING in suspend_parked without the lock finds it
   still STOPPING when it has the lock, and nobody parks outside a suspend:
   parked() never has to decide for a suspend that is already over. *)
ParkingIsNotStale ==
  (\E t \in Threads : pc[t] = "parking") => suspend_state = "STOPPING"

(* No wakeup is lost: a thread sleeps on stop_cv only while what it waits for
   has not happened. *)
NoLostWakeup == \A t \in waiting :
  \/ pc[t] \in {"parked", "sp_parked"} /\ suspend_state = "STOPPING"
  \/ pc[t] = "sp_resuming" /\ suspend_state = "RESUMING"
  \/ pc[t] = "sp_stopping" /\ nrunners # nparked + 1

(* A new execution (setup_exec_context) starts with no thread of the previous
   one left, so that clearing the interrupt flag cancels nobody's exit. *)
JoinedBeforeReuse == pc[Main] \in {"new", "done"} => Live = {}

(* Every suspend request is granted. *)
SuspendCompletes == \A t \in Threads :
  pc[t] = "sp_stopping" ~> pc[t] = "suspender"

(* Every parked thread is released. *)
ParkedReleased == \A t \in Threads :
  pc[t] \in {"parking", "parked"} ~> pc[t] = "run"

(* The main thread waits for the others only as long as they take to see the
   interrupt: wasi_threads_complete_exec returns. *)
JoinCompletes == pc[Main] = "joining" ~> pc[Main] = "done"

(* The suspend protocol implements the abstract one: the threads of the cluster
   that are not parked are active, and the thread between suspend_threads and
   resume_threads is the holder. *)
Holder == IF \E t \in Threads : pc[t] = "suspender"
          THEN CHOOSE t \in Threads : pc[t] = "suspender"
          ELSE NoThread

STW == INSTANCE StopTheWorld WITH active <- Live \ Parked, holder <- Holder

ImplementsStopTheWorld == STW!Spec

=============================================================================
