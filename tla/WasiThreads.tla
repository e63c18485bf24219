----------------------------- MODULE WasiThreads -----------------------------
(***************************************************************************)
(* wasi-threads on top of the cluster (libwasi_threads/wasi_threads.c,     *)
(* pthread build): thread ids (lib/idalloc.c), traps and exits of several  *)
(* threads at once, and what the embedder is told in the end.              *)
(*                                                                         *)
(* The steps of the threads are those of Suspend, with the state that      *)
(* wasi_threads.c adds; the suspend protocol itself does not touch that    *)
(* state and is left to Suspend and SharedMemory.  A trap is set first, in *)
(* the exec_context of the thread, and propagated by a later step.         *)
(***************************************************************************)
EXTENDS Suspend, Sequences

CONSTANTS MaxTid,   \* the largest thread id (0x1fffffff)
          Codes     \* the operands of proc_exit

ASSUME WasiThreadsAssumption == MaxTid \in Nat \ {0} /\ 0 \in Codes

VARIABLES tids,       \* struct idalloc: for each slot, whether it is in use
          tid,        \* the id of each spawned thread, 0 without one
          trap,       \* wasi_threads_instance.trap
          exit_code,  \* wasi_instance.exit_code
          ctxtrap,    \* exec_context.trap, "none" if it has not trapped
          ctxcode,    \* the operand of the proc_exit behind it
          result,     \* the trap and exit code the embedder gets
          first,      \* history: the first trap propagated in this execution
          explicit    \* history: the proc_exit operands of this execution

idvars == <<tids, tid>>
trapvars == <<trap, exit_code, ctxtrap, ctxcode, result, first, explicit>>
wvars == <<svars, idvars, trapvars>>

(* The traps: proc_exit, thread_exit or the exit on an interrupt, any other. *)
Traps == {"exit", "thread_exit", "error"}
Results == [trap : {"none", "null"} \cup Traps, code : Codes]
NoResult == [trap |-> "none", code |-> 0]

WTypeOK ==
  /\ TypeOK
  /\ tids \in Seq(BOOLEAN) /\ Len(tids) <= MaxTid
  /\ tid \in [Threads -> 0..MaxTid]
  /\ trap \in Traps
  /\ exit_code \in Codes
  /\ ctxtrap \in [Threads -> Traps \cup {"none"}]
  /\ ctxcode \in [Threads -> Codes]
  /\ result \in Results /\ first \in Results
  /\ explicit \subseteq Codes

(* wasi_threads_instance_create *)
WInit ==
  /\ Init
  /\ tids = <<>>
  /\ tid = [t \in Threads |-> 0]
  /\ trap = "exit"
  /\ exit_code = 0
  /\ ctxtrap = [t \in Threads |-> "none"]
  /\ ctxcode = [t \in Threads |-> 0]
  /\ result = NoResult /\ first = NoResult
  /\ explicit = {}

(* wasi_threads_setup_exec_context: "if none of threads explicitly exits or
   traps, treat as if exit(0)". *)
Setup ==
  /\ SetupExecContext
  /\ trap' = "exit"
  /\ ctxtrap' = [ctxtrap EXCEPT ![Main] = "none"]
  /\ ctxcode' = [ctxcode EXCEPT ![Main] = 0]
  /\ result' = NoResult /\ first' = NoResult /\ explicit' = {}
  /\ UNCHANGED <<idvars, exit_code>>

-----------------------------------------------------------------------------
(* idalloc_alloc: the first free slot, or a new one at the end unless the
   largest id is in use.  Ids start at 1. *)
FreeSlots == {i \in 1..Len(tids) : ~tids[i]}

AllocTid == IF FreeSlots # {}
            THEN CHOOSE i \in FreeSlots : \A j \in FreeSlots : i <= j
            ELSE Len(tids) + 1

TidsWith(i) == IF i <= Len(tids) THEN [tids EXCEPT ![i] = TRUE]
                                 ELSE Append(tids, TRUE)

(* idalloc_free *)
FreeTid(u) ==
  /\ tids' = [tids EXCEPT ![tid[u]] = FALSE]
  /\ tid' = [tid EXCEPT ![u] = 0]

(* A thread executes wasm code: it has not trapped. *)
Executing(t) == pc[t] = "run" /\ ctxtrap[t] = "none"

(* wasi_thread_spawn_common, its first critical section.  Without an id it
   fails (ERANGE). *)
Spawn(t, u) ==
  /\ Executing(t)
  /\ AllocTid <= MaxTid
  /\ tids' = TidsWith(AllocTid)
  /\ tid' = [tid EXCEPT ![u] = AllocTid]
  /\ SpawnAdd(t, u)
  /\ UNCHANGED trapvars

(* pthread_create succeeds, or it fails and the id is free again. *)
Spawned(t, u) == SpawnCreate(t, u) /\ UNCHANGED <<idvars, trapvars>>
SpawnFailed(t, u) == SpawnUndo(t, u) /\ FreeTid(u) /\ UNCHANGED trapvars

-----------------------------------------------------------------------------
(* wasi_proc_exit: the exit code is stored at once. *)
ProcExit(t, code) ==
  /\ Executing(t)
  /\ exit_code' = code
  /\ ctxtrap' = [ctxtrap EXCEPT ![t] = "exit"]
  /\ ctxcode' = [ctxcode EXCEPT ![t] = code]
  /\ explicit' = explicit \cup {code}
  /\ UNCHANGED <<svars, idvars, trap, result, first>>

(* Any other trap, and thread_exit. *)
Trapped(t, kind) ==
  /\ Executing(t)
  /\ ctxtrap' = [ctxtrap EXCEPT ![t] = kind]
  /\ UNCHANGED <<svars, idvars, trap, exit_code, ctxcode, result, first, explicit>>

(* cluster_check_interrupt *)
Interrupt(t) ==
  /\ Executing(t)
  /\ CheckInterruptExit(t)
  /\ ctxtrap' = [ctxtrap EXCEPT ![t] = "thread_exit"]
  /\ UNCHANGED <<idvars, trap, exit_code, ctxcode, result, first, explicit>>

(* The execution of t returns, or ends by a trap that trap_is_local. *)
ExecReturns(t) ==
  /\ ctxtrap[t] \in {"none", "thread_exit"}
  /\ ReturnFromExec(t)
  /\ UNCHANGED <<idvars, trapvars>>

(* Mutant of Propagate: every trap is recorded, not only the first. *)
Propagate_Last(t) ==
  /\ ctxtrap[t] \in {"exit", "error"}
  /\ PropagateTrap(t)
  /\ trap' = ctxtrap[t]
  /\ first' = IF interrupt THEN first ELSE [trap |-> ctxtrap[t], code |-> ctxcode[t]]
  /\ UNCHANGED <<idvars, exit_code, ctxtrap, ctxcode, result, explicit>>

(* wasi_threads_propagate_trap: only the first trap is recorded. *)
Propagate(t) ==
  /\ ctxtrap[t] \in {"exit", "error"}
  /\ PropagateTrap(t)
  /\ IF interrupt
     THEN UNCHANGED <<trap, first>>
     ELSE /\ trap' = ctxtrap[t]
          /\ first' = [trap |-> ctxtrap[t], code |-> ctxcode[t]]
  /\ UNCHANGED <<idvars, exit_code, ctxtrap, ctxcode, result, explicit>>

(* Mutant of Done: the id is not freed. *)
Done_TidKept(t) ==
  /\ DoneThreadStartFunc(t)
  /\ tid' = [tid EXCEPT ![t] = 0]
  /\ UNCHANGED <<tids, trapvars>>

(* done_thread_start_func, its last critical section. *)
Done(t) == DoneThreadStartFunc(t) /\ FreeTid(t) /\ UNCHANGED trapvars

(* wasi_threads_instance_join *)
Join == InstanceJoin /\ UNCHANGED <<idvars, trapvars>>

(* cluster_join, and the end of wasi_threads_complete_exec: the trap of the
   main thread is replaced by the propagated one, and the embedder asks for
   the exit code if that is a proc_exit. *)
Complete ==
  /\ ClusterJoin
  /\ result' = IF pc'[Main] # "done" THEN result
               ELSE IF ctxtrap[Main] = "none" THEN [trap |-> "null", code |-> 0]
               ELSE [trap |-> trap, code |-> IF trap = "exit" THEN exit_code ELSE 0]
  /\ UNCHANGED <<idvars, trap, exit_code, ctxtrap, ctxcode, first, explicit>>

WThread(t) ==
  \/ \E u \in Threads : Spawn(t, u) \/ Spawned(t, u) \/ SpawnFailed(t, u)
  \/ \E code \in Codes : ProcExit(t, code)
  \/ \E kind \in {"thread_exit", "error"} : Trapped(t, kind)
  \/ Interrupt(t)
  \/ ExecReturns(t)
  \/ Propagate(t)
  \/ Done(t)

WNext == (\E t \in Threads : WThread(t)) \/ Setup \/ Join \/ Complete

WSpec == WInit /\ [][WNext]_wvars

-----------------------------------------------------------------------------
(* The ids in use are exactly those of the threads that are counted: no two
   threads have the same id, none is lost when pthread_create fails, and none
   is free while its thread may still use it. *)
TidsMatchThreads ==
  LET spawned == Live \ {Main} IN
  /\ WTypeOK
  /\ \A u \in spawned : tid[u] \in 1..Len(tids) /\ tids[tid[u]]
  /\ \A u, v \in spawned : tid[u] = tid[v] => u = v
  /\ \A i \in 1..Len(tids) : tids[i] => \E u \in spawned : tid[u] = i

(* When the main thread has ended by a trap the embedder gets the first trap
   propagated in this execution, or an exit if there was none, however the
   traps of the other threads interleave with it. *)
ResultIsFirstTrap ==
  result.trap \notin {"none", "null"} =>
    result.trap = IF first = NoResult THEN "exit" ELSE first.trap

(* "propagate only the first trap": the exit code is that of the proc_exit
   that was propagated. *)
ExitCodeOfFirstTrap ==
  result.trap = "exit" /\ first.trap = "exit" => result.code = first.code

(* "if none of threads explicitly exits or traps, treat as if exit(0)". *)
NoExitMeansZero ==
  result.trap = "exit" /\ explicit = {} => result.code = 0
=============================================================================
