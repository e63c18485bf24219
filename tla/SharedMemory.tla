----------------------------- MODULE SharedMemory -----------------------------
(***************************************************************************)
(* memory.grow of a shared memory that is allocated on demand              *)
(* (TOYWASM_PREALLOC_SHARED_MEMORY off, the default), by threads of a      *)
(* cluster, against the loads and stores of the other threads              *)
(* (lib/exec_insn_subr.c).  It is the client of the suspend protocol: the  *)
(* client steps of Suspend are replaced by memory_grow_impl.               *)
(*                                                                         *)
(* Sizes are in pages.  `gen` names the buffer meminst.data points to: an  *)
(* extension may move it, so each one is a new generation.                 *)
(***************************************************************************)
EXTENDS Suspend

CONSTANTS Growers,       \* the threads that execute memory.grow
          MinPages, MaxPages,  \* the limits of the memory type
          GrowSizes      \* the operands of memory.grow

ASSUME MemAssumption ==
  /\ Growers \subseteq Threads
  /\ MinPages \in Nat /\ MaxPages \in Nat /\ MinPages <= MaxPages
  /\ GrowSizes \subseteq Nat

VARIABLES size_in_pages, allocated, gen,  \* struct meminst
          memlock,   \* the holder of shared_meminst.lock, or NoThread
          gpc,       \* where a thread is in memory_grow_impl
          grow,      \* its sz and orig_size
          ptr        \* the generation of the pointer a thread got, 0 if none

mem == <<size_in_pages, allocated, gen>>
mvars == <<mem, memlock, gpc, grow, ptr>>
vars == <<svars, mvars>>

GrowPCs == {"idle", "suspend", "suspending", "realloced", "failed", "resumed"}

MTypeOK ==
  /\ TypeOK
  /\ size_in_pages \in MinPages..MaxPages
  /\ allocated \in MinPages..MaxPages
  /\ gen \in 1..(MaxPages - MinPages + 1)
  /\ memlock \in Threads \cup {NoThread}
  /\ gpc \in [Threads -> GrowPCs]
  /\ grow \in [Threads -> [sz : GrowSizes \cup {0}, orig : MinPages..MaxPages]]
  /\ ptr \in [Threads -> 0..(MaxPages - MinPages + 1)]

(* memory_instance_create *)
MInit ==
  /\ Init
  /\ size_in_pages = MinPages
  /\ allocated = MinPages
  /\ gen = 1
  /\ memlock = NoThread
  /\ gpc = [t \in Threads |-> "idle"]
  /\ grow = [t \in Threads |-> [sz |-> 0, orig |-> MinPages]]
  /\ ptr = [t \in Threads |-> 0]

NewSize(t) == grow[t].orig + grow[t].sz

(* memory_grow_impl from the label retry, with the lock, to the unlock: it
   fails over the maximum, has nothing to allocate for 0 pages, and otherwise
   goes on to suspend_threads. *)
GrowRetry(t, sz) ==
  /\ grow' = [grow EXCEPT ![t] = [sz |-> sz, orig |-> size_in_pages]]
  /\ gpc' = [gpc EXCEPT ![t] =
       IF sz = 0 \/ size_in_pages + sz > MaxPages THEN "idle" ELSE "suspend"]
  /\ UNCHANGED mem

(* memory_grow_impl up to its first unlock. *)
GrowStart(t, sz) ==
  /\ pc[t] = "run" /\ gpc[t] = "idle" /\ ptr[t] = 0
  /\ memlock = NoThread
  /\ GrowRetry(t, sz)
  /\ UNCHANGED <<svars, memlock, ptr>>

(* Mutant of GrowSuspend: the other threads are not stopped. *)
GrowSuspend_None(t) ==
  /\ pc[t] = "run" /\ gpc[t] = "suspend"
  /\ Goto(t, "suspender")
  /\ gpc' = [gpc EXCEPT ![t] = "suspending"]
  /\ UNCHANGED <<cluster, waiting, joinwait, mem, memlock, grow, ptr>>

(* The call of suspend_threads, by a thread that may already have stopped the
   others: the retry does not resume them. *)
GrowSuspend(t) ==
  /\ pc[t] = "run" /\ gpc[t] = "suspend"
  /\ SuspendThreads(t)
  /\ gpc' = [gpc EXCEPT ![t] = "suspending"]
  /\ UNCHANGED <<mem, memlock, grow, ptr>>

(* Mutant of GrowRealloc: the size is not compared again. *)
GrowRealloc_NoRecheck(t) ==
  /\ pc[t] = "suspender" /\ gpc[t] = "suspending"
  /\ memlock = NoThread
  /\ memlock' = t
  /\ \/ /\ allocated' = NewSize(t)
        /\ gen' = gen + 1
        /\ gpc' = [gpc EXCEPT ![t] = "realloced"]
        /\ UNCHANGED <<size_in_pages, grow, pc>>
     \/ /\ gpc' = [gpc EXCEPT ![t] = "failed"]
        /\ UNCHANGED <<mem, grow, pc>>
  /\ UNCHANGED <<cluster, waiting, joinwait, ptr>>

(* suspend_threads returned and memory_lock is taken again: retry if the size
   has changed, with the others still stopped, otherwise extend the memory
   (mem_extend_zero may fail). *)
GrowRealloc(t) ==
  /\ pc[t] = "suspender" /\ gpc[t] = "suspending"
  /\ memlock = NoThread
  /\ \/ /\ size_in_pages # grow[t].orig
        /\ GrowRetry(t, grow[t].sz)
        /\ Goto(t, "run")
        /\ UNCHANGED memlock
     \/ /\ size_in_pages = grow[t].orig
        /\ allocated' = NewSize(t)
        /\ gen' = gen + 1
        /\ memlock' = t
        /\ gpc' = [gpc EXCEPT ![t] = "realloced"]
        /\ UNCHANGED <<size_in_pages, grow, pc>>
     \/ /\ size_in_pages = grow[t].orig
        /\ memlock' = t
        /\ gpc' = [gpc EXCEPT ![t] = "failed"]
        /\ UNCHANGED <<mem, grow, pc>>
  /\ UNCHANGED <<cluster, waiting, joinwait, ptr>>

(* Mutants of GrowResume: a failure to allocate is not noticed; and it returns
   without resuming the others. *)
GrowResume_IgnoreFailure(t) ==
  /\ gpc[t] \in {"realloced", "failed"}
  /\ ResumeThreads(t)
  /\ gpc' = [gpc EXCEPT ![t] = "resumed"]
  /\ UNCHANGED <<mem, memlock, grow, ptr>>

GrowResume_NotOnFailure(t) ==
  \/ /\ gpc[t] = "realloced"
     /\ ResumeThreads(t)
     /\ gpc' = [gpc EXCEPT ![t] = "resumed"]
     /\ UNCHANGED <<mem, memlock, grow, ptr>>
  \/ /\ gpc[t] = "failed"
     /\ Goto(t, "run")
     /\ gpc' = [gpc EXCEPT ![t] = "idle"]
     /\ memlock' = NoThread
     /\ UNCHANGED <<cluster, waiting, joinwait, mem, grow, ptr>>

(* The call of resume_threads.  The failed grow only unlocks after it. *)
GrowResume(t) ==
  /\ gpc[t] \in {"realloced", "failed"}
  /\ ResumeThreads(t)
  /\ gpc' = [gpc EXCEPT ![t] = IF @ = "realloced" THEN "resumed" ELSE "idle"]
  /\ memlock' = IF gpc[t] = "failed" THEN NoThread ELSE memlock
  /\ UNCHANGED <<mem, grow, ptr>>

(* The end of memory_grow_impl: the new size is published, the lock released. *)
GrowDone(t) ==
  /\ gpc[t] = "resumed"
  /\ size_in_pages' = NewSize(t)
  /\ memlock' = NoThread
  /\ gpc' = [gpc EXCEPT ![t] = "idle"]
  /\ UNCHANGED <<svars, allocated, gen, grow, ptr>>

(* memory_instance_getptr2 for a byte of the page `page`: a pointer into the
   present buffer, or a trap past the end.  A shared memory never extends
   here.  The pointer is used before the thread does anything else. *)
GetPtr(t, page) ==
  /\ pc[t] = "run" /\ gpc[t] = "idle" /\ ptr[t] = 0
  /\ page < allocated
  /\ ptr' = [ptr EXCEPT ![t] = gen]
  /\ UNCHANGED <<svars, mem, memlock, gpc, grow>>

GetPtrTrap(t, page) ==
  /\ gpc[t] = "idle" /\ ptr[t] = 0
  /\ page >= allocated
  /\ page + 1 > size_in_pages
  /\ PropagateTrap(t)
  /\ UNCHANGED mvars

(* The load or store through the pointer. *)
UsePtr(t) ==
  /\ ptr[t] # 0
  /\ ptr' = [ptr EXCEPT ![t] = 0]
  /\ UNCHANGED <<svars, mem, memlock, gpc, grow>>

GrowStep(t) ==
  \/ t \in Growers /\ \E sz \in GrowSizes : GrowStart(t, sz)
  \/ GrowSuspend(t)
  \/ GrowRealloc(t)
  \/ GrowResume(t)
  \/ GrowDone(t)

AccessStep(t) ==
  \/ \E page \in 0..MaxPages : GetPtr(t, page) \/ GetPtrTrap(t, page)
  \/ UsePtr(t)

(* Between two instructions: neither growing nor holding a pointer. *)
MProgramStep(t) ==
  /\ gpc[t] = "idle" /\ ptr[t] = 0
  /\ ProgramStep(t)

MCheckInterrupt(t) ==
  /\ gpc[t] = "idle" /\ ptr[t] = 0
  /\ CheckInterruptSuspend(t) \/ CheckInterruptExit(t)
  /\ UNCHANGED mvars

MNext == \E t \in Threads :
  \/ GrowStep(t)
  \/ AccessStep(t)
  \/ /\ \/ ProtocolStep(t) \/ LifeStep(t) \/ SpuriousWakeup(t) \/ MProgramStep(t)
     /\ UNCHANGED mvars

MSpec == MInit /\ [][MNext]_vars

(* The fairness of Suspend; threads in memory_grow_impl or at an access go on;
   and a thread that executes instructions for ever calls check_interrupt
   between two of them again and again. *)
MFairness == \A t \in Threads :
  /\ WF_vars(GrowSuspend(t) \/ GrowRealloc(t) \/ GrowResume(t) \/ GrowDone(t))
  /\ WF_vars(UsePtr(t))
  /\ WF_vars(ProtocolStep(t) /\ UNCHANGED mvars)
  /\ SF_vars(MCheckInterrupt(t))
  /\ WF_vars(LifeStep(t) /\ ~(pc[t] \in {"new", "done"}) /\ UNCHANGED mvars)

MFairSpec == MSpec /\ MFairness

-----------------------------------------------------------------------------
(* No thread holds a pointer into a buffer that has been reallocated: a grow
   moves the memory only while nobody is between memory_getptr and the use of
   the pointer it returned. *)
NoStalePointer == \A t \in Threads : ptr[t] # 0 => ptr[t] = gen

(* Two grows never reallocate at the same time, and neither is lost: outside
   the window of a grow that has reallocated and not yet published its size,
   the allocation is exactly the size. *)
AllocationMatchesSize ==
  /\ MTypeOK
  /\ allocated = IF \E t \in Threads : gpc[t] \in {"realloced", "resumed"}
                 THEN NewSize(CHOOSE t \in Threads : gpc[t] \in {"realloced", "resumed"})
                 ELSE size_in_pages

(* No grow is lost or applied twice: the size changes exactly when a grow that
   has reallocated publishes, from the size it returns as the old one by the
   pages it asked for. *)
SizeOnlyGrows == [][
  /\ \A t \in Threads : gpc[t] = "resumed" /\ gpc'[t] = "idle" =>
       /\ size_in_pages = grow[t].orig
       /\ size_in_pages' = size_in_pages + grow[t].sz
  /\ size_in_pages' # size_in_pages =>
       \E t \in Threads : gpc[t] = "resumed" /\ gpc'[t] = "idle"]_vars

(* A memory.grow returns if no other one is executed at the same time, whatever
   the other threads do: in particular when the reallocation fails. *)
GrowReturns == \A t \in Threads :
  [](\A u \in Threads \ {t} : gpc[u] = "idle") =>
    (gpc[t] # "idle" ~> gpc[t] = "idle")

(* suspend.c, parked(): assert(c->nrunners > c->nparked) on entry: the thread
   that stopped the others does not park itself. *)
SomebodyUnparked == Parked \cap waiting # {} => nrunners > nparked

(* memory_instance_getptr2: assert(meminst->allocated <= the size) by a thread
   that accesses the memory. *)
AccessSeesPublishedSize ==
  \A t \in Threads : ptr[t] # 0 => allocated <= size_in_pages
=============================================================================
