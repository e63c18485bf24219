----------------------------- MODULE ClientProofs -----------------------------
(***************************************************************************)
(* Proofs about the two clients of the suspend protocol, memory.grow       *)
(* (SharedMemory) and the threads of wasi-threads (WasiThreads), for any   *)
(* number of threads, any limits and any number of ids.                    *)
(*                                                                         *)
(* A grow that has to start again (the size has changed while the others   *)
(* were being stopped) leaves STOPPING behind without a thread to end it,  *)
(* so OneCoordinator does not hold with it; what does is WInv, and that is *)
(* enough for stop-the-world.  That no pointer is stale follows from it:   *)
(* a thread that holds a pointer is at an instruction (Pointers), so it    *)
(* is neither parked nor gone, and a thread that reallocates is alone.     *)
(* That no grow is lost needs the lock of the memory to be held from the   *)
(* reallocation to the publication of the size (Locking, Sizes).           *)
(*                                                                         *)
(* The threads of wasi-threads only take steps of Suspend, so its          *)
(* invariant IInv holds there.  It says what the two properties need of    *)
(* the life of the threads: a thread has its id exactly while it is live   *)
(* (Ids), and nobody is left to propagate a trap once the main thread has  *)
(* told the embedder (TrapInv, with JoinedBeforeReuse).                    *)
(***************************************************************************)
EXTENDS SharedMemory, WasiThreads, SuspendProofs, Induction, SequenceTheorems

-----------------------------------------------------------------------------
(* memory.grow of a shared memory.                                         *)

(* The places of a thread inside suspend_threads, or between it and
   resume_threads. *)
SuspendPlaces == {"sp_parked", "sp_resuming", "sp_stopping", "suspender"}

(* Where memory_grow_impl is in the protocol. *)
Places == \A t \in Threads :
  /\ gpc[t] \in {"suspend", "resumed"} => pc[t] = "run"
  /\ gpc[t] = "suspending" => pc[t] \in SuspendPlaces
  /\ gpc[t] \in {"realloced", "failed"} => pc[t] = "suspender"

(* A pointer is held only during an instruction that is not a memory.grow. *)
Pointers == \A t \in Threads :
  ptr[t] # 0 => pc[t] = "run" /\ gpc[t] = "idle" /\ ptr[t] = gen

(* The lock of the memory is held from the second memory_lock on. *)
Locking == \A t \in Threads :
  memlock = t <=> gpc[t] \in {"realloced", "failed", "resumed"}

Sizes ==
  /\ \A t \in Threads : gpc[t] # "idle" => grow[t].sz > 0 /\ NewSize(t) <= MaxPages
  /\ \A t \in Threads : gpc[t] \in {"realloced", "resumed"} =>
       size_in_pages = grow[t].orig /\ allocated = NewSize(t)
  /\ (\A t \in Threads : gpc[t] \notin {"realloced", "resumed"}) =>
       allocated = size_in_pages
  /\ gen <= allocated - MinPages + 1

MInv ==
  /\ WInv
  /\ MTypeOK
  /\ Places
  /\ Pointers
  /\ Locking
  /\ Sizes

-----------------------------------------------------------------------------
(* memory_instance_create: the invariant holds at first. *)
LEMMA MInitInv == MInit => MInv
<1> SUFFICES ASSUME MInit PROVE MInv
  OBVIOUS
<1>1. WInv
  BY InitInv DEF MInit, IInv
<1>2. MTypeOK
  BY <1>1, MemAssumption DEF MInit, MTypeOK, WInv, GrowPCs
<1>3. Places /\ Pointers /\ Locking
  BY ThreadsAssumption DEF MInit, Places, Pointers, Locking
<1>4. Sizes
  BY MemAssumption DEF MInit, Sizes
<1> QED BY <1>1, <1>2, <1>3, <1>4 DEF MInv

(* The steps of the protocol and the ends of threads take no thread away from
   an instruction, and none out of suspend_threads but to its return. *)
LEMMA ClusterFrame ==
  ASSUME TypeOK, NEW t \in Threads,
         ProtocolStep(t) \/ LifeStep(t) \/ SpuriousWakeup(t)
  PROVE  \A x \in Threads :
           /\ pc[x] = "run" => pc'[x] = "run"
           /\ pc[x] \in SuspendPlaces => pc'[x] \in SuspendPlaces
           /\ pc[x] = "suspender" => pc'[x] = "suspender"
<1>1. CASE SuspendParkedTest(t) \/ SuspendParked(t) \/ ParkedWake(t)
  BY <1>1 DEF TypeOK, SuspendParkedTest, SuspendParked, ParkedEnter, ParkedWake, Goto,
    SuspendPlaces
<1>2. CASE SpParkedWake(t) \/ SpResumingWake(t) \/ SpStoppingWake(t)
  <2>1. /\ pc[t] \in SuspendPlaces \ {"suspender"}
        /\ \E l \in SuspendPlaces : pc' = [pc EXCEPT ![t] = l]
    BY <1>2 DEF TypeOK, SpParkedWake, SpResumingWake, SpStoppingWake, SuspendThreads,
      SuspendRetry, ParkedEnter, Goto, SuspendPlaces
  <2> QED BY <2>1 DEF TypeOK, SuspendPlaces
<1>3. CASE SpawnEnd(t)
  BY <1>3 DEF TypeOK, SpawnEnd, SpawnCreate, SpawnUndo, SuspendPlaces
<1>4. CASE DoneThreadStartFunc(t)
  BY <1>4 DEF TypeOK, DoneThreadStartFunc, Goto, SuspendPlaces
<1>5. CASE SetupExecContext \/ InstanceJoin \/ ClusterJoin
  BY <1>5, ThreadsAssumption DEF TypeOK, SetupExecContext, InstanceJoin, ClusterJoin, Goto,
    SuspendPlaces
<1>6. CASE SpuriousWakeup(t)
  BY <1>6 DEF SpuriousWakeup
<1> QED BY <1>1, <1>2, <1>3, <1>4, <1>5, <1>6 DEF ProtocolStep, LifeStep

(* A step of the cluster that leaves the memory alone preserves what is said
   of the memory, if it moves only threads that neither grow nor access it. *)
LEMMA MemoryUntouched ==
  ASSUME MInv, WInv', UNCHANGED mvars,
         \A x \in Threads : ptr[x] # 0 \/ gpc[x] # "idle" =>
           /\ pc[x] = "run" => pc'[x] = "run"
           /\ pc[x] \in SuspendPlaces => pc'[x] \in SuspendPlaces
           /\ pc[x] = "suspender" => pc'[x] = "suspender"
  PROVE  MInv'
<1> UNCHANGED <<size_in_pages, allocated, gen, memlock, gpc, grow, ptr>>
  BY DEF mvars, mem
<1>1. MTypeOK'
  BY DEF MInv, MTypeOK, WInv
<1>2. Places' /\ Pointers'
  BY DEF MInv, Places, Pointers
<1>3. Locking' /\ Sizes'
  BY DEF MInv, Locking, Sizes, NewSize
<1> QED BY <1>1, <1>2, <1>3 DEF MInv

(* The start of memory_grow_impl takes and releases the lock. *)
LEMMA GrowStartInv ==
  ASSUME MInv, NEW t \in Threads, NEW sz \in GrowSizes, GrowStart(t, sz)
  PROVE  MInv'
<1>1. /\ pc[t] = "run" /\ gpc[t] = "idle" /\ ptr[t] = 0
      /\ GrowRetry(t, sz) /\ UNCHANGED <<svars, memlock, ptr>>
  BY DEF GrowStart
<1>2. WInv'
  BY <1>1, StutterInv DEF MInv, Keeps
<1>3. MTypeOK'
  BY <1>1, <1>2 DEF MInv, MTypeOK, WInv, GrowRetry, mem, GrowPCs
<1>4. Places' /\ Pointers' /\ Locking'
  BY <1>1 DEF MInv, MTypeOK, Places, Pointers, Locking, GrowRetry, mem, svars
<1>5. Sizes'
  BY <1>1, MemAssumption DEF MInv, MTypeOK, Sizes, NewSize, GrowRetry, mem
<1> QED BY <1>2, <1>3, <1>4, <1>5 DEF MInv

(* The call of suspend_threads. *)
LEMMA GrowSuspendInv ==
  ASSUME MInv, NEW t \in Threads, GrowSuspend(t)
  PROVE  MInv'
<1>1. /\ pc[t] = "run" /\ gpc[t] = "suspend" /\ SuspendThreads(t)
      /\ gpc' = [gpc EXCEPT ![t] = "suspending"]
      /\ UNCHANGED <<size_in_pages, allocated, gen, memlock, grow, ptr>>
  BY DEF GrowSuspend, mem
<1>2. WInv'
  BY <1>1, Facts, SuspendThreadsInv DEF MInv, Keeps
<1>3. PICK l \in SuspendPlaces : pc' = [pc EXCEPT ![t] = l]
  BY <1>1 DEF SuspendThreads, SuspendRetry, ParkedEnter, Goto, SuspendPlaces
<1>4. MTypeOK'
  BY <1>1, <1>2 DEF MInv, MTypeOK, WInv, GrowPCs
<1>5. Places' /\ Pointers' /\ Locking'
  BY <1>1, <1>3 DEF MInv, MTypeOK, TypeOK, Places, Pointers, Locking
<1>6. Sizes'
  BY <1>1 DEF MInv, MTypeOK, Sizes, NewSize
<1> QED BY <1>2, <1>4, <1>5, <1>6 DEF MInv

(* A grow that finds the size changed starts again: it leaves the place of the
   suspender without resuming the others. *)
LEMMA AbandonInv ==
  ASSUME WInv, NEW t \in Threads, pc[t] = "suspender", Goto(t, "run"),
         UNCHANGED <<cluster, waiting, joinwait>>
  PROVE  WInv'
<1>1. /\ pc' = [pc EXCEPT ![t] = "run"]
      /\ UNCHANGED <<nrunners, nparked, suspend_state, interrupt, waiting, joinwait>>
  BY DEF Goto, cluster
<1>2. /\ Live' = Live /\ t \in Live /\ Parked' = Parked
      /\ Coordinators' = Coordinators \ {t} /\ t \in Coordinators
  BY <1>1 DEF WInv, TypeOK, Live, Parked, Coordinators, Gone
<1>3. TypeOK'
  BY <1>1 DEF WInv, TypeOK, PCs
<1>4. CountersAgree' /\ Exclusive'
  BY <1>1, <1>2 DEF WInv, CountersAgree, Exclusive
<1>5. WorldStopped'
  <2>1. Coordinators' = {}
    BY <1>2 DEF WInv, Exclusive
  <2> QED BY <2>1 DEF WorldStopped, Coordinators
<1>6. ParkingIsNotStale' /\ NoLostWakeup'
  BY <1>1 DEF WInv, TypeOK, ParkingIsNotStale, NoLostWakeup
<1>7. JoinedBeforeReuse' /\ pc'[Main] # "starting"
  BY <1>1, <1>2, ThreadsAssumption DEF WInv, TypeOK, JoinedBeforeReuse
<1> QED BY <1>3, <1>4, <1>5, <1>6, <1>7 DEF WInv

(* With the lock taken again after suspend_threads: nobody holds a pointer,
   since all the other threads are stopped. *)
LEMMA GrowReallocInv ==
  ASSUME MInv, NEW t \in Threads, GrowRealloc(t)
  PROVE  MInv'
<1>1. /\ pc[t] = "suspender" /\ gpc[t] = "suspending" /\ memlock = NoThread
      /\ UNCHANGED <<cluster, waiting, joinwait, ptr>>
  BY DEF GrowRealloc
<1>2. \A x \in Threads : gpc[x] \notin {"realloced", "failed", "resumed"}
  BY <1>1, ThreadsAssumption DEF MInv, Locking
<1>3. allocated = size_in_pages
  BY <1>2 DEF MInv, Sizes
<1>4. \A x \in Threads : ptr[x] = 0
  <2> SUFFICES ASSUME NEW x \in Threads, ptr[x] # 0 PROVE FALSE
    OBVIOUS
  <2>1. pc[x] = "run" /\ x \in Live /\ x \notin Parked /\ x # t
    BY <1>1 DEF MInv, Pointers, Live, Parked, Gone
  <2> QED BY <1>1, <2>1 DEF MInv, WInv, WorldStopped
<1> DEFINE sz == grow[t].sz
           orig == grow[t].orig
<1>5. /\ sz \in Nat /\ sz > 0 /\ orig \in Nat /\ orig + sz <= MaxPages
      /\ gen \in Nat /\ gen <= allocated - MinPages + 1
      /\ MinPages \in Nat /\ MaxPages \in Nat /\ allocated \in MinPages..MaxPages
  <2>1. /\ sz \in GrowSizes \cup {0} /\ orig \in MinPages..MaxPages
        /\ gen \in 1..(MaxPages - MinPages + 1) /\ allocated \in MinPages..MaxPages
    BY DEF MInv, MTypeOK
  <2>2. sz > 0 /\ orig + sz <= MaxPages /\ gen <= allocated - MinPages + 1
    BY <1>1 DEF MInv, Sizes, NewSize
  <2>3. MinPages \in Nat /\ MaxPages \in Nat /\ GrowSizes \subseteq Nat
    BY MemAssumption
  <2>4. sz \in Nat
    <3>1. CASE sz \in GrowSizes
      BY <2>3, <3>1
    <3>2. CASE sz = 0
      BY <3>2
    <3> QED BY <2>1, <3>1, <3>2
  <2>5. orig \in Nat /\ gen \in Nat
    BY <2>1, <2>3
  <2> QED BY <2>1, <2>2, <2>3, <2>4, <2>5
<1>6. CASE /\ GrowRetry(t, grow[t].sz)
           /\ Goto(t, "run")
           /\ UNCHANGED memlock
  <2>1. WInv'
    BY <1>1, <1>6, AbandonInv DEF MInv
  <2>2. grow[t].sz \in GrowSizes \cup {0}
    BY DEF MInv, MTypeOK
  <2>3. MTypeOK'
    BY <1>1, <1>6, <2>1, <2>2 DEF MInv, MTypeOK, WInv, GrowRetry, mem, GrowPCs
  <2>4. Places' /\ Pointers' /\ Locking'
    BY <1>1, <1>2, <1>4, <1>6 DEF MInv, MTypeOK, TypeOK, Places, Pointers, Locking,
      GrowRetry, Goto, mem
  <2>5. Sizes'
    <3>1. /\ grow' = [grow EXCEPT ![t] = [sz |-> sz, orig |-> size_in_pages]]
          /\ gpc' = [gpc EXCEPT ![t] =
               IF sz = 0 \/ size_in_pages + sz > MaxPages THEN "idle" ELSE "suspend"]
          /\ UNCHANGED <<size_in_pages, allocated, gen>>
      BY <1>6 DEF GrowRetry, mem
    <3>2. gpc'[t] # "idle" => grow'[t].sz > 0 /\ grow'[t].orig + grow'[t].sz <= MaxPages
      BY <1>3, <1>5, <3>1 DEF MInv, MTypeOK
    <3>3. gpc'[t] \in {"idle", "suspend"}
      BY <3>1 DEF MInv, MTypeOK
    <3>4. \A x \in Threads \ {t} : gpc'[x] = gpc[x] /\ grow'[x] = grow[x]
      BY <3>1 DEF MInv, MTypeOK
    <3> QED BY <1>2, <1>3, <1>5, <3>1, <3>2, <3>3, <3>4 DEF MInv, Sizes, NewSize
  <2> QED BY <2>1, <2>3, <2>4, <2>5 DEF MInv
<1>7. CASE /\ size_in_pages = grow[t].orig
           /\ allocated' = NewSize(t)
           /\ gen' = gen + 1
           /\ memlock' = t
           /\ gpc' = [gpc EXCEPT ![t] = "realloced"]
           /\ UNCHANGED <<size_in_pages, grow, pc>>
  <2>1. WInv'
    BY <1>1, <1>7, StutterInv DEF MInv, Keeps, svars, cluster
  <2>2. /\ NewSize(t) > allocated /\ NewSize(t) <= MaxPages
        /\ NewSize(t) \in Nat /\ gen \in Nat /\ gen + 1 <= NewSize(t) - MinPages + 1
    BY <1>3, <1>7, <1>5 DEF NewSize
  <2>3. MTypeOK'
    BY <1>1, <1>7, <2>1, <2>2, MemAssumption DEF MInv, MTypeOK, WInv, GrowPCs
  <2>4. Places' /\ Pointers' /\ Locking'
    BY <1>1, <1>2, <1>4, <1>7 DEF MInv, MTypeOK, Places, Pointers, Locking
  <2>5. Sizes'
    BY <1>1, <1>2, <1>7, <2>2 DEF MInv, MTypeOK, Sizes, NewSize
  <2> QED BY <2>1, <2>3, <2>4, <2>5 DEF MInv
<1>8. CASE /\ size_in_pages = grow[t].orig
           /\ memlock' = t
           /\ gpc' = [gpc EXCEPT ![t] = "failed"]
           /\ UNCHANGED <<mem, grow, pc>>
  <2>1. WInv'
    BY <1>1, <1>8, StutterInv DEF MInv, Keeps, svars, cluster
  <2>2. MTypeOK'
    BY <1>1, <1>8, <2>1 DEF MInv, MTypeOK, WInv, GrowPCs, mem
  <2>3. Places' /\ Pointers' /\ Locking'
    BY <1>1, <1>2, <1>4, <1>8 DEF MInv, MTypeOK, Places, Pointers, Locking, mem
  <2>4. Sizes'
    BY <1>1, <1>2, <1>8 DEF MInv, MTypeOK, Sizes, NewSize, mem
  <2> QED BY <2>1, <2>2, <2>3, <2>4 DEF MInv
<1> QED BY <1>6, <1>7, <1>8 DEF GrowRealloc

(* resume_threads, and the unlock of a grow that failed. *)
LEMMA GrowResumeInv ==
  ASSUME MInv, NEW t \in Threads, GrowResume(t)
  PROVE  MInv'
<1>1. /\ gpc[t] \in {"realloced", "failed"}
      /\ ResumeThreads(t)
      /\ gpc' = [gpc EXCEPT ![t] = IF gpc[t] = "realloced" THEN "resumed" ELSE "idle"]
      /\ memlock' = IF gpc[t] = "failed" THEN NoThread ELSE memlock
      /\ UNCHANGED <<size_in_pages, allocated, gen, grow, ptr>>
  BY DEF GrowResume, mem
<1>2. WInv'
  BY <1>1, ResumeThreadsInv DEF MInv, Keeps
<1>3. pc[t] = "suspender" /\ pc' = [pc EXCEPT ![t] = "run"] /\ memlock = t
  BY <1>1 DEF ResumeThreads, Goto, MInv, Locking
<1>4. MTypeOK'
  BY <1>1, <1>2 DEF MInv, MTypeOK, WInv, GrowPCs
<1>5. Places' /\ Pointers'
  BY <1>1, <1>3 DEF MInv, MTypeOK, TypeOK, Places, Pointers
<1>6. Locking'
  BY <1>1, <1>3, ThreadsAssumption DEF MInv, MTypeOK, Locking
<1>7. Sizes'
  BY <1>1, <1>3 DEF MInv, MTypeOK, Locking, Sizes, NewSize
<1> QED BY <1>2, <1>4, <1>5, <1>6, <1>7 DEF MInv

(* The publication of the new size. *)
LEMMA GrowDoneInv ==
  ASSUME MInv, NEW t \in Threads, GrowDone(t)
  PROVE  MInv'
<1>1. /\ gpc[t] = "resumed"
      /\ size_in_pages' = NewSize(t)
      /\ memlock' = NoThread
      /\ gpc' = [gpc EXCEPT ![t] = "idle"]
      /\ UNCHANGED <<svars, allocated, gen, grow, ptr>>
  BY DEF GrowDone
<1>2. WInv'
  BY <1>1, StutterInv DEF MInv, Keeps
<1>3. memlock = t /\ allocated = NewSize(t)
  BY <1>1 DEF MInv, Locking, Sizes
<1>4. MTypeOK'
  BY <1>1, <1>2, <1>3 DEF MInv, MTypeOK, WInv, GrowPCs
<1>5. Places' /\ Pointers'
  BY <1>1 DEF MInv, MTypeOK, Places, Pointers, svars
<1>6. Locking'
  BY <1>1, <1>3, ThreadsAssumption DEF MInv, MTypeOK, Locking
<1>7. Sizes'
  BY <1>1, <1>3 DEF MInv, MTypeOK, Locking, Sizes, NewSize
<1> QED BY <1>2, <1>4, <1>5, <1>6, <1>7 DEF MInv

(* memory_instance_getptr2 and the use of its pointer. *)
LEMMA AccessInv ==
  ASSUME MInv, NEW t \in Threads, AccessStep(t)
  PROVE  MInv'
<1>1. ASSUME NEW page \in 0..MaxPages, GetPtr(t, page) PROVE MInv'
  <2>1. /\ pc[t] = "run" /\ gpc[t] = "idle"
        /\ ptr' = [ptr EXCEPT ![t] = gen]
        /\ UNCHANGED <<svars, size_in_pages, allocated, gen, memlock, gpc, grow>>
    BY <1>1 DEF GetPtr, mem
  <2>2. WInv'
    BY <2>1, StutterInv DEF MInv, Keeps
  <2>3. MTypeOK'
    BY <2>1, <2>2, MemAssumption DEF MInv, MTypeOK, WInv
  <2>4. Places' /\ Pointers' /\ Locking'
    BY <2>1 DEF MInv, MTypeOK, Places, Pointers, Locking, svars
  <2>5. Sizes'
    BY <2>1 DEF MInv, Sizes, NewSize
  <2> QED BY <2>2, <2>3, <2>4, <2>5 DEF MInv
<1>2. ASSUME NEW page \in 0..MaxPages, GetPtrTrap(t, page) PROVE MInv'
  <2>1. gpc[t] = "idle" /\ ptr[t] = 0 /\ PropagateTrap(t) /\ UNCHANGED mvars
    BY <1>2 DEF GetPtrTrap
  <2>2. WInv'
    BY <2>1, ProgramStepInv DEF MInv, Keeps, ProgramStep
  <2>3. \A x \in Threads \ {t} : pc'[x] = pc[x]
    BY <2>1 DEF PropagateTrap, Goto, MInv, WInv, TypeOK
  <2> QED BY <2>1, <2>2, <2>3, MemoryUntouched
<1>3. CASE UsePtr(t)
  <2>1. /\ ptr' = [ptr EXCEPT ![t] = 0]
        /\ UNCHANGED <<svars, size_in_pages, allocated, gen, memlock, gpc, grow>>
    BY <1>3 DEF UsePtr, mem
  <2>2. WInv'
    BY <2>1, StutterInv DEF MInv, Keeps
  <2>3. MTypeOK'
    BY <2>1, <2>2, MemAssumption DEF MInv, MTypeOK, WInv
  <2>4. Places' /\ Pointers' /\ Locking'
    BY <2>1 DEF MInv, MTypeOK, Places, Pointers, Locking, svars
  <2>5. Sizes'
    BY <2>1 DEF MInv, Sizes, NewSize
  <2> QED BY <2>2, <2>3, <2>4, <2>5 DEF MInv
<1> QED BY <1>1, <1>2, <1>3 DEF AccessStep

(* A step of the program of a thread, between two instructions. *)
LEMMA MProgramInv ==
  ASSUME MInv, NEW t \in Threads, MProgramStep(t), UNCHANGED mvars
  PROVE  MInv'
<1>1. gpc[t] = "idle" /\ ptr[t] = 0 /\ ProgramStep(t)
  BY DEF MProgramStep
<1>2. WInv'
  BY <1>1, ProgramStepInv DEF MInv, Keeps
<1>3. \A x \in Threads \ {t} : pc'[x] = pc[x] \/ pc[x] = "new"
  BY <1>1 DEF ProgramStep, SpawnAdd, CheckInterruptExit, CheckInterruptSuspend,
    CheckInterruptOther, ReturnFromExec, PropagateTrap, Goto, MInv, WInv, TypeOK
<1> QED BY <1>1, <1>2, <1>3, MemoryUntouched DEF SuspendPlaces

(* The inductive step. *)
LEMMA MNextInv == MInv /\ [MNext]_vars => MInv'
<1> SUFFICES ASSUME MInv, [MNext]_vars PROVE MInv'
  OBVIOUS
<1>1. ASSUME NEW t \in Threads, GrowStep(t) PROVE MInv'
  BY <1>1, GrowStartInv, GrowSuspendInv, GrowReallocInv, GrowResumeInv, GrowDoneInv
    DEF GrowStep
<1>2. ASSUME NEW t \in Threads, AccessStep(t) PROVE MInv'
  BY <1>2, AccessInv
<1>3. ASSUME NEW t \in Threads, ProtocolStep(t) \/ LifeStep(t) \/ SpuriousWakeup(t),
             UNCHANGED mvars
      PROVE  MInv'
  <2>1. WInv /\ TypeOK
    BY DEF MInv, WInv
  <2>2. WInv'
    BY <1>3, <2>1, ProtocolStepInv, LifeStepInv, SpuriousWakeupInv DEF Keeps
  <2> QED BY <1>3, <2>1, <2>2, ClusterFrame, MemoryUntouched
<1>4. ASSUME NEW t \in Threads, MProgramStep(t), UNCHANGED mvars PROVE MInv'
  BY <1>4, MProgramInv
<1>5. CASE UNCHANGED vars
  <2>1. UNCHANGED mvars /\ UNCHANGED svars /\ UNCHANGED pc
    BY <1>5 DEF vars, svars
  <2>2. WInv'
    BY <2>1, StutterInv DEF MInv, Keeps
  <2> QED BY <2>1, <2>2, MemoryUntouched
<1> QED BY <1>1, <1>2, <1>3, <1>4, <1>5 DEF MNext

-----------------------------------------------------------------------------
(* The invariant holds in every state of a program that grows and accesses a
   shared memory. *)
THEOREM MInvariance == MSpec => []MInv
BY MInitInv, MNextInv, PTL DEF MSpec

(* No thread ever holds a pointer into a buffer that memory_grow_impl has
   reallocated: for any number of threads that grow, load, store, spawn, exit
   and trap, also when a grow has to start again. *)
THEOREM PointersStayValid == MSpec => []NoStalePointer
<1>1. MInv => NoStalePointer
  BY DEF MInv, Pointers, NoStalePointer
<1> QED BY <1>1, MInvariance, PTL

(* The allocation is the size, except in the window of the one grow that has
   reallocated and not yet published, where it is the size that grow will
   publish; and it never exceeds the maximum of the memory type. *)
THEOREM AllocationIsSize == MSpec => []AllocationMatchesSize
<1>1. ASSUME MInv PROVE AllocationMatchesSize
  <2>1. MTypeOK
    BY <1>1 DEF MInv
  <2>2. CASE \E t \in Threads : gpc[t] \in {"realloced", "resumed"}
    <3> DEFINE c == CHOOSE t \in Threads : gpc[t] \in {"realloced", "resumed"}
    <3>1. c \in Threads /\ gpc[c] \in {"realloced", "resumed"}
      BY <2>2
    <3>2. allocated = NewSize(c)
      BY <1>1, <3>1 DEF MInv, Sizes
    <3> QED BY <2>1, <2>2, <3>2 DEF AllocationMatchesSize
  <2>3. CASE \A t \in Threads : gpc[t] \notin {"realloced", "resumed"}
    BY <1>1, <2>1, <2>3 DEF MInv, Sizes, AllocationMatchesSize
  <2> QED BY <2>2, <2>3
<1> QED BY <1>1, MInvariance, PTL

(* What one step does to the size: only the publication of a grow changes it,
   by what that grow asked for, from the size it returns as the old one. *)
LEMMA SizeStep ==
  ASSUME MInv, [MNext]_vars
  PROVE  /\ \A t \in Threads : gpc[t] = "resumed" /\ gpc'[t] = "idle" =>
              /\ size_in_pages = grow[t].orig
              /\ size_in_pages' = size_in_pages + grow[t].sz
         /\ size_in_pages' # size_in_pages =>
              \E t \in Threads : gpc[t] = "resumed" /\ gpc'[t] = "idle"
<1>1. ASSUME NEW t \in Threads, GrowDone(t)
      PROVE  /\ size_in_pages = grow[t].orig
             /\ size_in_pages' = size_in_pages + grow[t].sz
             /\ gpc[t] = "resumed" /\ gpc'[t] = "idle"
             /\ \A x \in Threads \ {t} : gpc'[x] = gpc[x]
  BY <1>1 DEF GrowDone, NewSize, MInv, MTypeOK, Sizes
<1>2. \/ \E t \in Threads : GrowDone(t)
      \/ /\ UNCHANGED size_in_pages
         /\ \A x \in Threads : gpc[x] = "resumed" => gpc'[x] = "resumed"
  <2>1. ASSUME NEW t \in Threads, NEW sz \in GrowSizes, GrowStart(t, sz)
        PROVE  /\ UNCHANGED size_in_pages
               /\ \A x \in Threads : gpc[x] = "resumed" => gpc'[x] = "resumed"
    BY <2>1 DEF GrowStart, GrowRetry, mem, MInv, MTypeOK
  <2>2. ASSUME NEW t \in Threads, GrowSuspend(t) \/ GrowRealloc(t) \/ GrowResume(t)
        PROVE  /\ UNCHANGED size_in_pages
               /\ \A x \in Threads : gpc[x] = "resumed" => gpc'[x] = "resumed"
    BY <2>2 DEF GrowSuspend, GrowRealloc, GrowRetry, GrowResume, mem, MInv, MTypeOK
  <2>3. ASSUME NEW t \in Threads, AccessStep(t)
        PROVE  UNCHANGED <<size_in_pages, gpc>>
    BY <2>3 DEF AccessStep, GetPtr, GetPtrTrap, UsePtr, mvars, mem
  <2>4. CASE UNCHANGED mvars
    BY <2>4 DEF mvars, mem
  <2>5. CASE UNCHANGED vars
    BY <2>5, <2>4 DEF vars
  <2> QED BY <2>1, <2>2, <2>3, <2>4, <2>5 DEF MNext, GrowStep
<1>3. CASE \E t \in Threads : GrowDone(t)
  <2>1. PICK t \in Threads : GrowDone(t)
    BY <1>3
  <2>2. \A x \in Threads : gpc[x] = "resumed" /\ gpc'[x] = "idle" => x = t
    BY <1>1, <2>1
  <2> QED BY <1>1, <2>1, <2>2
<1> QED BY <1>2, <1>3

(* No grow is lost or applied twice, whatever other grows are executed at the
   same time. *)
THEOREM GrowsAreExact == MSpec => SizeOnlyGrows
<1>1. MInv /\ [MNext]_vars => [
        /\ \A t \in Threads : gpc[t] = "resumed" /\ gpc'[t] = "idle" =>
             /\ size_in_pages = grow[t].orig
             /\ size_in_pages' = size_in_pages + grow[t].sz
        /\ size_in_pages' # size_in_pages =>
             \E t \in Threads : gpc[t] = "resumed" /\ gpc'[t] = "idle"]_vars
  BY SizeStep
<1> QED BY <1>1, MInvariance, PTL DEF MSpec, SizeOnlyGrows

-----------------------------------------------------------------------------
(* wasi-threads.                                                           *)

Children == Live \ {Main}

Ids ==
  /\ \A u \in Children : tid[u] \in 1..Len(tids) /\ tids[tid[u]]
  /\ \A u, v \in Children : tid[u] = tid[v] => u = v
  /\ \A i \in 1..Len(tids) : tids[i] => \E u \in Children : tid[u] = i

(* The recorded trap is the first one; and the embedder has been told nothing
   or is told that trap while no execution is going on. *)
TrapInv ==
  /\ trap = IF first = NoResult THEN "exit" ELSE first.trap
  /\ result.trap # "none" => pc[Main] = "done"
  /\ result.trap \notin {"none", "null"} => result.trap = trap

TInv ==
  /\ IInv
  /\ WTypeOK
  /\ Ids
  /\ TrapInv

-----------------------------------------------------------------------------
(* wasi_threads_instance_create: the invariant holds at first. *)
LEMMA WInitInv == WInit => TInv
<1> SUFFICES ASSUME WInit PROVE TInv
  OBVIOUS
<1>1. IInv
  BY InitInv DEF WInit
<1>2. WTypeOK
  <2>1. TypeOK
    BY <1>1 DEF IInv, WInv
  <2>2. tids \in Seq(BOOLEAN) /\ Len(tids) = 0
    BY EmptySeq DEF WInit
  <2>3. NoResult \in Results
    BY WasiThreadsAssumption DEF NoResult, Results
  <2>4. /\ tid \in [Threads -> 0..MaxTid] /\ ctxcode \in [Threads -> Codes]
        /\ ctxtrap \in [Threads -> Traps \cup {"none"}]
    BY WasiThreadsAssumption DEF WInit
  <2> QED BY <2>1, <2>2, <2>3, <2>4, WasiThreadsAssumption DEF WInit, WTypeOK, Traps
<1>3. Ids
  <2>1. Children = {} /\ Len(tids) = 0
    BY EmptySeq DEF WInit, Init, Children, Live, Gone
  <2> QED BY <2>1 DEF Ids
<1>4. TrapInv
  BY DEF WInit, TrapInv, NoResult
<1> QED BY <1>1, <1>2, <1>3, <1>4 DEF TInv

(* A step of a thread of wasi-threads is a step of the cluster, or leaves the
   cluster alone. *)
LEMMA ClusterStep == [WNext]_wvars => [Next]_svars
<1> SUFFICES ASSUME [WNext]_wvars PROVE Next \/ UNCHANGED svars
  OBVIOUS
<1>1. ASSUME NEW t \in Threads, WThread(t) PROVE Next \/ UNCHANGED svars
  <2>1. ASSUME NEW u \in Threads, Spawn(t, u) \/ Spawned(t, u) \/ SpawnFailed(t, u)
        PROVE  Next
    BY <2>1 DEF Spawn, Spawned, SpawnFailed, Next, ProgramStep, LifeStep, SpawnEnd
  <2>2. ASSUME NEW code \in Codes, ProcExit(t, code) PROVE UNCHANGED svars
    BY <2>2 DEF ProcExit
  <2>3. ASSUME NEW kind \in {"thread_exit", "error"}, Trapped(t, kind)
        PROVE  UNCHANGED svars
    BY <2>3 DEF Trapped
  <2>4. CASE Interrupt(t) \/ ExecReturns(t) \/ Propagate(t) \/ Done(t)
    BY <2>4 DEF Interrupt, ExecReturns, Propagate, Done, Next, ProgramStep, LifeStep
  <2> QED BY <1>1, <2>1, <2>2, <2>3, <2>4 DEF WThread
<1>2. CASE Setup \/ Join \/ Complete
  BY <1>2, ThreadsAssumption DEF Setup, Join, Complete, Next, LifeStep
<1>3. CASE UNCHANGED wvars
  BY <1>3 DEF wvars
<1> QED BY <1>1, <1>2, <1>3 DEF WNext

-----------------------------------------------------------------------------
(* idalloc_alloc returns a slot that is not in use, of the table or the one
   after its end. *)
LEMMA AllocIsFree ==
  ASSUME tids \in Seq(BOOLEAN)
  PROVE  /\ AllocTid \in 1..(Len(tids) + 1)
         /\ AllocTid <= Len(tids) => ~tids[AllocTid]
<1>1. Len(tids) \in Nat
  BY LenProperties
<1>2. CASE FreeSlots # {}
  <2>1. FreeSlots \in SUBSET Nat
    BY <1>1 DEF FreeSlots
  <2>2. \E i \in FreeSlots : \A j \in FreeSlots : i <= j
    BY <1>2, <2>1, SmallestElement
  <2>3. AllocTid \in FreeSlots
    BY <1>2, <2>2 DEF AllocTid
  <2> QED BY <1>1, <2>3 DEF FreeSlots
<1>3. CASE FreeSlots = {}
  BY <1>1, <1>3 DEF AllocTid
<1> QED BY <1>2, <1>3

(* A slot of a table is written, or one is added at its end. *)
LEMMA TableUpdate ==
  ASSUME NEW S, NEW s \in Seq(S), NEW e \in S, NEW i \in 1..(Len(s) + 1),
         NEW r, r = IF i <= Len(s) THEN [s EXCEPT ![i] = e] ELSE Append(s, e)
  PROVE  /\ r \in Seq(S)
         /\ Len(r) \in Nat
         /\ Len(r) >= Len(s) /\ i <= Len(r)
         /\ Len(r) = Len(s) \/ Len(r) = i
         /\ \A j \in 1..Len(r) : j # i => j \in 1..Len(s) /\ r[j] = s[j]
         /\ r[i] = e
<1>1. Len(s) \in Nat /\ i \in Nat /\ i >= 1
  BY LenProperties
<1>2. CASE i <= Len(s)
  BY <1>1, <1>2, ExceptSeq
<1>3. CASE i = Len(s) + 1
  BY <1>1, <1>3, AppendProperties
<1> QED BY <1>1, <1>2, <1>3

(* A new thread gets an id no other thread has. *)
LEMMA SpawnIds ==
  ASSUME TInv, NEW t \in Threads, NEW u \in Threads, Spawn(t, u)
  PROVE  /\ Ids'
         /\ tids' \in Seq(BOOLEAN) /\ Len(tids') <= MaxTid
         /\ tid' \in [Threads -> 0..MaxTid]
<1> DEFINE a == AllocTid
<1>1. /\ a <= MaxTid /\ tids' = TidsWith(a) /\ tid' = [tid EXCEPT ![u] = a]
      /\ pc[u] = "new" /\ u # Main /\ pc[t] = "run"
      /\ pc' = [pc EXCEPT ![t] = "spawning", ![u] = "starting"]
  BY DEF Spawn, SpawnAdd
<1>2. tids \in Seq(BOOLEAN) /\ Len(tids) <= MaxTid /\ tid \in [Threads -> 0..MaxTid]
  BY DEF TInv, WTypeOK
<1>3. a \in 1..(Len(tids) + 1) /\ (a <= Len(tids) => ~tids[a])
  BY <1>2, AllocIsFree
<1>4. Len(tids) \in Nat /\ MaxTid \in Nat
  BY <1>2, LenProperties, WasiThreadsAssumption
<1> HIDE DEF a
<1>5. /\ tids' \in Seq(BOOLEAN)
      /\ Len(tids') \in Nat
      /\ Len(tids') >= Len(tids) /\ a <= Len(tids')
      /\ Len(tids') = Len(tids) \/ Len(tids') = a
      /\ \A j \in 1..Len(tids') : j # a => j \in 1..Len(tids) /\ tids'[j] = tids[j]
      /\ tids'[a]
  <2>1. PICK B, b : B = BOOLEAN /\ b = TRUE
    OBVIOUS
  <2>2. tids' = IF a <= Len(tids) THEN [tids EXCEPT ![a] = b] ELSE Append(tids, b)
    BY <1>1, <2>1 DEF TidsWith
  <2>3. tids \in Seq(B) /\ b \in B
    BY <1>2, <2>1
  <2>4. /\ tids' \in Seq(B)
        /\ Len(tids') \in Nat
        /\ Len(tids') >= Len(tids) /\ a <= Len(tids')
        /\ Len(tids') = Len(tids) \/ Len(tids') = a
        /\ \A j \in 1..Len(tids') : j # a => j \in 1..Len(tids) /\ tids'[j] = tids[j]
        /\ tids'[a] = b
    BY <1>3, <2>2, <2>3, TableUpdate
  <2> QED BY <2>1, <2>4
<1>6. Children' = Children \cup {u} /\ u \notin Children
  BY <1>1 DEF TInv, WTypeOK, TypeOK, Children, Live, Gone
<1>7. \A v \in Children : v \in Threads /\ tid'[v] = tid[v] /\ tid[v] # a
  BY <1>1, <1>2, <1>3, <1>6 DEF TInv, Ids, Children, Live
<1>8. tid'[u] = a
  BY <1>1, <1>2
<1>9. Ids'
  <2>1. \A v \in Children' : tid'[v] \in 1..Len(tids') /\ tids'[tid'[v]]
    <3>1. tid'[u] \in 1..Len(tids') /\ tids'[tid'[u]]
      BY <1>3, <1>4, <1>5, <1>8
    <3>2. ASSUME NEW v \in Children PROVE tid'[v] \in 1..Len(tids') /\ tids'[tid'[v]]
      <4>1. tid[v] \in 1..Len(tids) /\ tids[tid[v]]
        BY DEF TInv, Ids
      <4>2. tid[v] \in 1..Len(tids')
        BY <4>1, <1>4, <1>5
      <4> QED BY <4>1, <4>2, <1>5, <1>7
    <3> QED BY <1>6, <3>1, <3>2
  <2>2. \A v, w \in Children' : tid'[v] = tid'[w] => v = w
    BY <1>6, <1>7, <1>8 DEF TInv, Ids
  <2>3. ASSUME NEW i \in 1..Len(tids'), tids'[i]
        PROVE  \E v \in Children' : tid'[v] = i
    <3>1. CASE i = a
      BY <1>6, <1>8, <3>1
    <3>2. CASE i # a
      <4>1. i \in 1..Len(tids) /\ tids[i]
        BY <1>5, <2>3, <3>2
      <4>2. PICK v \in Children : tid[v] = i
        BY <4>1 DEF TInv, Ids
      <4> QED BY <1>6, <1>7, <4>2
    <3> QED BY <3>1, <3>2
  <2> QED BY <2>1, <2>2, <2>3 DEF Ids
<1>10. Len(tids') <= MaxTid
  BY <1>1, <1>2, <1>4, <1>5
<1>11. a \in 0..MaxTid
  BY <1>1, <1>3, <1>4
<1>12. tid' \in [Threads -> 0..MaxTid]
  BY <1>1, <1>2, <1>11
<1> QED BY <1>5, <1>9, <1>10, <1>12

(* A thread that ends, or was never created, gives its id back. *)
LEMMA FreeIds ==
  ASSUME TInv, NEW u \in Children, Children' = Children \ {u}, FreeTid(u)
  PROVE  /\ Ids'
         /\ tids' \in Seq(BOOLEAN) /\ Len(tids') <= MaxTid
         /\ tid' \in [Threads -> 0..MaxTid]
<1>1. tids' = [tids EXCEPT ![tid[u]] = FALSE] /\ tid' = [tid EXCEPT ![u] = 0]
  BY DEF FreeTid
<1>2. /\ tids \in Seq(BOOLEAN) /\ Len(tids) <= MaxTid /\ tid \in [Threads -> 0..MaxTid]
      /\ u \in Threads /\ tid[u] \in 1..Len(tids)
  BY DEF TInv, WTypeOK, Ids, Children, Live
<1>3. /\ tids' \in Seq(BOOLEAN) /\ Len(tids') = Len(tids)
      /\ \A j \in 1..Len(tids) : tids'[j] = IF j = tid[u] THEN FALSE ELSE tids[j]
  <2>1. PICK B, b : B = BOOLEAN /\ b = FALSE
    OBVIOUS
  <2>2. Len(tids) \in Nat /\ tid[u] \in 1..(Len(tids) + 1) /\ tid[u] <= Len(tids)
    BY <1>2, LenProperties
  <2>3. tids' = IF tid[u] <= Len(tids) THEN [tids EXCEPT ![tid[u]] = b] ELSE Append(tids, b)
    BY <1>1, <2>1, <2>2
  <2>4. tids \in Seq(B) /\ b \in B
    BY <1>2, <2>1
  <2>5. /\ tids' \in Seq(B)
        /\ Len(tids') \in Nat
        /\ Len(tids') >= Len(tids) /\ tid[u] <= Len(tids')
        /\ Len(tids') = Len(tids) \/ Len(tids') = tid[u]
        /\ \A j \in 1..Len(tids') : j # tid[u] => j \in 1..Len(tids) /\ tids'[j] = tids[j]
        /\ tids'[tid[u]] = b
    BY <2>2, <2>3, <2>4, TableUpdate
  <2>6. Len(tids') = Len(tids)
    BY <2>2, <2>5
  <2> QED BY <2>1, <2>5, <2>6
<1>4. \A v \in Children' : v \in Children /\ tid'[v] = tid[v] /\ tid[v] # tid[u]
  BY <1>1, <1>2 DEF TInv, Ids, Children, Live
<1>5. Ids'
  <2>1. \A v \in Children' : tid'[v] \in 1..Len(tids') /\ tids'[tid'[v]]
    BY <1>3, <1>4 DEF TInv, Ids
  <2>2. \A v, w \in Children' : tid'[v] = tid'[w] => v = w
    BY <1>4 DEF TInv, Ids
  <2>3. ASSUME NEW i \in 1..Len(tids'), tids'[i]
        PROVE  \E v \in Children' : tid'[v] = i
    <3>1. i \in 1..Len(tids) /\ tids[i] /\ i # tid[u]
      BY <1>3, <2>3
    <3>2. PICK v \in Children : tid[v] = i
      BY <3>1 DEF TInv, Ids
    <3> QED BY <1>4, <3>1, <3>2
  <2> QED BY <2>1, <2>2, <2>3 DEF Ids
<1>6. tid' \in [Threads -> 0..MaxTid]
  <2>1. 0 \in 0..MaxTid
    BY WasiThreadsAssumption
  <2> QED BY <1>1, <1>2, <2>1
<1> QED BY <1>2, <1>3, <1>5, <1>6

(* The other steps leave the ids, and the set of the threads that have one,
   alone. *)
LEMMA SameIds ==
  ASSUME TInv, Children' = Children, UNCHANGED idvars
  PROVE  /\ Ids'
         /\ tids' \in Seq(BOOLEAN) /\ Len(tids') <= MaxTid
         /\ tid' \in [Threads -> 0..MaxTid]
BY DEF TInv, Ids, WTypeOK, idvars

-----------------------------------------------------------------------------
(* The ids over one step. *)
LEMMA IdStep ==
  ASSUME TInv, [WNext]_wvars
  PROVE  /\ Ids'
         /\ tids' \in Seq(BOOLEAN) /\ Len(tids') <= MaxTid
         /\ tid' \in [Threads -> 0..MaxTid]
<1> DEFINE Good == /\ Ids'
                   /\ tids' \in Seq(BOOLEAN) /\ Len(tids') <= MaxTid
                   /\ tid' \in [Threads -> 0..MaxTid]
<1> SUFFICES Good
  OBVIOUS
<1> pc \in [Threads -> PCs] /\ Main \in Threads
  BY ThreadsAssumption DEF TInv, WTypeOK, TypeOK
<1>1. ASSUME NEW t \in Threads, NEW u \in Threads, Spawn(t, u) PROVE Good
  BY <1>1, SpawnIds
<1>2. ASSUME NEW t \in Threads, NEW u \in Threads, Spawned(t, u) PROVE Good
  <2>1. Children' = Children
    BY <1>2 DEF Spawned, SpawnCreate, Children, Live, Gone
  <2> QED BY <1>2, <2>1, SameIds DEF Spawned
<1>3. ASSUME NEW t \in Threads, NEW u \in Threads, SpawnFailed(t, u) PROVE Good
  <2>1. u \in Children /\ Children' = Children \ {u}
    BY <1>3 DEF SpawnFailed, SpawnUndo, Children, Live, Gone, TInv, IInv, WInv
  <2> QED BY <1>3, <2>1, FreeIds DEF SpawnFailed
<1>4. ASSUME NEW t \in Threads, NEW code \in Codes, ProcExit(t, code) PROVE Good
  <2>1. Children' = Children
    BY <1>4 DEF ProcExit, svars, Children, Live, Gone
  <2> QED BY <1>4, <2>1, SameIds DEF ProcExit
<1>5. ASSUME NEW t \in Threads, NEW kind \in {"thread_exit", "error"}, Trapped(t, kind)
      PROVE  Good
  <2>1. Children' = Children
    BY <1>5 DEF Trapped, svars, Children, Live, Gone
  <2> QED BY <1>5, <2>1, SameIds DEF Trapped
<1>6. ASSUME NEW t \in Threads, Interrupt(t) \/ ExecReturns(t) \/ Propagate(t) PROVE Good
  <2>1. Children' = Children
    BY <1>6 DEF Interrupt, ExecReturns, Propagate, CheckInterruptExit, ReturnFromExec,
      PropagateTrap, Goto, Children, Live, Gone
  <2>2. UNCHANGED idvars
    BY <1>6 DEF Interrupt, ExecReturns, Propagate
  <2> QED BY <2>1, <2>2, SameIds
<1>7. ASSUME NEW t \in Threads, Done(t) PROVE Good
  <2>1. t \in Children /\ Children' = Children \ {t}
    BY <1>7 DEF Done, DoneThreadStartFunc, Goto, Children, Live, Gone
  <2> QED BY <1>7, <2>1, FreeIds DEF Done
<1>8. CASE Setup \/ Join \/ Complete
  <2>1. Children' = Children
    BY <1>8 DEF Setup, Join, Complete, SetupExecContext, InstanceJoin, ClusterJoin, Goto,
      Children, Live, Gone
  <2>2. UNCHANGED idvars
    BY <1>8 DEF Setup, Join, Complete
  <2> QED BY <2>1, <2>2, SameIds
<1>9. CASE UNCHANGED wvars
  <2>1. Children' = Children /\ UNCHANGED idvars
    BY <1>9 DEF wvars, svars, Children, Live
  <2> QED BY <2>1, SameIds
<1> QED BY <1>1, <1>2, <1>3, <1>4, <1>5, <1>6, <1>7, <1>8, <1>9 DEF WNext, WThread

(* The types of what wasi_threads.c and wasi_abi_proc.c keep of the traps. *)
TrapTypes ==
  /\ trap \in Traps
  /\ exit_code \in Codes
  /\ ctxtrap \in [Threads -> Traps \cup {"none"}]
  /\ ctxcode \in [Threads -> Codes]
  /\ result \in Results /\ first \in Results
  /\ explicit \subseteq Codes

(* The traps over one step. *)
LEMMA TrapStep ==
  ASSUME TInv, [WNext]_wvars
  PROVE  TrapInv' /\ TrapTypes'
<1> DEFINE Good == TrapInv' /\ TrapTypes'
<1> SUFFICES Good
  OBVIOUS
<1>1. TrapInv /\ TrapTypes /\ 0 \in Codes /\ NoResult \in Results
  BY WasiThreadsAssumption DEF TInv, WTypeOK, TrapTypes, NoResult, Results
<1>2. pc \in [Threads -> PCs] /\ Main \in Threads
  BY ThreadsAssumption DEF TInv, WTypeOK, TypeOK
<1>3. ASSUME UNCHANGED trapvars, pc[Main] = "done" => pc'[Main] = "done" PROVE Good
  BY <1>1, <1>3 DEF TrapInv, TrapTypes, trapvars
<1>4. ASSUME NEW t \in Threads, NEW u \in Threads,
             Spawn(t, u) \/ Spawned(t, u) \/ SpawnFailed(t, u)
      PROVE  Good
  <2>1. pc[Main] = "done" => pc'[Main] = "done"
    BY <1>2, <1>4 DEF Spawn, Spawned, SpawnFailed, SpawnAdd, SpawnCreate, SpawnUndo
  <2> QED BY <1>3, <1>4, <2>1 DEF Spawn, Spawned, SpawnFailed
<1>5. ASSUME NEW t \in Threads, NEW code \in Codes, ProcExit(t, code) PROVE Good
  BY <1>1, <1>5 DEF ProcExit, TrapInv, TrapTypes, Traps, svars
<1>6. ASSUME NEW t \in Threads, NEW kind \in {"thread_exit", "error"}, Trapped(t, kind)
      PROVE  Good
  BY <1>1, <1>6 DEF Trapped, TrapInv, TrapTypes, Traps, svars
<1>7. ASSUME NEW t \in Threads, Interrupt(t) PROVE Good
  BY <1>1, <1>2, <1>7 DEF Interrupt, CheckInterruptExit, Goto, TrapInv, TrapTypes, Traps
<1>8. ASSUME NEW t \in Threads, ExecReturns(t) PROVE Good
  <2>1. pc[Main] = "done" => pc'[Main] = "done"
    BY <1>2, <1>8 DEF ExecReturns, ReturnFromExec, Goto
  <2> QED BY <1>3, <1>8, <2>1 DEF ExecReturns
<1>9. ASSUME NEW t \in Threads, Propagate(t) PROVE Good
  <2>1. pc[t] = "run" /\ pc' = [pc EXCEPT ![t] = "exiting"]
    BY <1>9 DEF Propagate, PropagateTrap, Goto
  <2>2. pc[Main] # "done"
    BY <2>1 DEF TInv, IInv, WInv, JoinedBeforeReuse, Live, Gone
  <2>3. /\ result.trap = "none"
        /\ UNCHANGED <<exit_code, ctxtrap, ctxcode, result, explicit>>
    BY <1>1, <1>9, <2>2 DEF TrapInv, Propagate
  <2>4. CASE interrupt
    BY <1>1, <1>9, <2>3, <2>4 DEF Propagate, TrapInv, TrapTypes
  <2>5. CASE ~interrupt
    <3>1. /\ trap' = ctxtrap[t] /\ ctxtrap[t] \in {"exit", "error"}
          /\ first' = [trap |-> ctxtrap[t], code |-> ctxcode[t]]
      BY <1>9, <2>5 DEF Propagate
    <3>2. first' # NoResult /\ first'.trap = trap' /\ first' \in Results /\ trap' \in Traps
      BY <1>1, <3>1 DEF NoResult, Results, Traps, TrapTypes
    <3> QED BY <1>1, <2>3, <3>2 DEF TrapInv, TrapTypes
  <2> QED BY <2>4, <2>5
<1>10. ASSUME NEW t \in Threads, Done(t) PROVE Good
  <2>1. pc[Main] = "done" => pc'[Main] = "done"
    BY <1>2, <1>10 DEF Done, DoneThreadStartFunc, Goto
  <2> QED BY <1>3, <1>10, <2>1 DEF Done
<1>11. CASE Setup
  <2>1. /\ trap' = "exit" /\ first' = NoResult /\ result' = NoResult /\ explicit' = {}
        /\ ctxtrap' = [ctxtrap EXCEPT ![Main] = "none"]
        /\ ctxcode' = [ctxcode EXCEPT ![Main] = 0]
        /\ UNCHANGED exit_code
    BY <1>11 DEF Setup
  <2>2. TrapInv'
    BY <2>1 DEF TrapInv, NoResult
  <2>3. TrapTypes'
    BY <1>1, <2>1 DEF TrapTypes, Traps
  <2> QED BY <2>2, <2>3
<1>12. CASE Join
  <2>1. pc[Main] = "done" => pc'[Main] = "done"
    BY <1>2, <1>12 DEF Join, InstanceJoin
  <2> QED BY <1>3, <1>12, <2>1 DEF Join
<1>13. CASE Complete
  <2>1. /\ pc[Main] = "joining"
        /\ UNCHANGED <<trap, exit_code, ctxtrap, ctxcode, first, explicit>>
        /\ result' = IF pc'[Main] # "done" THEN result
                     ELSE IF ctxtrap[Main] = "none" THEN [trap |-> "null", code |-> 0]
                     ELSE [trap |-> trap, code |-> IF trap = "exit" THEN exit_code ELSE 0]
    BY <1>13 DEF Complete, ClusterJoin
  <2>2. CASE pc'[Main] # "done"
    BY <1>1, <2>1, <2>2 DEF TrapInv, TrapTypes
  <2>3. CASE pc'[Main] = "done"
    <3>1. result' \in Results /\ result'.trap \in {"null", trap}
      BY <1>1, <2>1, <2>3 DEF Results, TrapTypes, Traps
    <3> QED BY <1>1, <2>1, <2>3, <3>1 DEF TrapInv, TrapTypes
  <2> QED BY <2>2, <2>3
<1>14. CASE UNCHANGED wvars
  BY <1>3, <1>14 DEF wvars, svars
<1> QED BY <1>4, <1>5, <1>6, <1>7, <1>8, <1>9, <1>10, <1>11, <1>12, <1>13, <1>14
  DEF WNext, WThread

(* The inductive step. *)
LEMMA WNextInv == TInv /\ [WNext]_wvars => TInv'
<1> SUFFICES ASSUME TInv, [WNext]_wvars PROVE TInv'
  OBVIOUS
<1>1. IInv'
  BY ClusterStep, NextInv DEF TInv
<1>2. Ids' /\ tids' \in Seq(BOOLEAN) /\ Len(tids') <= MaxTid /\ tid' \in [Threads -> 0..MaxTid]
  BY IdStep
<1>3. TrapInv' /\ TrapTypes'
  BY TrapStep
<1>4. WTypeOK'
  BY <1>1, <1>2, <1>3 DEF IInv, WInv, WTypeOK, TrapTypes
<1> QED BY <1>1, <1>2, <1>3, <1>4 DEF TInv

-----------------------------------------------------------------------------
(* The invariant holds in every state of a program that spawns threads. *)
THEOREM WInvariance == WSpec => []TInv
BY WInitInv, WNextInv, PTL DEF WSpec

(* idalloc and the threads agree: the ids in use are exactly those of the
   threads that are counted in the cluster, and no two of them share one, for
   any number of threads and ids, also when pthread_create fails. *)
THEOREM TidsAreExact == WSpec => []TidsMatchThreads
<1>1. TInv => TidsMatchThreads
  BY DEF TInv, Ids, Children, TidsMatchThreads
<1> QED BY <1>1, WInvariance, PTL

(* wasi_threads_complete_exec replaces the trap of the main thread by the first
   one propagated in this execution, however many threads trap at once. *)
THEOREM FirstTrapIsReported == WSpec => []ResultIsFirstTrap
<1>1. TInv => ResultIsFirstTrap
  BY DEF TInv, TrapInv, ResultIsFirstTrap
<1> QED BY <1>1, WInvariance, PTL

=============================================================================
