---------------------------- MODULE SuspendProofs ----------------------------
(***************************************************************************)
(* Proofs about Suspend for any number of threads.                         *)
(*                                                                         *)
(* None of the safety properties is inductive alone: that the suspender is *)
(* alone (WorldStopped) follows from its test of the counters only if the  *)
(* counters agree with where the threads are (CountersAgree), which a      *)
(* thread leaving parked() preserves only if nobody else has asked for a   *)
(* suspend meanwhile (OneCoordinator), and so on.  IInv is their           *)
(* conjunction; with the fact that the main thread is never one being      *)
(* spawned it is inductive.                                                *)
(*                                                                         *)
(* One half of OneCoordinator, that STOPPING has a thread to end it, is a  *)
(* matter of the client: it holds if every suspend_threads is followed by  *)
(* resume_threads.  The lemmas about the steps of the cluster need WInv,   *)
(* the invariant without that half, and preserve both: they serve clients  *)
(* that keep to this and clients that do not (ClientProofs).               *)
(***************************************************************************)
EXTENDS Suspend, TLAPS, FiniteSetTheorems

(* At most one thread has asked for the others to stop, and the state is
   STOPPING while it has: the half of OneCoordinator that does not depend on
   what the clients of suspend_threads do. *)
Exclusive ==
  /\ Coordinators # {} => suspend_state = "STOPPING"
  /\ \A t, u \in Coordinators : t = u

WInv ==
  /\ TypeOK
  /\ CountersAgree
  /\ Exclusive
  /\ WorldStopped
  /\ ParkingIsNotStale
  /\ NoLostWakeup
  /\ JoinedBeforeReuse
  /\ pc[Main] # "starting"

IInv == WInv /\ OneCoordinator

(* What every step of the cluster does, whoever its client is. *)
Keeps == WInv' /\ (OneCoordinator => OneCoordinator')

(* The places of a thread that is counted in nrunners and takes no part in a
   suspend. *)
Plain == {"starting", "run", "spawning", "restart", "parking", "exiting"}

-----------------------------------------------------------------------------
(* Sets of threads are finite, and the parked threads are among the live
   ones. *)
LEMMA Sets ==
  /\ IsFiniteSet(Live) /\ IsFiniteSet(Parked)
  /\ Parked \subseteq Live /\ Live \subseteq Threads
  /\ Cardinality(Live) \in Nat /\ Cardinality(Parked) \in Nat
<1>1. Live \subseteq Threads /\ Parked \subseteq Live
  BY DEF Live, Parked, Gone
<1>2. IsFiniteSet(Live) /\ IsFiniteSet(Parked)
  BY <1>1, ThreadsAssumption, FS_Subset
<1> QED BY <1>1, <1>2, FS_CardinalityType

(* What one thread more or less does to the size of a finite set. *)
LEMMA OneMore ==
  ASSUME NEW S, IsFiniteSet(S), NEW x, x \notin S
  PROVE  Cardinality(S \cup {x}) = Cardinality(S) + 1
BY FS_AddElement

(* What one thread less does to it. *)
LEMMA OneLess ==
  ASSUME NEW S, IsFiniteSet(S), NEW x, x \in S
  PROVE  Cardinality(S \ {x}) = Cardinality(S) - 1
BY FS_RemoveElement

(* A thread that is live and not parked is not among the nparked. *)
LEMMA Room ==
  ASSUME CountersAgree, NEW t \in Live \ Parked
  PROVE  nparked + 1 <= nrunners
<1>1. Cardinality(Parked \cup {t}) = Cardinality(Parked) + 1
  BY Sets, OneMore
<1>2. Cardinality(Parked \cup {t}) <= Cardinality(Live)
  BY Sets, FS_Subset
<1> QED BY <1>1, <1>2 DEF CountersAgree

(* The test of suspend_threads: if all but t are parked according to the
   counters then they really are. *)
LEMMA AllParked ==
  ASSUME CountersAgree, NEW t \in Live \ Parked, nrunners = nparked + 1
  PROVE  Live \ {t} = Parked
<1>1. Cardinality(Live \ {t}) = Cardinality(Live) - 1
  BY Sets, OneLess
<1>2. Parked \subseteq Live \ {t} /\ IsFiniteSet(Live \ {t})
  BY Sets, FS_Subset
<1>3. Cardinality(Parked) = Cardinality(Live \ {t})
  BY <1>1, Sets DEF CountersAgree
<1> QED BY <1>2, <1>3, FS_Subset

-----------------------------------------------------------------------------
(* The initial state. *)
LEMMA InitInv == Init => IInv
<1> SUFFICES ASSUME Init PROVE IInv
  OBVIOUS
<1>1. Live = {} /\ Parked = {} /\ Coordinators = {}
  BY DEF Init, Live, Parked, Coordinators, Gone
<1>2. Cardinality({}) = 0
  BY FS_EmptySet
<1> QED BY <1>1, <1>2, ThreadsAssumption
  DEF IInv, WInv, Init, TypeOK, PCs, SuspendStates, CountersAgree, OneCoordinator, Exclusive,
      WorldStopped, ParkingIsNotStale, NoLostWakeup, JoinedBeforeReuse

-----------------------------------------------------------------------------
(* Threads that move among the plain places preserve the invariant, whatever
   they do to the interrupt flag. *)
LEMMA PlainMove ==
  ASSUME WInv,
         pc' \in [Threads -> PCs],
         \A x \in Threads : pc'[x] # pc[x] =>
           /\ pc[x] \in Plain /\ pc'[x] \in Plain \ {"starting"}
           /\ pc'[x] = "parking" => suspend_state = "STOPPING",
         interrupt' \in BOOLEAN,
         UNCHANGED <<nrunners, nparked, suspend_state, waiting, joinwait>>
  PROVE  Keeps
<1>1. Live' = Live /\ Parked' = Parked /\ Coordinators' = Coordinators
  BY DEF Live, Parked, Coordinators, Plain, Gone
<1>2. TypeOK'
  BY DEF WInv, TypeOK
<1>3. CountersAgree'
  BY <1>1 DEF WInv, CountersAgree
<1>4. Exclusive' /\ (OneCoordinator => OneCoordinator')
  BY <1>1 DEF WInv, OneCoordinator, Exclusive
<1>5. WorldStopped'
  BY <1>1 DEF WInv, WorldStopped, Plain
<1>6. ParkingIsNotStale'
  BY DEF WInv, ParkingIsNotStale
<1>7. NoLostWakeup'
  BY DEF WInv, NoLostWakeup, TypeOK, Plain
<1>8. JoinedBeforeReuse' /\ pc'[Main] # "starting"
  BY <1>1, ThreadsAssumption DEF WInv, JoinedBeforeReuse, Plain
<1> QED BY <1>2, <1>3, <1>4, <1>5, <1>6, <1>7, <1>8 DEF WInv, Keeps

(* A thread that enters the cluster.  Nobody is the suspender then: the thread
   that counts the new one is live and not parked, and the main thread enters
   an empty cluster. *)
LEMMA Enter ==
  ASSUME WInv, NEW u \in Threads,
         pc[u] \in Gone, pc'[u] \in {"starting", "run"},
         u = Main => pc'[u] = "run" /\ pc[u] \in {"new", "done"},
         u # Main => \E x \in Threads : pc[x] = "run",
         pc' \in [Threads -> PCs],
         \A x \in Threads \ {u} : pc'[x] # pc[x] =>
           pc[x] \in Plain /\ pc'[x] \in Plain \ {"starting", "parking"},
         ClusterAddThread, interrupt' \in BOOLEAN,
         UNCHANGED <<nparked, suspend_state, waiting, joinwait>>
  PROVE  Keeps
<1>1. Live' = Live \cup {u} /\ u \notin Live
  BY DEF Live, Gone, Plain
<1>2. Parked' = Parked /\ Coordinators' = Coordinators
  BY DEF Parked, Coordinators, Gone, Plain
<1>3. TypeOK'
  BY DEF WInv, TypeOK, ClusterAddThread
<1>4. CountersAgree'
  <2>1. Cardinality(Live') = Cardinality(Live) + 1
    BY <1>1, Sets, OneMore
  <2> QED BY <2>1, <1>2 DEF WInv, CountersAgree, ClusterAddThread
<1>5. Exclusive' /\ (OneCoordinator => OneCoordinator')
  BY <1>2 DEF WInv, OneCoordinator, Exclusive
<1>6. WorldStopped'
  <2>1. \A t \in Threads : pc[t] # "suspender"
    <3>1. CASE u = Main
      BY <3>1 DEF WInv, JoinedBeforeReuse, Live, Gone
    <3>2. CASE u # Main
      <4>1. PICK x \in Threads : pc[x] = "run"
        BY <3>2
      <4> QED BY <4>1 DEF WInv, WorldStopped, Live, Gone, Parked
    <3> QED BY <3>1, <3>2
  <2>2. \A t \in Threads : pc'[t] # "suspender"
    BY <2>1 DEF Plain
  <2> QED BY <2>2 DEF WorldStopped
<1>7. ParkingIsNotStale'
  BY DEF WInv, ParkingIsNotStale, Gone
<1>8. NoLostWakeup'
  <2> SUFFICES ASSUME NEW t \in waiting
               PROVE  /\ pc'[t] = pc[t]
                      /\ pc[t] = "sp_stopping" => nrunners + 1 # nparked + 1
    BY DEF WInv, NoLostWakeup, ClusterAddThread
  <2>1. t \in Threads /\ pc[t] \in {"parked", "sp_parked", "sp_resuming", "sp_stopping"}
    BY DEF WInv, NoLostWakeup, TypeOK
  <2>2. pc'[t] = pc[t]
    BY <2>1 DEF Gone, Plain
  <2>3. ASSUME pc[t] = "sp_stopping" PROVE nparked + 1 <= nrunners
    BY <2>1, <2>3, Room DEF Live, Parked, Gone, WInv
  <2> QED BY <2>2, <2>3 DEF WInv, TypeOK
<1>9. JoinedBeforeReuse' /\ pc'[Main] # "starting"
  BY ThreadsAssumption DEF WInv, JoinedBeforeReuse, Plain, Live, Gone
<1> QED BY <1>3, <1>4, <1>5, <1>6, <1>7, <1>8, <1>9 DEF WInv, Keeps

(* A thread that leaves the cluster by cluster_remove_thread.  It is plain, so
   nobody is the suspender. *)
LEMMA Leave ==
  ASSUME WInv, NEW u \in Threads,
         pc[u] \in Plain, pc'[u] \in Gone,
         u = Main => pc'[u] = "joining",
         pc' \in [Threads -> PCs],
         \A x \in Threads \ {u} : pc'[x] # pc[x] =>
           pc[x] \in Plain /\ pc'[x] \in Plain \ {"starting", "parking"},
         ClusterRemoveThread, interrupt' \in BOOLEAN,
         UNCHANGED <<nparked, suspend_state>>
  PROVE  Keeps
<1>1. Live' = Live \ {u} /\ u \in Live /\ u \notin Parked
  BY DEF Live, Parked, Gone, Plain
<1>2. Parked' = Parked /\ Coordinators' = Coordinators
  BY DEF Parked, Coordinators, Gone, Plain
<1>3. Cardinality(Live') = Cardinality(Live) - 1
  BY <1>1, Sets, OneLess
<1>4. CountersAgree'
  BY <1>2, <1>3 DEF WInv, CountersAgree, ClusterRemoveThread
<1>5. TypeOK'
  <2>1. nrunners' \in Nat
    BY <1>1, Room DEF WInv, TypeOK, ClusterRemoveThread
  <2>2. waiting' \subseteq Threads /\ joinwait' \in BOOLEAN
    BY DEF WInv, TypeOK, ClusterRemoveThread
  <2> QED BY <2>1, <2>2 DEF WInv, TypeOK
<1>6. Exclusive' /\ (OneCoordinator => OneCoordinator')
  BY <1>2 DEF WInv, OneCoordinator, Exclusive
<1>7. WorldStopped'
  <2>1. \A t \in Threads : pc[t] # "suspender"
    BY <1>1 DEF WInv, WorldStopped, Plain
  <2> QED BY <2>1 DEF WorldStopped, Plain, Gone
<1>8. ParkingIsNotStale'
  BY DEF WInv, ParkingIsNotStale, Gone
<1>9. NoLostWakeup'
  <2>1. \A t \in waiting : pc'[t] = pc[t]
    BY DEF WInv, NoLostWakeup, TypeOK, Plain
  <2>2. \A t \in waiting : pc[t] = "sp_stopping" => suspend_state = "STOPPING"
    BY DEF WInv, Exclusive, Coordinators, TypeOK
  <2> QED BY <2>1, <2>2 DEF WInv, NoLostWakeup, ClusterRemoveThread
<1>10. JoinedBeforeReuse' /\ pc'[Main] # "starting"
  BY <1>1, ThreadsAssumption DEF WInv, JoinedBeforeReuse, Plain, Gone
<1> QED BY <1>4, <1>5, <1>6, <1>7, <1>8, <1>9, <1>10 DEF WInv, Keeps

-----------------------------------------------------------------------------
(* Facts about a state of the invariant that the steps of the protocol use. *)
LEMMA Facts ==
  ASSUME WInv
  PROVE  /\ \A t \in waiting : pc[t] \in {"parked", "sp_parked", "sp_resuming", "sp_stopping"}
         /\ suspend_state = "NONE" => waiting = {}
         /\ suspend_state # "STOPPING" => Coordinators = {}
         /\ \A t \in Parked : suspend_state # "NONE" /\ nparked - 1 \in Nat
<1>1. \A t \in waiting : pc[t] \in {"parked", "sp_parked", "sp_resuming", "sp_stopping"}
  BY DEF WInv, NoLostWakeup
<1>2. suspend_state # "STOPPING" => Coordinators = {}
  BY DEF WInv, Exclusive
<1>3. suspend_state = "NONE" => waiting = {}
  BY <1>2 DEF WInv, NoLostWakeup, Coordinators, TypeOK
<1>4. ASSUME NEW t \in Parked
      PROVE  suspend_state # "NONE" /\ nparked - 1 \in Nat
  <2>1. suspend_state # "NONE"
    BY <1>4 DEF WInv, CountersAgree
  <2>2. Cardinality(Parked \ {t}) = Cardinality(Parked) - 1
    BY <1>4, Sets, OneLess
  <2>3. Cardinality(Parked \ {t}) \in Nat
    BY Sets, FS_Subset, FS_CardinalityType
  <2> QED BY <2>1, <2>2, <2>3 DEF WInv, CountersAgree
<1> QED BY <1>1, <1>2, <1>3, <1>4

(* parked() up to its first wait.  The coordinator is another thread, which is
   not the suspender yet. *)
LEMMA Park ==
  ASSUME WInv, NEW t \in Threads, NEW l \in {"parked", "sp_parked"},
         pc[t] \in {"parking", "run", "sp_resuming"},
         t \notin waiting,
         suspend_state = "STOPPING",
         ParkedEnter(t, l, nparked, waiting),
         UNCHANGED <<nrunners, interrupt, joinwait>>
  PROVE  Keeps
<1>1. pc' = [pc EXCEPT ![t] = l] /\ UNCHANGED suspend_state
  BY DEF ParkedEnter, Goto
<1>2. /\ Live' = Live /\ t \in Live
      /\ Parked' = Parked \cup {t} /\ t \notin Parked
      /\ Coordinators' = Coordinators
  BY <1>1 DEF WInv, TypeOK, Live, Parked, Coordinators, Gone
<1>3. Cardinality(Parked') = nparked + 1
  BY <1>2, Sets, OneMore DEF WInv, CountersAgree
<1>4. TypeOK'
  BY <1>1 DEF WInv, TypeOK, ParkedEnter, PCs
<1>5. CountersAgree'
  BY <1>1, <1>2, <1>3 DEF WInv, CountersAgree, ParkedEnter
<1>6. Exclusive' /\ (OneCoordinator => OneCoordinator')
  BY <1>1, <1>2 DEF WInv, OneCoordinator, Exclusive
<1>7. WorldStopped'
  BY <1>1, <1>2 DEF WInv, WorldStopped, TypeOK
<1>8. ParkingIsNotStale'
  BY <1>1 DEF ParkingIsNotStale
<1>9. NoLostWakeup'
  <2> SUFFICES ASSUME NEW u \in waiting'
               PROVE  \/ pc'[u] \in {"parked", "sp_parked"}
                      \/ pc'[u] = "sp_stopping" /\ nrunners # nparked' + 1
    BY <1>1 DEF NoLostWakeup
  <2>1. CASE u = t
    BY <1>1, <2>1 DEF WInv, TypeOK
  <2>2. CASE u # t
    <3>1. u \in waiting /\ nrunners # nparked + 2
      BY <2>2 DEF ParkedEnter
    <3>2. pc'[u] = pc[u] /\ nparked' = nparked + 1
      BY <2>2, <3>1, <1>1 DEF WInv, TypeOK, ParkedEnter
    <3> QED BY <3>1, <3>2 DEF WInv, NoLostWakeup, TypeOK
  <2> QED BY <2>1, <2>2
<1>10. JoinedBeforeReuse' /\ pc'[Main] # "starting"
  BY <1>1, <1>2, ThreadsAssumption DEF WInv, JoinedBeforeReuse, TypeOK
<1> QED BY <1>4, <1>5, <1>6, <1>7, <1>8, <1>9, <1>10 DEF WInv, Keeps

(* suspend_threads when no suspend is going on any more: t is the coordinator,
   and at once the suspender if it is the only thread. *)
LEMMA Coordinate ==
  ASSUME WInv, NEW t \in Threads,
         pc[t] \in {"run", "sp_resuming", "sp_parked"},
         suspend_state # "STOPPING",
         Parked \ {t} = {},
         suspend_state' = "STOPPING",
         nparked' = 0,
         \/ nrunners # 1 /\ waiting' = {t} /\ Goto(t, "sp_stopping")
         \/ nrunners = 1 /\ waiting' = {} /\ Goto(t, "suspender"),
         UNCHANGED <<nrunners, interrupt, joinwait>>
  PROVE  Keeps
<1>1. PICK l \in {"sp_stopping", "suspender"} : pc' = [pc EXCEPT ![t] = l]
  BY DEF Goto
<1>2. Live' = Live /\ t \in Live /\ Parked' = {} /\ Coordinators' = {t}
  BY <1>1, Facts DEF WInv, TypeOK, Live, Parked, Coordinators, Gone
<1>3. TypeOK'
  BY <1>1 DEF WInv, TypeOK, PCs, SuspendStates
<1>4. CountersAgree'
  BY <1>2, FS_EmptySet DEF WInv, CountersAgree
<1>5. Exclusive' /\ (OneCoordinator => OneCoordinator')
  BY <1>2 DEF WInv, OneCoordinator, Exclusive
<1>6. WorldStopped'
  <2> SUFFICES ASSUME pc'[t] = "suspender" PROVE Live \ {t} = {}
    BY <1>2 DEF WorldStopped, Coordinators
  <2>1. nrunners = 1
    BY <1>1 DEF WInv, TypeOK, Goto
  <2>2. Cardinality(Live \ {t}) = Cardinality(Live) - 1
    BY <1>2, Sets, OneLess
  <2>3. Cardinality(Live \ {t}) = 0
    BY <2>1, <2>2 DEF WInv, CountersAgree
  <2>4. IsFiniteSet(Live \ {t})
    BY Sets, FS_Subset
  <2> QED BY <2>3, <2>4, FS_EmptySet
<1>7. ParkingIsNotStale'
  BY DEF ParkingIsNotStale
<1>8. NoLostWakeup'
  BY <1>1 DEF NoLostWakeup, WInv, TypeOK, Goto
<1>9. JoinedBeforeReuse' /\ pc'[Main] # "starting"
  BY <1>1, <1>2, ThreadsAssumption DEF WInv, JoinedBeforeReuse, TypeOK
<1> QED BY <1>3, <1>4, <1>5, <1>6, <1>7, <1>8, <1>9 DEF WInv, Keeps

(* suspend_threads while the previous suspend is not over: other threads are
   still in parked() and t waits for them to leave. *)
LEMMA AwaitResume ==
  ASSUME WInv, NEW t \in Threads,
         pc[t] \in {"run", "sp_resuming", "sp_parked"},
         suspend_state = "RESUMING",
         Parked \ {t} # {},
         nparked' = Cardinality(Parked \ {t}),
         waiting' = waiting \cup {t},
         Goto(t, "sp_resuming"),
         UNCHANGED <<nrunners, suspend_state, interrupt, joinwait>>
  PROVE  Keeps
<1>1. pc' = [pc EXCEPT ![t] = "sp_resuming"]
  BY DEF Goto
<1>2. /\ Live' = Live /\ t \in Live
      /\ Parked' = Parked \ {t}
      /\ Coordinators' = {}
  BY <1>1, Facts DEF WInv, TypeOK, Live, Parked, Coordinators, Gone
<1>3. TypeOK'
  <2>1. nparked' \in Nat
    BY Sets, FS_Subset, FS_CardinalityType
  <2> QED BY <1>1, <2>1 DEF WInv, TypeOK, PCs
<1>4. CountersAgree'
  BY <1>2 DEF WInv, CountersAgree
<1>5. Exclusive' /\ (OneCoordinator => OneCoordinator')
  BY <1>2 DEF WInv, OneCoordinator, Exclusive
<1>6. WorldStopped'
  BY <1>2 DEF WorldStopped, Coordinators
<1>7. ParkingIsNotStale'
  BY <1>1 DEF WInv, ParkingIsNotStale, TypeOK
<1>8. NoLostWakeup'
  BY <1>1, <1>2, Facts DEF WInv, NoLostWakeup, TypeOK, Coordinators
<1>9. JoinedBeforeReuse' /\ pc'[Main] # "starting"
  BY <1>1, <1>2, ThreadsAssumption DEF WInv, JoinedBeforeReuse, TypeOK
<1> QED BY <1>3, <1>4, <1>5, <1>6, <1>7, <1>8, <1>9 DEF WInv, Keeps

(* A thread that leaves parked() for the interpreter.  The last one ends the
   resuming and wakes the threads that wait for that. *)
LEMMA Unpark ==
  ASSUME WInv, NEW t \in Threads,
         pc[t] = "parked",
         suspend_state # "STOPPING",
         nparked' = LeftParked, suspend_state' = LeftState, waiting' = LeftWaiting,
         t \notin waiting,
         Goto(t, "run"),
         UNCHANGED <<nrunners, interrupt, joinwait>>
  PROVE  Keeps
<1>1. pc' = [pc EXCEPT ![t] = "run"]
  BY DEF Goto
<1>2. /\ Live' = Live /\ t \in Live
      /\ Parked' = Parked \ {t} /\ t \in Parked
      /\ Coordinators' = {}
  BY <1>1, Facts DEF WInv, TypeOK, Live, Parked, Coordinators, Gone
<1>3. suspend_state = "RESUMING" /\ nparked - 1 \in Nat
  BY <1>2, Facts DEF WInv, TypeOK, SuspendStates
<1>4. TypeOK'
  BY <1>1, <1>3 DEF WInv, TypeOK, PCs, LeftParked, LeftState, LeftWaiting, SuspendStates
<1>5. CountersAgree'
  <2>1. Cardinality(Parked') = nparked'
    BY <1>2, Sets, OneLess DEF WInv, CountersAgree, LeftParked
  <2>2. Parked' = {} <=> nparked' = 0
    BY <1>2, <2>1, Sets, FS_Subset, FS_EmptySet
  <2> QED BY <1>2, <1>3, <2>1, <2>2 DEF WInv, CountersAgree, LeftState, LeftParked
<1>6. Exclusive' /\ (OneCoordinator => OneCoordinator')
  BY <1>2, <1>3 DEF WInv, OneCoordinator, Exclusive, LeftState
<1>7. WorldStopped'
  BY <1>2 DEF WorldStopped, Coordinators
<1>8. ParkingIsNotStale'
  BY <1>1, <1>3 DEF WInv, ParkingIsNotStale, TypeOK
<1>9. NoLostWakeup'
  BY <1>1, <1>2, <1>3, Facts DEF WInv, NoLostWakeup, TypeOK, Coordinators, LeftWaiting, LeftState
<1>10. JoinedBeforeReuse' /\ pc'[Main] # "starting"
  BY <1>1, <1>2, ThreadsAssumption DEF WInv, JoinedBeforeReuse, TypeOK
<1> QED BY <1>4, <1>5, <1>6, <1>7, <1>8, <1>9, <1>10 DEF WInv, Keeps

(* A thread that finds nothing has changed waits again; a spurious wakeup, and
   the main thread in cluster_join, leave the invariant alone too. *)
LEMMA Rewait ==
  ASSUME WInv,
         waiting' \subseteq Threads, joinwait' \in BOOLEAN,
         \A t \in waiting' \ waiting :
           \/ pc[t] \in {"parked", "sp_parked"} /\ suspend_state = "STOPPING"
           \/ pc[t] = "sp_stopping" /\ nrunners # nparked + 1,
         UNCHANGED <<cluster, pc>>
  PROVE  Keeps
<1>1. /\ UNCHANGED <<nrunners, nparked, suspend_state, interrupt, pc>>
      /\ Live' = Live /\ Parked' = Parked /\ Coordinators' = Coordinators
  BY DEF cluster, Live, Parked, Coordinators
<1>2. NoLostWakeup'
  BY <1>1 DEF WInv, NoLostWakeup
<1>3. TypeOK'
  BY <1>1 DEF WInv, TypeOK
<1> QED BY <1>1, <1>2, <1>3 DEF WInv, Keeps, CountersAgree, OneCoordinator, Exclusive, WorldStopped,
  ParkingIsNotStale, JoinedBeforeReuse
-----------------------------------------------------------------------------
(* suspend_threads called by a running thread or woken while resuming. *)
LEMMA SuspendThreadsInv ==
  ASSUME WInv, NEW t \in Threads,
         pc[t] \in {"run", "sp_resuming"}, t \notin waiting,
         SuspendThreads(t)
  PROVE  Keeps
<1>1. /\ SuspendRetry(t, suspend_state, nparked, waiting)
      /\ UNCHANGED <<nrunners, interrupt, joinwait>>
  BY DEF SuspendThreads
<1>2. Parked \ {t} = Parked /\ nparked = Cardinality(Parked)
  BY DEF Parked, WInv, CountersAgree
<1>3. CASE suspend_state = "STOPPING"
  <2>1. ParkedEnter(t, "sp_parked", nparked, waiting)
    BY <1>1, <1>3 DEF SuspendRetry
  <2> QED BY <1>1, <1>3, <2>1, Park
<1>4. CASE suspend_state = "RESUMING"
  <2>1. /\ waiting' = waiting \cup {t}
        /\ nparked' = Cardinality(Parked \ {t})
        /\ UNCHANGED suspend_state
        /\ Goto(t, "sp_resuming")
    BY <1>1, <1>2, <1>4 DEF SuspendRetry
  <2>2. Parked \ {t} # {}
    BY <1>2, <1>4 DEF WInv, CountersAgree
  <2> QED BY <1>1, <1>4, <2>1, <2>2, AwaitResume
<1>5. CASE suspend_state = "NONE"
  <2>1. Parked = {} /\ waiting = {}
    BY <1>5, Facts DEF WInv, CountersAgree
  <2>2. nparked = 0
    BY <1>2, <2>1, FS_EmptySet
  <2>3. /\ suspend_state' = "STOPPING" /\ nparked' = 0
        /\ \/ nrunners # 1 /\ waiting' = {t} /\ Goto(t, "sp_stopping")
           \/ nrunners = 1 /\ waiting' = {} /\ Goto(t, "suspender")
    BY <1>1, <1>5, <2>1, <2>2 DEF SuspendRetry
  <2> QED BY <1>1, <1>5, <2>1, <2>3, Coordinate
<1> QED BY <1>3, <1>4, <1>5 DEF WInv, TypeOK, SuspendStates

(* suspend_threads woken in parked(). *)
LEMMA SpParkedWakeInv ==
  ASSUME WInv, NEW t \in Threads, SpParkedWake(t)
  PROVE  Keeps
<1>1. /\ pc[t] = "sp_parked" /\ t \notin waiting /\ t \in Parked
      /\ UNCHANGED <<nrunners, interrupt, joinwait>>
  BY DEF SpParkedWake, Parked
<1>2. CASE suspend_state = "STOPPING"
  <2>1. waiting' = waiting \cup {t} /\ UNCHANGED <<cluster, pc>>
    BY <1>1, <1>2 DEF SpParkedWake, cluster
  <2>2. waiting' \subseteq Threads /\ joinwait' \in BOOLEAN
    BY <1>1, <2>1 DEF WInv, TypeOK
  <2> QED BY <1>1, <1>2, <2>1, <2>2, Rewait
<1>3. CASE suspend_state # "STOPPING"
  <2>1. SuspendRetry(t, LeftState, LeftParked, LeftWaiting)
    BY <1>3 DEF SpParkedWake
  <2>2. suspend_state = "RESUMING"
    BY <1>1, <1>3, Facts DEF WInv, TypeOK, SuspendStates
  <2>3. LeftParked = Cardinality(Parked \ {t})
    BY <1>1, Sets, OneLess DEF WInv, CountersAgree, LeftParked
  <2>4. IsFiniteSet(Parked \ {t})
    BY Sets, FS_Subset
  <2>5. LeftParked = 0 <=> Parked \ {t} = {}
    BY <2>3, <2>4, FS_EmptySet
  <2>6. CASE LeftParked = 0
    <3>1. LeftState = "NONE" /\ LeftWaiting = {}
      BY <2>6 DEF LeftState, LeftWaiting
    <3>2. /\ suspend_state' = "STOPPING" /\ nparked' = 0
          /\ \/ nrunners # 1 /\ waiting' = {t} /\ Goto(t, "sp_stopping")
             \/ nrunners = 1 /\ waiting' = {} /\ Goto(t, "suspender")
      BY <2>1, <2>6, <3>1 DEF SuspendRetry
    <3> QED BY <1>1, <1>3, <2>5, <2>6, <3>2, Coordinate
  <2>7. CASE LeftParked # 0
    <3>1. LeftState = "RESUMING" /\ LeftWaiting = waiting
      BY <2>2, <2>7 DEF LeftState, LeftWaiting
    <3>2. /\ waiting' = waiting \cup {t}
          /\ nparked' = Cardinality(Parked \ {t})
          /\ UNCHANGED suspend_state
          /\ Goto(t, "sp_resuming")
      BY <2>1, <2>2, <2>3, <3>1 DEF SuspendRetry
    <3> QED BY <1>1, <2>2, <2>5, <2>7, <3>2, AwaitResume
  <2> QED BY <2>6, <2>7
<1> QED BY <1>2, <1>3

(* suspend_threads woken in the loop that waits for the others: it returns only
   if the others are all parked. *)
LEMMA SpStoppingWakeInv ==
  ASSUME WInv, NEW t \in Threads, SpStoppingWake(t)
  PROVE  Keeps
<1>1. pc[t] = "sp_stopping" /\ UNCHANGED <<cluster, joinwait>>
  BY DEF SpStoppingWake
<1>2. CASE nrunners # nparked + 1
  <2>1. waiting' = waiting \cup {t} /\ UNCHANGED pc
    BY <1>2 DEF SpStoppingWake
  <2>2. waiting' \subseteq Threads /\ joinwait' \in BOOLEAN
    BY <1>1, <2>1 DEF WInv, TypeOK
  <2> QED BY <1>1, <1>2, <2>1, <2>2, Rewait
<1>3. CASE nrunners = nparked + 1
  <2>1. /\ pc' = [pc EXCEPT ![t] = "suspender"]
        /\ UNCHANGED <<nrunners, nparked, suspend_state, interrupt, waiting, joinwait>>
        /\ t \notin waiting
    BY <1>1, <1>3 DEF SpStoppingWake, Goto, cluster
  <2>2. /\ Live' = Live /\ t \in Live /\ t \notin Parked
        /\ Parked' = Parked /\ Coordinators' = Coordinators
    BY <1>1, <2>1 DEF WInv, TypeOK, Live, Parked, Coordinators, Gone
  <2>3. TypeOK'
    BY <2>1 DEF WInv, TypeOK, PCs
  <2>4. CountersAgree' /\ Exclusive' /\ (OneCoordinator => OneCoordinator')
    BY <2>1, <2>2 DEF WInv, CountersAgree, OneCoordinator, Exclusive
  <2>5. WorldStopped'
    <3>1. Live \ {t} = Parked
      BY <1>3, <2>2, AllParked DEF WInv
    <3>2. t \in Coordinators /\ suspend_state = "STOPPING"
      BY <1>1 DEF WInv, Exclusive, Coordinators
    <3>3. \A u \in Threads : pc'[u] = "suspender" => u = t
      BY <2>2, <3>2 DEF WInv, Exclusive, Coordinators
    <3> QED BY <2>1, <2>2, <3>1, <3>2, <3>3 DEF WorldStopped
  <2>6. ParkingIsNotStale'
    BY <2>1 DEF WInv, ParkingIsNotStale, TypeOK
  <2>7. NoLostWakeup'
    BY <2>1 DEF WInv, NoLostWakeup, TypeOK
  <2>8. JoinedBeforeReuse' /\ pc'[Main] # "starting"
    BY <2>1, <2>2, ThreadsAssumption DEF WInv, JoinedBeforeReuse, TypeOK
  <2> QED BY <2>3, <2>4, <2>5, <2>6, <2>7, <2>8 DEF WInv, Keeps
<1> QED BY <1>2, <1>3

(* resume_threads.  No other thread is in the window between the test of
   suspend_parked and its lock, since all of them are parked. *)
LEMMA ResumeThreadsInv ==
  ASSUME WInv, NEW t \in Threads, ResumeThreads(t)
  PROVE  Keeps
<1>1. /\ pc[t] = "suspender"
      /\ pc' = [pc EXCEPT ![t] = "run"]
      /\ suspend_state' = IF nparked > 0 THEN "RESUMING" ELSE "NONE"
      /\ waiting' = {}
      /\ UNCHANGED <<nrunners, nparked, interrupt, joinwait>>
  BY DEF ResumeThreads, Goto
<1>2. t \in Coordinators /\ \A u \in Coordinators : u = t
  BY <1>1 DEF WInv, Exclusive, Coordinators
<1>3. /\ Live' = Live /\ t \in Live
      /\ Parked' = Parked /\ Coordinators' = {}
  BY <1>1, <1>2 DEF WInv, TypeOK, Live, Parked, Coordinators, Gone
<1>4. TypeOK'
  BY <1>1 DEF WInv, TypeOK, PCs, SuspendStates
<1>5. CountersAgree'
  <2>1. nparked = 0 <=> Parked = {}
    BY Sets, FS_EmptySet DEF WInv, CountersAgree
  <2> QED BY <1>1, <1>3, <2>1 DEF WInv, CountersAgree, TypeOK
<1>6. Exclusive' /\ (OneCoordinator => OneCoordinator')
  BY <1>1, <1>3 DEF WInv, OneCoordinator, Exclusive
<1>7. WorldStopped'
  BY <1>3 DEF WorldStopped, Coordinators
<1>8. ParkingIsNotStale'
  <2>1. \A u \in Threads : pc[u] # "parking"
    BY <1>1 DEF WInv, WorldStopped, Live, Parked, Gone
  <2> QED BY <1>1, <2>1 DEF WInv, TypeOK, ParkingIsNotStale
<1>9. NoLostWakeup'
  BY <1>1 DEF NoLostWakeup
<1>10. JoinedBeforeReuse' /\ pc'[Main] # "starting"
  BY <1>1, <1>3, ThreadsAssumption DEF WInv, JoinedBeforeReuse, TypeOK
<1> QED BY <1>4, <1>5, <1>6, <1>7, <1>8, <1>9, <1>10 DEF WInv, Keeps

(* A thread woken in the parked() that suspend_parked called. *)
LEMMA ParkedWakeInv ==
  ASSUME WInv, NEW t \in Threads, ParkedWake(t)
  PROVE  Keeps
<1>1. pc[t] = "parked" /\ t \notin waiting /\ UNCHANGED <<nrunners, interrupt, joinwait>>
  BY DEF ParkedWake
<1>2. CASE suspend_state = "STOPPING"
  <2>1. waiting' = waiting \cup {t} /\ UNCHANGED <<cluster, pc>>
    BY <1>1, <1>2 DEF ParkedWake, cluster
  <2>2. waiting' \subseteq Threads /\ joinwait' \in BOOLEAN
    BY <1>1, <2>1 DEF WInv, TypeOK
  <2> QED BY <1>1, <1>2, <2>1, <2>2, Rewait
<1>3. CASE suspend_state # "STOPPING"
  <2>1. /\ nparked' = LeftParked /\ suspend_state' = LeftState
        /\ waiting' = LeftWaiting /\ Goto(t, "run")
    BY <1>3 DEF ParkedWake
  <2> QED BY <1>1, <1>3, <2>1, Unpark
<1> QED BY <1>2, <1>3

(* cluster_join returns when nrunners is 0, which means that nobody is left. *)
LEMMA ClusterJoinInv ==
  ASSUME WInv, ClusterJoin
  PROVE  Keeps
<1>1. pc[Main] = "joining" /\ UNCHANGED <<cluster, waiting>>
  BY DEF ClusterJoin
<1>2. CASE nrunners > 0
  <2>1. joinwait' = TRUE /\ UNCHANGED pc
    BY <1>2 DEF ClusterJoin
  <2>2. waiting' \subseteq Threads
    BY <1>1 DEF WInv, TypeOK
  <2> QED BY <1>1, <2>1, <2>2, Rewait
<1>3. CASE ~(nrunners > 0)
  <2>1. /\ pc' = [pc EXCEPT ![Main] = "done"]
        /\ UNCHANGED <<nrunners, nparked, suspend_state, interrupt, waiting, joinwait>>
    BY <1>1, <1>3 DEF ClusterJoin, Goto, cluster
  <2>2. Live' = Live /\ Parked' = Parked /\ Coordinators' = Coordinators
    BY <1>1, <2>1, ThreadsAssumption DEF WInv, TypeOK, Live, Parked, Coordinators, Gone
  <2>3. Live = {}
    BY <1>3, Sets, FS_EmptySet DEF WInv, CountersAgree
  <2>4. TypeOK'
    BY <2>1 DEF WInv, TypeOK, PCs
  <2>5. CountersAgree' /\ Exclusive' /\ (OneCoordinator => OneCoordinator')
    BY <2>1, <2>2 DEF WInv, CountersAgree, OneCoordinator, Exclusive
  <2>6. WorldStopped'
    BY <2>2, <2>3 DEF WorldStopped, Live, Gone
  <2>7. ParkingIsNotStale'
    BY <2>1 DEF WInv, ParkingIsNotStale, TypeOK
  <2>8. NoLostWakeup'
    BY <1>1, <2>1 DEF WInv, NoLostWakeup, TypeOK
  <2>9. JoinedBeforeReuse' /\ pc'[Main] # "starting"
    BY <2>1, <2>2, <2>3, ThreadsAssumption DEF WInv, JoinedBeforeReuse, TypeOK
  <2> QED BY <2>4, <2>5, <2>6, <2>7, <2>8, <2>9 DEF WInv, Keeps
<1> QED BY <1>2, <1>3

-----------------------------------------------------------------------------
(* Every step of a thread preserves the invariant. *)
LEMMA ProtocolStepInv ==
  ASSUME WInv, NEW t \in Threads, ProtocolStep(t)
  PROVE  Keeps
<1>1. CASE SuspendParkedTest(t)
  BY <1>1, PlainMove DEF SuspendParkedTest, Goto, WInv, TypeOK, Plain, PCs, cluster
<1>2. CASE SuspendParked(t)
  <2>1. suspend_state = "STOPPING" /\ t \notin waiting
    BY <1>2, Facts DEF SuspendParked, WInv, ParkingIsNotStale
  <2> QED BY <1>2, <2>1, Park DEF SuspendParked
<1>3. CASE ParkedWake(t)
  BY <1>3, ParkedWakeInv
<1>4. CASE SpParkedWake(t)
  BY <1>4, SpParkedWakeInv
<1>5. CASE SpResumingWake(t)
  BY <1>5, SuspendThreadsInv DEF SpResumingWake
<1>6. CASE SpStoppingWake(t)
  BY <1>6, SpStoppingWakeInv
<1> QED BY <1>1, <1>2, <1>3, <1>4, <1>5, <1>6 DEF ProtocolStep

(* The steps of the program a thread executes preserve the invariant: they
   move a thread among plain places, or let a counted one in. *)
LEMMA ProgramStepInv ==
  ASSUME WInv, NEW t \in Threads, ProgramStep(t)
  PROVE  Keeps
<1>1. ASSUME NEW u \in Threads, SpawnAdd(t, u) PROVE Keeps
  <2>1. /\ pc[u] \in Gone /\ pc'[u] = "starting" /\ u # Main
        /\ pc[t] = "run" /\ pc' \in [Threads -> PCs]
        /\ \A x \in Threads \ {u} : pc'[x] # pc[x] =>
             pc[x] \in Plain /\ pc'[x] \in Plain \ {"starting", "parking"}
    BY <1>1 DEF SpawnAdd, WInv, TypeOK, Gone, Plain, PCs
  <2>2. /\ ClusterAddThread /\ interrupt' \in BOOLEAN
        /\ UNCHANGED <<nparked, suspend_state, waiting, joinwait>>
    BY <1>1 DEF SpawnAdd, WInv, TypeOK
  <2> QED BY <2>1, <2>2, Enter
<1>2. CASE CheckInterruptExit(t) \/ CheckInterruptSuspend(t) \/ CheckInterruptOther(t)
  BY <1>2, PlainMove DEF CheckInterruptExit, CheckInterruptSuspend, CheckInterruptOther,
    Goto, WInv, TypeOK, Plain, PCs, cluster
<1>3. CASE ReturnFromExec(t) \/ PropagateTrap(t)
  BY <1>3, PlainMove DEF ReturnFromExec, PropagateTrap, Goto, WInv, TypeOK, Plain, PCs, cluster
<1> QED BY <1>1, <1>2, <1>3 DEF ProgramStep

(* The steps that start, end and join threads preserve the invariant. *)
LEMMA LifeStepInv ==
  ASSUME WInv, NEW t \in Threads, LifeStep(t)
  PROVE  Keeps
<1>1. ASSUME NEW u \in Threads, SpawnCreate(t, u) PROVE Keeps
  <2>1. /\ pc' \in [Threads -> PCs]
        /\ \A x \in Threads : pc'[x] # pc[x] =>
             pc[x] \in Plain /\ pc'[x] = "run"
    BY <1>1 DEF SpawnCreate, WInv, TypeOK, Plain, PCs
  <2>2. /\ interrupt' \in BOOLEAN
        /\ UNCHANGED <<nrunners, nparked, suspend_state, waiting, joinwait>>
    BY <1>1 DEF SpawnCreate, WInv, TypeOK, cluster
  <2> QED BY <2>1, <2>2, PlainMove DEF Plain
<1>2. ASSUME NEW u \in Threads, SpawnUndo(t, u) PROVE Keeps
  <2>1. /\ pc[u] \in Plain /\ pc'[u] \in Gone /\ u # Main
        /\ pc' \in [Threads -> PCs]
        /\ \A x \in Threads \ {u} : pc'[x] # pc[x] =>
             pc[x] \in Plain /\ pc'[x] \in Plain \ {"starting", "parking"}
    BY <1>2 DEF SpawnUndo, WInv, TypeOK, Gone, Plain, PCs
  <2>2. /\ ClusterRemoveThread /\ interrupt' \in BOOLEAN
        /\ UNCHANGED <<nparked, suspend_state>>
    BY <1>2 DEF SpawnUndo, WInv, TypeOK
  <2> QED BY <2>1, <2>2, Leave
<1>3. CASE DoneThreadStartFunc(t)
  <2>1. /\ pc[t] \in Plain /\ pc'[t] \in Gone /\ t # Main
        /\ pc' \in [Threads -> PCs]
        /\ \A x \in Threads \ {t} : pc'[x] = pc[x]
    BY <1>3 DEF DoneThreadStartFunc, Goto, WInv, TypeOK, Gone, Plain, PCs
  <2>2. /\ ClusterRemoveThread /\ interrupt' \in BOOLEAN
        /\ UNCHANGED <<nparked, suspend_state>>
    BY <1>3 DEF DoneThreadStartFunc, WInv, TypeOK
  <2> QED BY <2>1, <2>2, Leave
<1>4. CASE SetupExecContext
  <2>1. /\ pc[Main] \in {"new", "done"} /\ pc'[Main] = "run"
        /\ pc' \in [Threads -> PCs]
        /\ \A x \in Threads \ {Main} : pc'[x] = pc[x]
    BY <1>4, ThreadsAssumption DEF SetupExecContext, Goto, WInv, TypeOK, PCs
  <2>2. /\ ClusterAddThread /\ interrupt' \in BOOLEAN
        /\ UNCHANGED <<nparked, suspend_state, waiting, joinwait>>
    BY <1>4 DEF SetupExecContext
  <2> QED BY <2>1, <2>2, Enter, ThreadsAssumption DEF Gone
<1>5. CASE InstanceJoin
  <2>1. /\ pc[Main] \in Plain /\ pc'[Main] = "joining"
        /\ pc' \in [Threads -> PCs]
        /\ \A x \in Threads \ {Main} : pc'[x] = pc[x]
    BY <1>5, ThreadsAssumption DEF InstanceJoin, Goto, WInv, TypeOK, Plain, PCs
  <2>2. /\ ClusterRemoveThread /\ interrupt' \in BOOLEAN
        /\ UNCHANGED <<nparked, suspend_state>>
    BY <1>5 DEF InstanceJoin
  <2> QED BY <2>1, <2>2, Leave, ThreadsAssumption DEF Gone
<1>6. CASE ClusterJoin
  BY <1>6, ClusterJoinInv
<1> QED BY <1>1, <1>2, <1>3, <1>4, <1>5, <1>6 DEF LifeStep, SpawnEnd

(* Stuttering. *)
LEMMA StutterInv ==
  ASSUME WInv, UNCHANGED svars
  PROVE  Keeps
<1>1. /\ UNCHANGED <<cluster, pc>>
      /\ waiting' = waiting /\ joinwait' = joinwait
  BY DEF svars, cluster
<1> QED BY <1>1, Rewait DEF WInv, TypeOK

(* A spurious wakeup from the wait on stop_cv. *)
LEMMA SpuriousWakeupInv ==
  ASSUME WInv, NEW t \in Threads, SpuriousWakeup(t)
  PROVE  Keeps
BY Rewait DEF SpuriousWakeup, WInv, TypeOK

(* The inductive step: the invariant is preserved by every step of the cluster
   and by stuttering. *)
LEMMA NextInv == IInv /\ [Next]_svars => IInv'
<1> SUFFICES ASSUME IInv, [Next]_svars PROVE Keeps
  BY DEF IInv, Keeps
<1> WInv
  BY DEF IInv
<1>1. ASSUME NEW t \in Threads, ProtocolStep(t) PROVE Keeps
  BY <1>1, ProtocolStepInv
<1>2. ASSUME NEW t \in Threads, ProgramStep(t) PROVE Keeps
  BY <1>2, ProgramStepInv
<1>3. ASSUME NEW t \in Threads, LifeStep(t) PROVE Keeps
  BY <1>3, LifeStepInv
<1>4. ASSUME NEW t \in Threads, ClientStep(t) PROVE Keeps
  <2>1. CASE pc[t] = "run" /\ SuspendThreads(t)
    BY <2>1, Facts, SuspendThreadsInv
  <2>2. CASE ResumeThreads(t)
    BY <2>2, ResumeThreadsInv
  <2> QED BY <1>4, <2>1, <2>2 DEF ClientStep
<1>5. ASSUME NEW t \in Threads, SpuriousWakeup(t) PROVE Keeps
  BY <1>5, SpuriousWakeupInv
<1>6. CASE UNCHANGED svars
  BY <1>6, StutterInv
<1> QED BY <1>1, <1>2, <1>3, <1>4, <1>5, <1>6 DEF Next

-----------------------------------------------------------------------------
(* The invariant holds in every state of every execution. *)
THEOREM Invariance == Spec => []IInv
BY InitInv, NextInv, PTL DEF Spec

(* The fields of struct cluster and the places of the threads keep their
   types; in particular nrunners and nparked never go below zero. *)
THEOREM TypeCorrect == Spec => []TypeOK
<1>1. IInv => TypeOK
  BY DEF IInv, WInv
<1> QED BY <1>1, Invariance, PTL

(* Stop-the-world: from the return of suspend_threads to resume_threads every
   other thread of the cluster is blocked, for any number of threads and any
   interleaving of suspends, spawns, exits and spurious wakeups. *)
THEOREM WorldIsStopped == Spec => []WorldStopped
<1>1. IInv => WorldStopped
  BY DEF IInv, WInv
<1> QED BY <1>1, Invariance, PTL

(* Mutual exclusion of the threads that ask for a suspend: at most one has set
   STOPPING and not resumed yet, and the state is STOPPING only then. *)
THEOREM MutualExclusion == Spec => []OneCoordinator
<1>1. IInv => OneCoordinator
  BY DEF IInv, WInv
<1> QED BY <1>1, Invariance, PTL

(* nrunners and nparked count exactly the threads in the cluster and the
   threads in parked(). *)
THEOREM CountersAreExact == Spec => []CountersAgree
<1>1. IInv => CountersAgree
  BY DEF IInv, WInv
<1> QED BY <1>1, Invariance, PTL

(* The test of suspend_state that suspend_parked makes without the lock is not
   stale when the lock is taken. *)
THEOREM UnlockedTestIsSafe == Spec => []ParkingIsNotStale
<1>1. IInv => ParkingIsNotStale
  BY DEF IInv, WInv
<1> QED BY <1>1, Invariance, PTL

(* A thread sleeps on stop_cv only while its condition does not hold: the
   broadcasts of parked, cluster_remove_thread and resume_threads are enough. *)
THEOREM WakeupsAreNotLost == Spec => []NoLostWakeup
<1>1. IInv => NoLostWakeup
  BY DEF IInv, WInv
<1> QED BY <1>1, Invariance, PTL

(* wasi_threads_setup_exec_context clears the interrupt flag of a cluster that
   has no thread. *)
THEOREM ReuseAfterJoin == Spec => []JoinedBeforeReuse
<1>1. IInv => JoinedBeforeReuse
  BY DEF IInv, WInv
<1> QED BY <1>1, Invariance, PTL

-----------------------------------------------------------------------------
(***************************************************************************)
(* Suspend implements StopTheWorld, for any number of threads: every step  *)
(* of the protocol is one of the four abstract steps or changes neither    *)
(* the set of active threads nor the holder.  The invariant supplies what  *)
(* the mapping needs: that the CHOOSE in Holder has one candidate          *)
(* (OneCoordinator), and that nobody is active beside it (WorldStopped).   *)
(***************************************************************************)
Active == Live \ Parked

NoSuspender == \A t \in Threads : pc[t] # "suspender"

(* No thread becomes the suspender or stops being it. *)
SameSuspender == \A x \in Threads : pc'[x] = "suspender" <=> pc[x] = "suspender"

(* The holder is the suspender. *)
HolderAgrees == /\ \A t \in Threads : pc[t] = "suspender" => Holder = t
                /\ NoSuspender => Holder = NoThread

-----------------------------------------------------------------------------
(* The value of Holder. *)
LEMMA HolderValue == IInv => HolderAgrees
<1> SUFFICES ASSUME IInv PROVE HolderAgrees
  OBVIOUS
<1>1. ASSUME NEW t \in Threads, pc[t] = "suspender" PROVE Holder = t
  <2>1. \A u \in Threads : pc[u] = "suspender" => u = t
    BY <1>1 DEF IInv, WInv, OneCoordinator, Coordinators
  <2> QED BY <1>1, <2>1 DEF Holder
<1>2. NoSuspender => Holder = NoThread
  BY DEF NoSuspender, Holder
<1> QED BY <1>1, <1>2 DEF HolderAgrees

(* The same, before and after a step. *)
LEMMA HolderValues == (IInv => HolderAgrees) /\ (IInv' => HolderAgrees')
BY HolderValue, PTL

(* A thread that is active and is not the suspender shows that there is no
   suspender; so does a state that is not STOPPING. *)
LEMMA NobodyHolds ==
  ASSUME IInv,
         \/ \E t \in Active : pc[t] # "suspender"
         \/ suspend_state # "STOPPING"
  PROVE  NoSuspender
BY DEF IInv, WInv, WorldStopped, Active, NoSuspender

-----------------------------------------------------------------------------
(* What a step must do to the concrete state to be each abstract step. *)
LEMMA IsStutter ==
  ASSUME IInv, IInv', Active' = Active, SameSuspender
  PROVE  UNCHANGED STW!vars
<1>1. Holder' = Holder
  <2>1. CASE NoSuspender
    BY <2>1, HolderValues DEF HolderAgrees, SameSuspender, NoSuspender
  <2>2. CASE ~NoSuspender
    BY <2>2, HolderValues DEF HolderAgrees, SameSuspender, NoSuspender
  <2> QED BY <2>1, <2>2
<1> QED BY <1>1 DEF STW!vars, Active

(* A thread that joins the active ones while nobody is the suspender. *)
LEMMA IsActivate ==
  ASSUME IInv, IInv', NEW t \in Threads, t \notin Active, Active' = Active \cup {t},
         NoSuspender, NoSuspender'
  PROVE  STW!Activate(t)
BY HolderValues DEF HolderAgrees, STW!Activate, Active

(* A thread that is not the suspender and is active no longer. *)
LEMMA IsDeactivate ==
  ASSUME IInv, IInv', NEW t \in Active, Active' = Active \ {t},
         NoSuspender, NoSuspender'
  PROVE  STW!Deactivate(t)
<1>1. Holder = NoThread /\ Holder' = NoThread
  BY HolderValues DEF HolderAgrees
<1>2. t # NoThread
  BY Sets, ThreadsAssumption DEF Active
<1> QED BY <1>1, <1>2 DEF STW!Deactivate, Active

(* suspend_threads returns to a thread that is the only active one. *)
LEMMA IsAcquire ==
  ASSUME IInv, IInv', NEW t \in Threads, Active \subseteq {t}, Active' = {t},
         NoSuspender, pc'[t] = "suspender"
  PROVE  STW!Acquire(t)
BY HolderValues DEF HolderAgrees, STW!Acquire, Active

(* resume_threads. *)
LEMMA IsRelease ==
  ASSUME IInv, IInv', NEW t \in Threads, Active' = Active,
         pc[t] = "suspender", NoSuspender'
  PROVE  STW!Release(t)
BY HolderValues DEF HolderAgrees, STW!Release, Active

-----------------------------------------------------------------------------
(* A thread that moves between two active places, neither of them that of the
   suspender. *)
LEMMA MoveStutters ==
  ASSUME IInv, IInv',
         \A x \in Threads : pc'[x] # pc[x] =>
           {pc[x], pc'[x]} \subseteq
              Plain \cup {"sp_resuming", "sp_stopping"}
  PROVE  UNCHANGED STW!vars
<1>1. Active' = Active
  BY DEF Active, Live, Parked, Gone, Plain
<1>2. SameSuspender
  BY DEF SameSuspender, Plain
<1> QED BY <1>1, <1>2, IsStutter

(* A thread that enters parked() from an active place. *)
LEMMA ParkRefines ==
  ASSUME IInv, IInv', NEW t \in Threads, NEW l \in {"parked", "sp_parked"},
         pc[t] \in {"parking", "run", "sp_resuming"},
         pc' = [pc EXCEPT ![t] = l]
  PROVE  STW!Next
<1>1. t \in Active /\ Active' = Active \ {t}
  BY DEF IInv, WInv, TypeOK, Active, Live, Parked, Gone
<1>2. NoSuspender
  BY <1>1, NobodyHolds
<1>3. NoSuspender'
  BY <1>2 DEF NoSuspender, IInv, WInv, TypeOK
<1> QED BY <1>1, <1>2, <1>3, IsDeactivate DEF STW!Next

(* A thread that leaves parked(), when nobody is the suspender. *)
LEMMA UnparkRefines ==
  ASSUME IInv, IInv', NEW t \in Threads,
         NEW l \in {"run", "sp_resuming", "sp_stopping"},
         pc[t] \in {"parked", "sp_parked"},
         suspend_state # "STOPPING",
         pc' = [pc EXCEPT ![t] = l]
  PROVE  STW!Next
<1>1. t \notin Active /\ Active' = Active \cup {t}
  BY DEF IInv, WInv, TypeOK, Active, Live, Parked, Gone
<1>2. NoSuspender
  BY NobodyHolds
<1>3. NoSuspender'
  BY <1>2 DEF NoSuspender, IInv, WInv, TypeOK
<1> QED BY <1>1, <1>2, <1>3, IsActivate DEF STW!Next

(* suspend_threads returns: t is the only active thread by WorldStopped of the
   next state. *)
LEMMA AcquireRefines ==
  ASSUME IInv, IInv', NEW t \in Threads,
         pc[t] \notin Gone \cup {"suspender"},
         \/ pc[t] = "sp_stopping"
         \/ suspend_state # "STOPPING",
         pc' = [pc EXCEPT ![t] = "suspender"]
  PROVE  STW!Next
<1>1. Active' = {t}
  BY DEF IInv, WInv, TypeOK, WorldStopped, Active, Live, Parked, Gone
<1>2. Active \subseteq {t}
  BY <1>1 DEF IInv, WInv, TypeOK, Active, Live, Parked, Gone
<1>3. NoSuspender
  <2>1. CASE pc[t] = "sp_stopping"
    BY <2>1, NobodyHolds DEF Active, Live, Parked, Gone
  <2> QED BY <2>1, NobodyHolds
<1>4. pc'[t] = "suspender"
  BY DEF IInv, WInv, TypeOK
<1> QED BY <1>1, <1>2, <1>3, <1>4, IsAcquire DEF STW!Next

(* suspend_threads, from the label retry. *)
LEMMA RetryRefines ==
  ASSUME IInv, IInv', NEW t \in Threads, NEW st, NEW np, NEW wt,
         SuspendRetry(t, st, np, wt),
         \/ pc[t] \in {"run", "sp_resuming"} /\ st = suspend_state
         \/ pc[t] = "sp_parked" /\ st # "STOPPING" /\ suspend_state # "STOPPING"
  PROVE  STW!Next \/ UNCHANGED STW!vars
<1>1. CASE st = "STOPPING"
  <2>1. pc' = [pc EXCEPT ![t] = "sp_parked"] /\ pc[t] \in {"run", "sp_resuming"}
    BY <1>1 DEF SuspendRetry, ParkedEnter, Goto
  <2> QED BY <2>1, ParkRefines
<1>2. CASE st # "STOPPING"
  <2>1. suspend_state # "STOPPING"
    BY <1>2
  <2>2. PICK l \in {"sp_resuming", "sp_stopping", "suspender"} : pc' = [pc EXCEPT ![t] = l]
    BY <1>2 DEF SuspendRetry, Goto
  <2>3. CASE l = "suspender"
    BY <2>1, <2>2, <2>3, AcquireRefines DEF Gone
  <2>4. CASE l # "suspender" /\ pc[t] = "sp_parked"
    BY <2>1, <2>2, <2>4, UnparkRefines
  <2>5. CASE l # "suspender" /\ pc[t] # "sp_parked"
    <3>1. \A x \in Threads : pc'[x] # pc[x] =>
            {pc[x], pc'[x]} \subseteq Plain \cup {"sp_resuming", "sp_stopping"}
      BY <2>2, <2>5 DEF IInv, WInv, TypeOK, Plain
    <3> QED BY <3>1, MoveStutters
  <2> QED BY <2>3, <2>4, <2>5
<1> QED BY <1>1, <1>2

(* A thread that enters the cluster is activated; the one that spawns it, if
   any, only moves. *)
LEMMA EnterRefines ==
  ASSUME IInv, IInv', NEW u \in Threads,
         pc[u] \in Gone, pc'[u] \in {"starting", "run"},
         \/ \E x \in Threads : pc[x] = "run"
         \/ Live = {},
         \A x \in Threads \ {u} : pc'[x] # pc[x] => {pc[x], pc'[x]} \subseteq Plain
  PROVE  STW!Next
<1>1. u \notin Active /\ Active' = Active \cup {u}
  BY DEF Active, Live, Parked, Gone, Plain
<1>2. NoSuspender
  <2>1. CASE Live = {}
    BY <2>1 DEF NoSuspender, Live, Gone
  <2>2. CASE Live # {}
    BY <2>2, NobodyHolds DEF Active, Live, Parked, Gone
  <2> QED BY <2>1, <2>2
<1>3. NoSuspender'
  BY <1>2 DEF NoSuspender, Plain
<1> QED BY <1>1, <1>2, <1>3, IsActivate DEF STW!Next

(* A thread that leaves the cluster is deactivated. *)
LEMMA LeaveRefines ==
  ASSUME IInv, IInv', NEW u \in Threads,
         pc[u] \in Plain, pc'[u] \in Gone,
         \A x \in Threads \ {u} : pc'[x] # pc[x] => {pc[x], pc'[x]} \subseteq Plain
  PROVE  STW!Next
<1>1. u \in Active /\ Active' = Active \ {u}
  BY DEF Active, Live, Parked, Gone, Plain
<1>2. NoSuspender
  BY <1>1, NobodyHolds DEF Plain
<1>3. NoSuspender'
  BY <1>2 DEF NoSuspender, Plain, Gone
<1> QED BY <1>1, <1>2, <1>3, IsDeactivate DEF STW!Next

-----------------------------------------------------------------------------
(* The steps inside suspend.c are a park, an unpark, an acquire or nothing. *)
LEMMA ProtocolStepRefines ==
  ASSUME IInv, IInv', NEW t \in Threads, ProtocolStep(t)
  PROVE  STW!Next \/ UNCHANGED STW!vars
<1>1. CASE SuspendParkedTest(t)
  BY <1>1, MoveStutters DEF SuspendParkedTest, Goto, IInv, WInv, TypeOK, Plain
<1>2. CASE SuspendParked(t)
  BY <1>2, ParkRefines DEF SuspendParked, ParkedEnter, Goto
<1>3. CASE ParkedWake(t)
  <2>1. CASE suspend_state = "STOPPING"
    BY <1>3, <2>1, MoveStutters DEF ParkedWake
  <2>2. CASE suspend_state # "STOPPING"
    BY <1>3, <2>2, UnparkRefines DEF ParkedWake, Goto
  <2> QED BY <2>1, <2>2
<1>4. CASE SpParkedWake(t)
  <2>1. CASE suspend_state = "STOPPING"
    BY <1>4, <2>1, MoveStutters DEF SpParkedWake
  <2>2. CASE suspend_state # "STOPPING"
    <3>1. /\ SuspendRetry(t, LeftState, LeftParked, LeftWaiting)
          /\ pc[t] = "sp_parked"
      BY <1>4, <2>2 DEF SpParkedWake
    <3>2. LeftState # "STOPPING"
      BY <2>2 DEF LeftState
    <3> QED BY <2>2, <3>1, <3>2, RetryRefines
  <2> QED BY <2>1, <2>2
<1>5. CASE SpResumingWake(t)
  BY <1>5, RetryRefines DEF SpResumingWake, SuspendThreads
<1>6. CASE SpStoppingWake(t)
  <2>1. CASE nrunners # nparked + 1
    BY <1>6, <2>1, MoveStutters DEF SpStoppingWake
  <2>2. CASE nrunners = nparked + 1
    BY <1>6, <2>2, AcquireRefines DEF SpStoppingWake, Goto, Gone
  <2> QED BY <2>1, <2>2
<1> QED BY <1>1, <1>2, <1>3, <1>4, <1>5, <1>6 DEF ProtocolStep

(* The steps of the program only move a thread, or activate a new one. *)
LEMMA ProgramStepRefines ==
  ASSUME IInv, IInv', NEW t \in Threads, ProgramStep(t)
  PROVE  STW!Next \/ UNCHANGED STW!vars
<1>1. ASSUME NEW u \in Threads, SpawnAdd(t, u) PROVE STW!Next
  <2>1. /\ pc[u] \in Gone /\ pc'[u] = "starting" /\ pc[t] = "run"
        /\ \A x \in Threads \ {u} : pc'[x] # pc[x] => {pc[x], pc'[x]} \subseteq Plain
    BY <1>1 DEF SpawnAdd, IInv, WInv, TypeOK, Gone, Plain
  <2> QED BY <2>1, EnterRefines
<1>2. CASE ~\E u \in Threads : SpawnAdd(t, u)
  <2>1. \A x \in Threads : pc'[x] # pc[x] => {pc[x], pc'[x]} \subseteq Plain
    BY <1>2 DEF ProgramStep, CheckInterruptExit, CheckInterruptSuspend,
      CheckInterruptOther, ReturnFromExec, PropagateTrap, Goto, IInv, WInv, TypeOK, Plain
  <2> QED BY <2>1, MoveStutters
<1> QED BY <1>1, <1>2

(* Threads that start, end and are joined are activated and deactivated. *)
LEMMA LifeStepRefines ==
  ASSUME IInv, IInv', NEW t \in Threads, LifeStep(t)
  PROVE  STW!Next \/ UNCHANGED STW!vars
<1>1. ASSUME NEW u \in Threads, SpawnCreate(t, u) PROVE UNCHANGED STW!vars
  BY <1>1, MoveStutters DEF SpawnCreate, IInv, WInv, TypeOK, Plain
<1>2. ASSUME NEW u \in Threads, SpawnUndo(t, u) PROVE STW!Next
  <2>1. /\ pc[u] \in Plain /\ pc'[u] \in Gone
        /\ \A x \in Threads \ {u} : pc'[x] # pc[x] => {pc[x], pc'[x]} \subseteq Plain
    BY <1>2 DEF SpawnUndo, IInv, WInv, TypeOK, Gone, Plain
  <2> QED BY <2>1, LeaveRefines
<1>3. CASE DoneThreadStartFunc(t)
  BY <1>3, LeaveRefines DEF DoneThreadStartFunc, Goto, IInv, WInv, TypeOK, Gone, Plain
<1>4. CASE SetupExecContext
  <2>1. /\ pc[Main] \in Gone /\ pc'[Main] = "run" /\ Live = {}
        /\ \A x \in Threads \ {Main} : pc'[x] = pc[x]
    BY <1>4, ThreadsAssumption DEF SetupExecContext, Goto, IInv, WInv, TypeOK, Gone, JoinedBeforeReuse
  <2> QED BY <2>1, EnterRefines, ThreadsAssumption
<1>5. CASE InstanceJoin
  BY <1>5, LeaveRefines, ThreadsAssumption DEF InstanceJoin, Goto, IInv, WInv, TypeOK, Gone, Plain
<1>6. CASE ClusterJoin
  <2>1. Active' = Active /\ SameSuspender
    BY <1>6, ThreadsAssumption
    DEF ClusterJoin, Goto, IInv, WInv, TypeOK, Active, Live, Parked, Gone, SameSuspender
  <2> QED BY <2>1, IsStutter
<1> QED BY <1>1, <1>2, <1>3, <1>4, <1>5, <1>6 DEF LifeStep, SpawnEnd

(* The calls of suspend_threads and resume_threads acquire and release. *)
LEMMA ClientStepRefines ==
  ASSUME IInv, IInv', NEW t \in Threads, ClientStep(t)
  PROVE  STW!Next \/ UNCHANGED STW!vars
<1>1. CASE pc[t] = "run" /\ SuspendThreads(t)
  BY <1>1, RetryRefines DEF SuspendThreads
<1>2. CASE ResumeThreads(t)
  <2>1. pc[t] = "suspender" /\ pc' = [pc EXCEPT ![t] = "run"]
    BY <1>2 DEF ResumeThreads, Goto
  <2>2. NoSuspender'
    BY <2>1 DEF IInv, WInv, TypeOK, OneCoordinator, Coordinators, NoSuspender
  <2>3. Active' = Active
    BY <2>1 DEF IInv, WInv, TypeOK, Active, Live, Parked, Gone
  <2> QED BY <2>1, <2>2, <2>3, IsRelease DEF STW!Next
<1> QED BY <1>1, <1>2 DEF ClientStep

(* Every step of the cluster is a step of the abstract lock or none. *)
LEMMA NextRefines == IInv /\ IInv' /\ [Next]_svars => [STW!Next]_(STW!vars)
<1> SUFFICES ASSUME IInv, IInv', [Next]_svars PROVE STW!Next \/ UNCHANGED STW!vars
  OBVIOUS
<1>1. CASE UNCHANGED svars \/ \E t \in Threads : SpuriousWakeup(t)
  BY <1>1, MoveStutters DEF svars, SpuriousWakeup
<1> QED BY <1>1, ProtocolStepRefines, ProgramStepRefines, LifeStepRefines,
  ClientStepRefines DEF Next

(* A cluster without threads is the abstract initial state. *)
LEMMA InitRefines == Init => STW!Init
<1> SUFFICES ASSUME Init PROVE STW!Init
  OBVIOUS
<1>1. Live = {} /\ \A t \in Threads : pc[t] # "suspender"
  BY DEF Init, Live, Gone
<1> QED BY <1>1 DEF STW!Init, Holder

(* The suspend protocol of suspend.c, with the counters, the condition variable
   and the life of the threads, implements what suspend.h promises. *)
THEOREM Refinement == Spec => ImplementsStopTheWorld
BY InitRefines, NextRefines, Invariance, PTL DEF Spec, ImplementsStopTheWorld, STW!Spec
=============================================================================
