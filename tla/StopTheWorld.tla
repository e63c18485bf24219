---------------------------- MODULE StopTheWorld ----------------------------
(***************************************************************************)
(* What suspend.h promises to the callers of suspend_threads and           *)
(* resume_threads, with none of the counters and condition variables that  *)
(* implement it: among the threads of a cluster at most one is the holder, *)
(* and while there is a holder no other thread is active.                  *)
(***************************************************************************)
CONSTANTS Threads, NoThread

VARIABLES active,  \* the threads that are executing
          holder   \* the thread between suspend_threads and resume_threads

vars == <<active, holder>>

TypeOK == /\ active \subseteq Threads
          /\ holder \in Threads \cup {NoThread}

Init == active = {} /\ holder = NoThread

(* A thread starts or continues to execute. *)
Activate(t) == /\ holder = NoThread
               /\ t \notin active
               /\ active' = active \cup {t}
               /\ UNCHANGED holder

(* A thread stops executing: it blocks for a suspend or it ends. *)
Deactivate(t) == /\ t \in active
                 /\ holder # t
                 /\ active' = active \ {t}
                 /\ UNCHANGED holder

(* suspend_threads returns in t. *)
Acquire(t) == /\ holder = NoThread
              /\ active \subseteq {t}
              /\ active' = {t}
              /\ holder' = t

(* resume_threads is called by t. *)
Release(t) == /\ holder = t
              /\ holder' = NoThread
              /\ UNCHANGED active

Next == \E t \in Threads : Activate(t) \/ Deactivate(t) \/ Acquire(t) \/ Release(t)

Spec == Init /\ [][Next]_vars
=============================================================================
