------------------------------- MODULE WaitList -------------------------------
(***************************************************************************)
(* memory.atomic.wait and memory.atomic.notify on a shared memory          *)
(* (lib/waitlist.c; memory_wait and memory_notify of                       *)
(* lib/exec_insn_subr.c).                                                  *)
(*                                                                         *)
(* A wait is a loop of short timed waits, so that check_interrupt is       *)
(* called often enough; it may be unwound by a restartable error, with its *)
(* absolute timeout saved in the restart information, and executed again.  *)
(* One step is one critical section of g_atomics_lock.                     *)
(*                                                                         *)
(* A time is what is left of it: Tick is the clock, and an absolute time   *)
(* that is saved goes on expiring.                                         *)
(***************************************************************************)
EXTENDS Integers, Sequences, FiniteSets, SequencesExt

CONSTANTS Threads,
          Idents,      \* addresses
          Values,
          Timeouts,    \* the timeout operands that are not negative
          Forever,     \* a negative timeout operand
          Interval,    \* check_interrupt_interval_ms
          MaxCount,    \* the largest operand of notify
          MaxWaiters   \* UINT32_MAX, the limit of nwaiters

ASSUME WaitAssumption ==
  /\ IsFiniteSet(Threads) /\ Idents # {} /\ Values # {}
  /\ Timeouts \subseteq Nat /\ IsFiniteSet(Timeouts) /\ Forever \notin Nat
  /\ Interval \in Nat \ {0} /\ MaxCount \in Nat /\ MaxWaiters \in Nat \ {0}

VARIABLES word,      \* the memory
          lists,     \* the idents that have a struct waiter_list in the table
          waiters,   \* their waiters, first to last
          nwaiters,
          woken,     \* waiter.woken
          pc, call,  \* where a thread is, and the operands of its wait
          left,      \* what is left of abstimeout
          tv, tvuser, \* what is left of the present timed wait; it is abstimeout
          saved,     \* restart_type is RESTART_TIMER
          elapsed,   \* history: how long a wait with a timeout has lasted
          owed       \* history: wakeups reported by notify and not yet received

memory == <<lists, waiters, nwaiters>>
vars == <<word, lists, waiters, nwaiters, woken, pc, call, left, tv, tvuser,
          saved, elapsed, owed>>

Horizon == IF Timeouts = {} THEN 0 ELSE CHOOSE m \in Timeouts : \A n \in Timeouts : n <= m

(* The operands of a thread that does not wait; any will do. *)
NoCall == [ident |-> CHOOSE i \in Idents : TRUE,
           expected |-> CHOOSE v \in Values : TRUE, timeout |-> Forever]

TypeOK ==
  /\ word \in [Idents -> Values]
  /\ lists \subseteq Idents
  /\ waiters \in [Idents -> Seq(Threads)]
  /\ nwaiters \in [Idents -> 0..MaxWaiters]
  /\ woken \in [Threads -> BOOLEAN]
  /\ pc \in [Threads -> {"idle", "blocked", "restart", "exited"}]
  /\ call \in [Threads -> [ident : Idents, expected : Values,
                           timeout : Timeouts \cup {Forever}]]
  /\ left \in [Threads -> (0..Horizon) \cup {Forever}]
  /\ tv \in [Threads -> 0..(Horizon + Interval)]
  /\ tvuser \in [Threads -> BOOLEAN]
  /\ saved \in [Threads -> BOOLEAN]
  /\ elapsed \in [Threads -> 0..Horizon]
  /\ owed \in 0..Cardinality(Threads)

(* waiter_list_table_init *)
Init ==
  /\ word \in [Idents -> Values]
  /\ lists = {}
  /\ waiters = [i \in Idents |-> <<>>]
  /\ nwaiters = [i \in Idents |-> 0]
  /\ woken = [t \in Threads |-> FALSE]
  /\ pc = [t \in Threads |-> "idle"]
  /\ call = [t \in Threads |-> NoCall]
  /\ left = [t \in Threads |-> Forever]
  /\ tv = [t \in Threads |-> 0]
  /\ tvuser = [t \in Threads |-> FALSE]
  /\ saved = [t \in Threads |-> FALSE]
  /\ elapsed = [t \in Threads |-> 0]
  /\ owed = 0

(* memory_wait returns and the thread goes on at l; its struct waiter and its
   restart information are gone. *)
Return(t, l) ==
  /\ pc' = [pc EXCEPT ![t] = l]
  /\ call' = [call EXCEPT ![t] = NoCall]
  /\ left' = [left EXCEPT ![t] = Forever]
  /\ tv' = [tv EXCEPT ![t] = 0]
  /\ tvuser' = [tvuser EXCEPT ![t] = FALSE]
  /\ woken' = [woken EXCEPT ![t] = FALSE]
  /\ saved' = [saved EXCEPT ![t] = FALSE]
  /\ elapsed' = [elapsed EXCEPT ![t] = 0]

(* memory_wait from the label retry with l left of the timeout: the value is
   compared, then check_interrupt, then atomics_wait up to its timed wait.
   ws, nw and ls are the waiter lists it finds. *)
NotEqual(t, c, ws, nw, ls) ==
  /\ word[c.ident] # c.expected
  /\ Return(t, "idle")
  /\ waiters' = ws /\ nwaiters' = nw /\ lists' = ls

(* check_interrupt returns a restartable error: the timeout is saved. *)
Interrupted(t, c, l, ws, nw, ls) ==
  /\ word[c.ident] = c.expected
  /\ pc' = [pc EXCEPT ![t] = "restart"]
  /\ saved' = [saved EXCEPT ![t] = l # Forever]
  /\ left' = [left EXCEPT ![t] = l]
  /\ call' = [call EXCEPT ![t] = c]
  /\ tv' = [tv EXCEPT ![t] = 0]
  /\ tvuser' = [tvuser EXCEPT ![t] = FALSE]
  /\ waiters' = ws /\ nwaiters' = nw /\ lists' = ls
  /\ UNCHANGED <<woken, elapsed>>

(* check_interrupt returns a trap, or waiter_list_lookup has no memory, or the
   list is full: the execution ends. *)
Fails(t, c, ws, nw, ls) ==
  /\ word[c.ident] = c.expected
  /\ Return(t, "exited")
  /\ waiters' = ws /\ nwaiters' = nw /\ lists' = ls

(* Mutant of Blocks: the check interval, not the timeout, is taken for the
   program's. *)
Blocks_IntervalIsTimeout(t, c, l, ws, nw, ls) ==
  /\ word[c.ident] = c.expected
  /\ nw[c.ident] # MaxWaiters
  /\ waiters' = [ws EXCEPT ![c.ident] = Append(@, t)]
  /\ nwaiters' = [nw EXCEPT ![c.ident] = @ + 1]
  /\ lists' = ls \cup {c.ident}
  /\ woken' = [woken EXCEPT ![t] = FALSE]
  /\ pc' = [pc EXCEPT ![t] = "blocked"]
  /\ left' = [left EXCEPT ![t] = l]
  /\ tvuser' = [tvuser EXCEPT ![t] = l # Forever]
  /\ tv' = [tv EXCEPT ![t] = Interval]
  /\ saved' = [saved EXCEPT ![t] = FALSE]
  /\ call' = [call EXCEPT ![t] = c]
  /\ UNCHANGED elapsed

Blocks(t, c, l, ws, nw, ls) ==
  LET user == l # Forever /\ Interval >= l IN
  /\ word[c.ident] = c.expected
  /\ nw[c.ident] # MaxWaiters
  /\ waiters' = [ws EXCEPT ![c.ident] = Append(@, t)]
  /\ nwaiters' = [nw EXCEPT ![c.ident] = @ + 1]
  /\ lists' = ls \cup {c.ident}
  /\ woken' = [woken EXCEPT ![t] = FALSE]
  /\ pc' = [pc EXCEPT ![t] = "blocked"]
  /\ left' = [left EXCEPT ![t] = l]
  /\ tvuser' = [tvuser EXCEPT ![t] = user]
  /\ tv' = [tv EXCEPT ![t] = IF user THEN l ELSE Interval]
  /\ saved' = [saved EXCEPT ![t] = FALSE]
  /\ call' = [call EXCEPT ![t] = c]
  /\ UNCHANGED elapsed

(* Mutant of Attempt: after the first execution the value is not compared. *)
Attempt_NoCompare(t, c, l, ws, nw, ls) ==
  \/ pc[t] = "idle" /\ NotEqual(t, c, ws, nw, ls)
  \/ /\ pc[t] # "idle"
     /\ waiters' = [ws EXCEPT ![c.ident] = Append(@, t)]
     /\ nwaiters' = [nw EXCEPT ![c.ident] = @ + 1]
     /\ lists' = ls \cup {c.ident}
     /\ pc' = [pc EXCEPT ![t] = "blocked"]
     /\ tv' = [tv EXCEPT ![t] = Interval]
     /\ UNCHANGED <<woken, left, tvuser, saved, call, elapsed>>
  \/ Interrupted(t, c, l, ws, nw, ls)
  \/ Fails(t, c, ws, nw, ls)
  \/ Blocks(t, c, l, ws, nw, ls)

Attempt(t, c, l, ws, nw, ls) ==
  \/ NotEqual(t, c, ws, nw, ls)
  \/ Interrupted(t, c, l, ws, nw, ls)
  \/ Fails(t, c, ws, nw, ls)
  \/ Blocks(t, c, l, ws, nw, ls)

(* The first execution of the instruction. *)
WaitStart(t) == \E i \in Idents, e \in Values, timeout \in Timeouts \cup {Forever} :
  LET c == [ident |-> i, expected |-> e, timeout |-> timeout] IN
  /\ pc[t] = "idle"
  /\ Attempt(t, c, timeout, waiters, nwaiters, lists)
  /\ UNCHANGED <<word, owed>>

(* Mutant of RestartLeft: the saved time is ignored. *)
RestartLeft_Operand(t) == call[t].timeout

(* What is left of the timeout when the instruction is executed again: the
   saved absolute time is consumed, else the operand counts from now. *)
RestartLeft(t) == IF saved[t] THEN left[t] ELSE call[t].timeout

(* The execution of the instruction after a restart. *)
WaitRestart(t) ==
  /\ pc[t] = "restart"
  /\ Attempt(t, call[t], RestartLeft(t), waiters, nwaiters, lists)
  /\ UNCHANGED <<word, owed>>

(* waiter_block returns because the waiter was woken, even if its timed wait
   has timed out too. *)
WaitWoken(t) ==
  /\ pc[t] = "blocked" /\ woken[t]
  /\ Return(t, "idle")
  /\ owed' = owed - 1
  /\ UNCHANGED <<word, memory>>

(* Mutant of RemovedLists: the empty list stays in the table. *)
RemovedLists_Kept(t) == lists

(* waiter_remove, and waiter_list_free if the list is empty. *)
RemovedWaiters(t) == [waiters EXCEPT ![call[t].ident] =
                        RemoveAt(@, CHOOSE k \in DOMAIN @ : @[k] = t)]
RemovedCount(t) == [nwaiters EXCEPT ![call[t].ident] = @ - 1]
RemovedLists(t) == IF RemovedCount(t)[call[t].ident] = 0
                   THEN lists \ {call[t].ident} ELSE lists

(* Mutant of WaitTimedOut: the wakeup is not looked at after a timeout. *)
WaitTimedOut_EvenIfWoken(t) ==
  /\ pc[t] = "blocked" /\ tv[t] = 0 /\ tvuser[t]
  /\ Return(t, "idle")
  /\ waiters' = IF woken[t] THEN waiters ELSE RemovedWaiters(t)
  /\ nwaiters' = IF woken[t] THEN nwaiters ELSE RemovedCount(t)
  /\ lists' = IF woken[t] THEN lists ELSE RemovedLists(t)
  /\ UNCHANGED <<word, owed>>

(* waiter_block returns ETIMEDOUT.  If that is the timeout of the program the
   wait is over, otherwise it tries again without leaving the lock. *)
WaitTimedOut(t) ==
  /\ pc[t] = "blocked" /\ ~woken[t] /\ tv[t] = 0
  /\ IF tvuser[t]
     THEN /\ Return(t, "idle")
          /\ waiters' = RemovedWaiters(t)
          /\ nwaiters' = RemovedCount(t)
          /\ lists' = RemovedLists(t)
     ELSE Attempt(t, call[t], left[t], RemovedWaiters(t), RemovedCount(t), RemovedLists(t))
  /\ UNCHANGED <<word, owed>>

(* atomics_notify: the first waiters are removed and woken. *)
Notify(t) == \E i \in Idents, count \in 0..MaxCount :
  LET n == IF i \notin lists THEN 0
           ELSE IF count < Len(waiters[i]) THEN count ELSE Len(waiters[i])
      first == {waiters[i][k] : k \in 1..n}
  IN
  /\ pc[t] = "idle"
  /\ waiters' = [waiters EXCEPT ![i] = SubSeq(@, n + 1, Len(@))]
  /\ nwaiters' = [nwaiters EXCEPT ![i] = @ - n]
  /\ lists' = IF i \in lists /\ nwaiters[i] = n THEN lists \ {i} ELSE lists
  /\ woken' = [u \in Threads |-> woken[u] \/ u \in first]
  /\ owed' = owed + n
  /\ UNCHANGED <<word, pc, call, left, tv, tvuser, saved, elapsed>>

(* A store of the program; it takes no lock. *)
Store(t) == \E i \in Idents, v \in Values :
  /\ pc[t] = "idle"
  /\ word' = [word EXCEPT ![i] = v]
  /\ UNCHANGED <<memory, woken, pc, call, left, tv, tvuser, saved, elapsed, owed>>

(* Time passes. *)
Down(x) == IF x \in Nat /\ x > 0 THEN x - 1 ELSE x
Tick ==
  /\ left' = [t \in Threads |-> Down(left[t])]
  /\ tv' = [t \in Threads |-> IF pc[t] = "blocked" THEN Down(tv[t]) ELSE tv[t]]
  /\ elapsed' = [t \in Threads |->
       IF /\ pc[t] \in {"blocked", "restart"}
          /\ call[t].timeout # Forever /\ elapsed[t] < Horizon
       THEN elapsed[t] + 1 ELSE elapsed[t]]
  /\ UNCHANGED <<word, memory, woken, pc, call, tvuser, saved, owed>>

Next ==
  \/ \E t \in Threads : \/ WaitStart(t) \/ WaitRestart(t) \/ WaitWoken(t)
                        \/ WaitTimedOut(t) \/ Notify(t) \/ Store(t)
  \/ Tick

Spec == Init /\ [][Next]_vars

(* Threads that can run do, time passes, and a wait is not restarted at every
   execution for ever: each suspend ends, and the restarts a debug build
   injects are one in ten calls of check_interrupt. *)
Fairness ==
  /\ WF_vars(Tick)
  /\ \A t \in Threads :
       /\ WF_vars(WaitWoken(t) \/ WaitTimedOut(t))
       /\ SF_vars(WaitRestart(t) /\ pc'[t] # "restart")

FairSpec == Spec /\ Fairness

-----------------------------------------------------------------------------
(* The table of waiter lists between two critical sections: a list exists
   exactly while it has waiters (assert(!LIST_EMPTY) in atomics_notify), its
   count is its length, and it holds exactly the threads that are blocked on
   its ident and have not been woken, each once. *)
ListsMatchWaiters == TypeOK /\ \A i \in Idents :
  /\ i \in lists <=> waiters[i] # <<>>
  /\ nwaiters[i] = Len(waiters[i])
  /\ IsInjective(waiters[i])
  /\ {waiters[i][k] : k \in 1..Len(waiters[i])} =
       {t \in Threads : pc[t] = "blocked" /\ ~woken[t] /\ call[t].ident = i}

(* No wakeup is lost to a timeout or counted twice: every wakeup notify has
   reported is received as "ok" by one wait. *)
WakeupsConserved == owed = Cardinality({t \in Threads : pc[t] = "blocked" /\ woken[t]})

(* A waiter that nobody woke and whose word has not changed returns to the
   program only at its timeout: neither the short waits nor the restarts it is
   made of are visible. *)
NeverEarly == [][\A t \in Threads :
  /\ pc[t] = "blocked" /\ ~woken[t] /\ pc'[t] = "idle"
  /\ word[call[t].ident] = call[t].expected
  => call[t].timeout # Forever /\ elapsed[t] >= call[t].timeout]_vars

(* A wait with a timeout ends. *)
TimedWaitEnds == \A t \in Threads :
  pc[t] \in {"blocked", "restart"} /\ call[t].timeout # Forever
    ~> pc[t] \in {"idle", "exited"}

(* A waiter whose word has been changed for good returns, even if the notify
   came while it was unwound for a restart and found nobody to wake. *)
ChangeIsSeen == \A t \in Threads :
  (pc[t] \in {"blocked", "restart"} /\ word[call[t].ident] # call[t].expected)
    ~> (pc[t] \in {"idle", "exited"} \/ word[call[t].ident] = call[t].expected)
=============================================================================
