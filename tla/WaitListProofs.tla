--------------------------- MODULE WaitListProofs ---------------------------
(***************************************************************************)
(* Proofs about WaitList for any number of threads and addresses and any   *)
(* timeouts.                                                               *)
(*                                                                         *)
(* Where a list is, who is on it and how many wakeups are under way depend *)
(* on one another: a waiter removes itself by its place in the list of its *)
(* own ident, so it must be there, once, exactly while it is blocked and   *)
(* not woken (Consistent); and a thread that does not wait has no wakeup   *)
(* pending (Awake).  The deadline of a wait is carried through short waits *)
(* and restarts in left, tv and saved, and Deadline says what they add up  *)
(* to with the time that has passed.                                       *)
(***************************************************************************)
EXTENDS WaitList, Induction, SequenceTheorems, FunctionTheorems

Elements(s) == {s[k] : k \in 1..Len(s)}
Waiting == {t \in Threads : pc[t] = "blocked" /\ ~woken[t]}
Pending == {t \in Threads : pc[t] = "blocked" /\ woken[t]}

(* The lists ws, their counts nw and the table ls of nonempty ones hold the
   waiters of the set W, each in the list of its ident. *)
Consistent(ws, nw, ls, W) ==
  /\ ws \in [Idents -> Seq(Threads)]
  /\ nw \in [Idents -> 0..MaxWaiters]
  /\ ls \subseteq Idents
  /\ \A i \in Idents :
       /\ i \in ls <=> ws[i] # <<>>
       /\ nw[i] = Len(ws[i])
       /\ IsInjective(ws[i])
       /\ Elements(ws[i]) = {t \in W : call[t].ident = i}

Awake == \A t \in Threads : pc[t] # "blocked" => ~woken[t]

DeadlineOf(t) ==
  /\ pc[t] = "idle" => elapsed[t] = 0
  /\ pc[t] \in {"blocked", "restart"} =>
       /\ left[t] = Forever <=> call[t].timeout = Forever
       /\ call[t].timeout # Forever => left[t] + elapsed[t] >= call[t].timeout
  /\ pc[t] = "restart" => (saved[t] <=> call[t].timeout # Forever)
  /\ pc[t] = "blocked" /\ tvuser[t] => left[t] # Forever /\ tv[t] = left[t]

Deadline == \A t \in Threads : DeadlineOf(t)

LInv ==
  /\ TypeOK
  /\ Consistent(waiters, nwaiters, lists, Waiting)
  /\ Awake
  /\ owed = Cardinality(Pending)
  /\ Deadline

-----------------------------------------------------------------------------
(* Lists of distinct waiters: one more at the end, one removed from its
   place, and the first n removed. *)
LEMMA AppendWaiter ==
  ASSUME NEW S, NEW s \in Seq(S), NEW e \in S, IsInjective(s), e \notin Elements(s)
  PROVE  /\ Append(s, e) \in Seq(S) /\ Append(s, e) # <<>>
         /\ Len(Append(s, e)) = Len(s) + 1
         /\ IsInjective(Append(s, e))
         /\ Elements(Append(s, e)) = Elements(s) \cup {e}
<1> DEFINE r == Append(s, e)
<1>1. /\ r \in Seq(S) /\ r # <<>> /\ Len(r) = Len(s) + 1
      /\ \A k \in 1..Len(s) : r[k] = s[k]
      /\ r[Len(s) + 1] = e
  BY AppendProperties
<1>2. Len(s) \in Nat /\ DOMAIN s = 1..Len(s) /\ DOMAIN r = 1..Len(r)
  BY <1>1, LenProperties
<1> HIDE DEF r
<1>3. \A k \in 1..Len(s) : s[k] # e
  BY DEF Elements
<1>4. IsInjective(r)
  BY <1>1, <1>2, <1>3 DEF IsInjective
<1>5. Elements(r) = Elements(s) \cup {e}
  <2>1. \A k \in 1..Len(r) : k \in 1..Len(s) \/ k = Len(s) + 1
    BY <1>1, <1>2
  <2>2. \A k \in 1..Len(s) : k \in 1..Len(r)
    BY <1>1, <1>2
  <2>3. Len(s) + 1 \in 1..Len(r)
    BY <1>1, <1>2
  <2> QED BY <1>1, <2>1, <2>2, <2>3 DEF Elements
<1> QED BY <1>1, <1>4, <1>5 DEF r

(* A sequence without its first n elements. *)
LEMMA SubSeqFrom ==
  ASSUME NEW S, NEW s \in Seq(S), NEW n \in 0..Len(s)
  PROVE  /\ SubSeq(s, n + 1, Len(s)) \in Seq(S)
         /\ Len(SubSeq(s, n + 1, Len(s))) = Len(s) - n
         /\ \A k \in 1..(Len(s) - n) : SubSeq(s, n + 1, Len(s))[k] = s[n + k]
<1> DEFINE r == SubSeq(s, n + 1, Len(s))
<1>1. Len(s) \in Nat /\ n \in Nat /\ \A k \in 1..Len(s) : s[k] \in S
  BY LenProperties, ElementOfSeq
<1>2. n + 1 \in Int /\ Len(s) \in Int /\ \A k \in (n + 1)..Len(s) : s[k] \in S
  BY <1>1
<1>3. /\ r \in Seq(S) /\ Len(r) = (IF n + 1 <= Len(s) THEN Len(s) - (n + 1) + 1 ELSE 0)
      /\ \A k \in 1..(Len(s) - (n + 1) + 1) : r[k] = s[(n + 1) + k - 1]
  BY <1>2, SubSeqProperties
<1> HIDE DEF r
<1>4. Len(r) = Len(s) - n
  BY <1>1, <1>3
<1>5. ASSUME NEW k \in 1..(Len(s) - n) PROVE r[k] = s[n + k]
  <2>1. k \in 1..(Len(s) - (n + 1) + 1) /\ (n + 1) + k - 1 = n + k
    BY <1>1
  <2> QED BY <1>3, <2>1
<1> QED BY <1>3, <1>4, <1>5 DEF r

(* LIST_REMOVE: the others stay, in their order, each once. *)
LEMMA RemoveWaiter ==
  ASSUME NEW S, NEW s \in Seq(S), IsInjective(s), NEW p \in 1..Len(s)
  PROVE  /\ RemoveAt(s, p) \in Seq(S)
         /\ Len(RemoveAt(s, p)) = Len(s) - 1
         /\ IsInjective(RemoveAt(s, p))
         /\ Elements(RemoveAt(s, p)) = Elements(s) \ {s[p]}
<1> DEFINE a == SubSeq(s, 1, p - 1)
           b == SubSeq(s, p + 1, Len(s))
           r == RemoveAt(s, p)
<1>1. Len(s) \in Nat /\ DOMAIN s = 1..Len(s) /\ \A k \in 1..Len(s) : s[k] \in S
  BY LenProperties, ElementOfSeq
<1>2. /\ a \in Seq(S) /\ Len(a) = p - 1
      /\ \A k \in 1..(p - 1) : a[k] = s[k]
  <2>1. /\ a \in Seq(S) /\ Len(a) = (IF 1 <= p - 1 THEN p - 1 - 1 + 1 ELSE 0)
        /\ \A k \in 1..(p - 1 - 1 + 1) : a[k] = s[1 + k - 1]
    <3>1. 1 \in Int /\ p - 1 \in Int /\ \A k \in 1..(p - 1) : s[k] \in S
      BY <1>1
    <3> QED BY <3>1, SubSeqProperties
  <2> HIDE DEF a
  <2> QED BY <1>1, <2>1
<1>3. /\ b \in Seq(S) /\ Len(b) = Len(s) - p
      /\ \A k \in 1..(Len(s) - p) : b[k] = s[p + k]
  <2>1. p \in 0..Len(s)
    BY <1>1
  <2> QED BY <2>1, SubSeqFrom
<1>4. r = a \o b
  BY DEF RemoveAt
<1> HIDE DEF a, b, r
<1>5. /\ r \in Seq(S) /\ Len(r) = Len(a) + Len(b)
      /\ \A k \in 1..(Len(a) + Len(b)) : r[k] = IF k <= Len(a) THEN a[k] ELSE b[k - Len(a)]
  BY <1>2, <1>3, <1>4, ConcatProperties
<1>6. /\ Len(r) = Len(s) - 1 /\ DOMAIN r = 1..Len(r)
      /\ \A k \in 1..Len(r) : r[k] = IF k < p THEN s[k] ELSE s[k + 1]
  <2>1. Len(r) = Len(s) - 1
    BY <1>1, <1>2, <1>3, <1>5
  <2>2. ASSUME NEW k \in 1..Len(r) PROVE r[k] = IF k < p THEN s[k] ELSE s[k + 1]
    <3>1. CASE k < p
      BY <1>1, <1>2, <1>3, <1>5, <2>1, <3>1
    <3>2. CASE ~(k < p)
      <4>1. r[k] = b[k - Len(a)]
        BY <1>1, <1>2, <1>3, <1>5, <2>1, <3>2
      <4>2. k - Len(a) \in 1..(Len(s) - p) /\ p + (k - Len(a)) = k + 1
        BY <1>1, <1>2, <2>1, <3>2
      <4> QED BY <1>3, <3>2, <4>1, <4>2
    <3> QED BY <3>1, <3>2
  <2> QED BY <1>5, <2>1, <2>2, LenProperties
<1>7. IsInjective(r)
  <2> SUFFICES ASSUME NEW k \in 1..Len(r), NEW m \in 1..Len(r), r[k] = r[m] PROVE k = m
    BY <1>6 DEF IsInjective
  <2> DEFINE kk == IF k < p THEN k ELSE k + 1
             mm == IF m < p THEN m ELSE m + 1
  <2>1. kk \in 1..Len(s) /\ mm \in 1..Len(s)
    BY <1>1, <1>6
  <2>2. s[kk] = s[mm]
    BY <1>6
  <2>3. kk = mm
    BY <1>1, <2>1, <2>2 DEF IsInjective
  <2> QED BY <1>1, <1>6, <2>3
<1>8. Elements(r) = Elements(s) \ {s[p]}
  <2>1. ASSUME NEW k \in 1..Len(r) PROVE r[k] \in Elements(s) \ {s[p]}
    <3> DEFINE kk == IF k < p THEN k ELSE k + 1
    <3>1. kk \in 1..Len(s) /\ kk # p
      BY <1>1, <1>6
    <3>2. r[k] = s[kk]
      BY <1>6
    <3> HIDE DEF kk
    <3>3. s[kk] # s[p]
      BY <1>1, <3>1 DEF IsInjective
    <3> QED BY <3>1, <3>2, <3>3 DEF Elements
  <2>2. ASSUME NEW k \in 1..Len(s), s[k] # s[p] PROVE s[k] \in Elements(r)
    <3> DEFINE kk == IF k < p THEN k ELSE k - 1
    <3>1. k # p
      BY <2>2
    <3>2. kk \in 1..Len(r) /\ k = IF kk < p THEN kk ELSE kk + 1
      BY <1>1, <1>6, <3>1
    <3> HIDE DEF kk
    <3>3. r[kk] = s[k]
      BY <1>6, <3>2
    <3> QED BY <3>2, <3>3 DEF Elements
  <2> QED BY <2>1, <2>2 DEF Elements
<1> QED BY <1>5, <1>6, <1>7, <1>8 DEF r

FirstOf(s, n) == {s[k] : k \in 1..n}
Rest(s, n) == SubSeq(s, n + 1, Len(s))

(* atomics_notify: the first n waiters, which are n threads, leave the list. *)
LEMMA RemoveFirstWaiters ==
  ASSUME NEW S, NEW s \in Seq(S), IsInjective(s), NEW n \in 0..Len(s)
  PROVE  /\ Rest(s, n) \in Seq(S) /\ Len(Rest(s, n)) = Len(s) - n /\ IsInjective(Rest(s, n))
         /\ FirstOf(s, n) \subseteq Elements(s)
         /\ Elements(Rest(s, n)) = Elements(s) \ FirstOf(s, n)
         /\ IsFiniteSet(FirstOf(s, n)) /\ Cardinality(FirstOf(s, n)) = n
<1> DEFINE r == Rest(s, n)
           first == FirstOf(s, n)
<1>1. Len(s) \in Nat /\ DOMAIN s = 1..Len(s) /\ \A k \in 1..Len(s) : s[k] \in S
  BY LenProperties, ElementOfSeq
<1>2. /\ r \in Seq(S) /\ Len(r) = Len(s) - n
      /\ \A k \in 1..(Len(s) - n) : r[k] = s[n + k]
  BY <1>1, SubSeqFrom DEF Rest
<1> HIDE DEF r
<1>3. DOMAIN r = 1..Len(r)
  BY <1>2, LenProperties
<1>4. IsInjective(r)
  <2> SUFFICES ASSUME NEW k \in 1..Len(r), NEW m \in 1..Len(r), r[k] = r[m] PROVE k = m
    BY <1>3 DEF IsInjective
  <2>1. n + k \in 1..Len(s) /\ n + m \in 1..Len(s) /\ s[n + k] = s[n + m]
    BY <1>1, <1>2
  <2>2. n + k = n + m
    BY <1>1, <2>1 DEF IsInjective
  <2> QED BY <1>1, <1>2, <2>2
<1>5. first \subseteq Elements(s)
  BY <1>1 DEF Elements, FirstOf
<1>6. Elements(r) = Elements(s) \ first
  <2>1. ASSUME NEW k \in 1..Len(r) PROVE r[k] \in Elements(s) \ first
    <3>1. n + k \in 1..Len(s) /\ r[k] = s[n + k] /\ n + k \notin 1..n
      BY <1>1, <1>2
    <3>2. \A m \in 1..n : m \in 1..Len(s) /\ m # n + k
      BY <1>1, <3>1
    <3>3. \A m \in 1..n : s[m] # s[n + k]
      BY <1>1, <3>1, <3>2 DEF IsInjective
    <3> QED BY <3>1, <3>3 DEF Elements, FirstOf
  <2>2. ASSUME NEW k \in 1..Len(s), s[k] \notin first PROVE s[k] \in Elements(r)
    <3>1. k \notin 1..n
      BY <2>2 DEF FirstOf
    <3>2. k - n \in 1..Len(r) /\ n + (k - n) = k /\ k - n \in 1..(Len(s) - n)
      BY <1>1, <1>2, <3>1
    <3>3. r[k - n] = s[k]
      BY <1>2, <3>2
    <3> QED BY <3>2, <3>3 DEF Elements
  <2> QED BY <2>1, <2>2 DEF Elements
<1>7. IsFiniteSet(first) /\ Cardinality(first) = n
  <2>1. IsFiniteSet(1..n) /\ Cardinality(1..n) = n
    BY <1>1, FS_Interval
  <2>2. \A k \in 1..n : k \in 1..Len(s)
    BY <1>1
  <2> DEFINE f == [k \in 1..n |-> s[k]]
  <2>3. f \in Bijection(1..n, first)
    <3>1. f \in [1..n -> first]
      BY DEF FirstOf
    <3>2. \A k, m \in 1..n : f[k] = f[m] => k = m
      BY <1>1, <2>2 DEF IsInjective
    <3>3. \A y \in first : \E k \in 1..n : f[k] = y
      BY DEF FirstOf
    <3> HIDE DEF f, first
    <3> QED BY <3>1, <3>2, <3>3, Fun_IsBij
  <2> HIDE DEF f, first
  <2>4. ExistsBijection(1..n, first)
    BY <2>3 DEF ExistsBijection
  <2> QED BY <2>1, <2>4, FS_Bijection
<1> QED BY <1>2, <1>4, <1>5, <1>6, <1>7 DEF r

-----------------------------------------------------------------------------
Calls == [ident : Idents, expected : Values, timeout : Timeouts \cup {Forever}]
Times == (0..Horizon) \cup {Forever}

(* Horizon bounds the timeouts, so a timeout is a time. *)
LEMMA TimeoutBound == Horizon \in Nat /\ \A n \in Timeouts : n \in 0..Horizon
<1>1. CASE Timeouts = {}
  BY <1>1 DEF Horizon
<1>2. CASE Timeouts # {}
  <2>1. Timeouts \in SUBSET Nat /\ IsFiniteSet(Timeouts)
    BY WaitAssumption
  <2>2. \E m \in Timeouts : \A n \in Timeouts : n <= m
    BY <1>2, <2>1, LargestElement
  <2>3. Horizon \in Timeouts /\ \A n \in Timeouts : n <= Horizon
    BY <1>2, <2>2 DEF Horizon
  <2>4. Horizon \in Nat /\ \A n \in Timeouts : n \in Nat
    BY <2>1, <2>3
  <2> QED BY <2>3, <2>4
<1> QED BY <1>1, <1>2

(* No timeout is the one of a wait without a timeout. *)
LEMMA ForeverFacts == Forever \notin Nat /\ Forever \notin 0..Horizon /\ Forever \notin Timeouts
<1>1. Forever \notin Nat /\ Timeouts \subseteq Nat
  BY WaitAssumption
<1>2. 0..Horizon \subseteq Nat
  BY TimeoutBound
<1> QED BY <1>1, <1>2

(* The operands kept for a thread that does not wait have the type of operands. *)
LEMMA NoCallType == NoCall \in Calls
<1>1. (CHOOSE i \in Idents : TRUE) \in Idents
  BY WaitAssumption
<1>2. (CHOOSE v \in Values : TRUE) \in Values
  BY WaitAssumption
<1> QED BY <1>1, <1>2 DEF NoCall, Calls

(* What a step of t leaves alone. *)
OthersSame(t) == \A u \in Threads \ {t} :
  /\ pc'[u] = pc[u] /\ call'[u] = call[u] /\ left'[u] = left[u] /\ tv'[u] = tv[u]
  /\ (tvuser'[u] <=> tvuser[u]) /\ (woken'[u] <=> woken[u]) /\ (saved'[u] <=> saved[u])
  /\ elapsed'[u] = elapsed[u]

(* The types of what belongs to the threads. *)
ThreadTypes ==
  /\ pc \in [Threads -> {"idle", "blocked", "restart", "exited"}]
  /\ call \in [Threads -> Calls]
  /\ left \in [Threads -> Times]
  /\ tv \in [Threads -> 0..(Horizon + Interval)]
  /\ tvuser \in [Threads -> BOOLEAN]
  /\ woken \in [Threads -> BOOLEAN]
  /\ saved \in [Threads -> BOOLEAN]
  /\ elapsed \in [Threads -> 0..Horizon]

(* A value stored for one thread. *)
LEMMA Stored ==
  ASSUME NEW D, NEW V, NEW f \in [D -> V], NEW d \in D, NEW x \in V
  PROVE  /\ [f EXCEPT ![d] = x] \in [D -> V]
         /\ [f EXCEPT ![d] = x][d] = x
         /\ \A e \in D \ {d} : [f EXCEPT ![d] = x][e] = f[e]
  OBVIOUS

(* A flag stored for one thread. *)
LEMMA StoredBoolean ==
  ASSUME NEW D, NEW f \in [D -> BOOLEAN], NEW d \in D, NEW x \in BOOLEAN,
         NEW g, g = [f EXCEPT ![d] = x]
  PROVE  /\ g \in [D -> BOOLEAN]
         /\ g[d] <=> x
         /\ \A e \in D \ {d} : g[e] <=> f[e]
<1>1. PICK B : B = BOOLEAN
  OBVIOUS
<1>2. g \in [D -> B] /\ g[d] = x /\ \A e \in D \ {d} : g[e] = f[e]
  <2>1. f \in [D -> B] /\ x \in B
    BY <1>1
  <2> QED BY <2>1, Stored
<1> QED BY <1>1, <1>2, Zenon

(* memory_wait returns. *)
LEMMA ReturnFacts ==
  ASSUME ThreadTypes, NEW t \in Threads, NEW l \in {"idle", "exited"}, Return(t, l)
  PROVE  ThreadTypes' /\ OthersSame(t) /\ pc'[t] = l /\ elapsed'[t] = 0 /\ ~woken'[t]
<1>1. FALSE \in BOOLEAN /\ Horizon \in Nat /\ Interval \in Nat /\ NoCall \in Calls
  BY TimeoutBound, WaitAssumption, NoCallType
<1>2. /\ pc' \in [Threads -> {"idle", "blocked", "restart", "exited"}]
      /\ pc'[t] = l /\ \A u \in Threads \ {t} : pc'[u] = pc[u]
  BY DEF ThreadTypes, Return
<1>3. /\ call' \in [Threads -> Calls] /\ \A u \in Threads \ {t} : call'[u] = call[u]
  BY <1>1 DEF ThreadTypes, Return
<1>4. /\ left' \in [Threads -> Times] /\ \A u \in Threads \ {t} : left'[u] = left[u]
  BY DEF ThreadTypes, Return, Times
<1>5. /\ tv' \in [Threads -> 0..(Horizon + Interval)]
      /\ \A u \in Threads \ {t} : tv'[u] = tv[u]
  BY <1>1 DEF ThreadTypes, Return
<1>6. /\ elapsed' \in [Threads -> 0..Horizon] /\ elapsed'[t] = 0
      /\ \A u \in Threads \ {t} : elapsed'[u] = elapsed[u]
  BY <1>1 DEF ThreadTypes, Return
<1>7. /\ tvuser' \in [Threads -> BOOLEAN] /\ \A u \in Threads \ {t} : tvuser'[u] <=> tvuser[u]
  BY <1>1, StoredBoolean, Zenon DEF ThreadTypes, Return
<1>8. /\ saved' \in [Threads -> BOOLEAN] /\ \A u \in Threads \ {t} : saved'[u] <=> saved[u]
  BY <1>1, StoredBoolean, Zenon DEF ThreadTypes, Return
<1>9. /\ woken' \in [Threads -> BOOLEAN] /\ ~woken'[t]
      /\ \A u \in Threads \ {t} : woken'[u] <=> woken[u]
  BY <1>1, StoredBoolean, Zenon DEF ThreadTypes, Return
<1> QED BY <1>2, <1>3, <1>4, <1>5, <1>6, <1>7, <1>8, <1>9, Zenon DEF ThreadTypes, OthersSame

(* The set of the waiters, and of those with a wakeup, when one thread that is
   not woken leaves its wait, or begins or renews it. *)
LEMMA WaitingFacts ==
  ASSUME NEW t \in Threads, OthersSame(t), ~woken[t], ~woken'[t]
  PROVE  /\ pc'[t] # "blocked" => Waiting' = Waiting \ {t}
         /\ pc'[t] = "blocked" => Waiting' = (Waiting \ {t}) \cup {t}
         /\ Pending' = Pending
<1>1. \A u \in Threads \ {t} : pc'[u] = pc[u] /\ (woken'[u] <=> woken[u])
  BY DEF OthersSame
<1> QED BY <1>1, Zenon DEF Waiting, Pending

(* The lists hold the waiters other than t, and t no longer waits. *)
LEMMA Settled ==
  ASSUME LInv, ThreadTypes', NEW t \in Threads, OthersSame(t), ~woken[t], ~woken'[t],
         pc'[t] # "blocked", UNCHANGED <<word, owed>>, DeadlineOf(t)',
         Consistent(waiters', nwaiters', lists', Waiting \ {t})
  PROVE  LInv'
<1>1. Waiting' = Waiting \ {t} /\ Pending' = Pending
  BY WaitingFacts
<1>2. Consistent(waiters, nwaiters, lists, Waiting)'
  <2>1. \A u \in Waiting \ {t} : call'[u] = call[u]
    BY DEF OthersSame, Waiting
  <2>2. \A i : {u \in Waiting \ {t} : call'[u].ident = i} = {u \in Waiting \ {t} : call[u].ident = i}
    BY <2>1
  <2> QED BY <1>1, <2>2 DEF Consistent
<1>3. TypeOK'
  <2>1. word' \in [Idents -> Values] /\ owed' \in 0..Cardinality(Threads)
    BY DEF LInv, TypeOK
  <2>2. /\ lists' \subseteq Idents /\ waiters' \in [Idents -> Seq(Threads)]
        /\ nwaiters' \in [Idents -> 0..MaxWaiters]
    BY DEF Consistent
  <2> QED BY <2>1, <2>2, Zenon DEF TypeOK, ThreadTypes, Calls, Times
<1>4. Awake'
  BY DEF LInv, Awake, OthersSame
<1>5. (owed = Cardinality(Pending))'
  BY <1>1 DEF LInv
<1>6. Deadline'
  BY DEF LInv, Deadline, DeadlineOf, OthersSame
<1> QED BY <1>2, <1>3, <1>4, <1>5, <1>6 DEF LInv

(* The exits of memory_wait. *)
LEMMA ReturnInv ==
  ASSUME LInv, NEW t \in Threads, NEW l \in {"idle", "exited"}, Return(t, l), ~woken[t],
         UNCHANGED <<word, owed>>,
         Consistent(waiters', nwaiters', lists', Waiting \ {t})
  PROVE  LInv'
<1>1. ThreadTypes
  BY Zenon DEF LInv, TypeOK, ThreadTypes, Calls, Times
<1>2. ThreadTypes' /\ OthersSame(t) /\ pc'[t] = l /\ elapsed'[t] = 0 /\ ~woken'[t]
  BY <1>1, ReturnFacts
<1>3. DeadlineOf(t)'
  BY <1>2 DEF DeadlineOf
<1> QED BY <1>2, <1>3, Settled

(* check_interrupt unwinds the wait for a restart. *)
LEMMA InterruptedInv ==
  ASSUME LInv, NEW t \in Threads, NEW c \in Calls, NEW l \in Times,
         NEW ws, NEW nw, NEW ls, Interrupted(t, c, l, ws, nw, ls), ~woken[t],
         UNCHANGED <<word, owed>>, Consistent(ws, nw, ls, Waiting \ {t}),
         c.timeout = Forever <=> l = Forever,
         c.timeout # Forever => l + elapsed[t] >= c.timeout
  PROVE  LInv'
<1>1. ThreadTypes
  BY Zenon DEF LInv, TypeOK, ThreadTypes, Calls, Times
<1>2. Horizon \in Nat /\ Interval \in Nat /\ FALSE \in BOOLEAN /\ (l # Forever) \in BOOLEAN
  BY TimeoutBound, WaitAssumption
<1>3. /\ pc' \in [Threads -> {"idle", "blocked", "restart", "exited"}]
      /\ pc'[t] = "restart" /\ \A u \in Threads \ {t} : pc'[u] = pc[u]
  BY <1>1 DEF ThreadTypes, Interrupted
<1>4. /\ call' \in [Threads -> Calls] /\ call'[t] = c
      /\ \A u \in Threads \ {t} : call'[u] = call[u]
  BY <1>1 DEF ThreadTypes, Interrupted
<1>5. /\ left' \in [Threads -> Times] /\ left'[t] = l
      /\ \A u \in Threads \ {t} : left'[u] = left[u]
  BY <1>1 DEF ThreadTypes, Interrupted
<1>6. /\ tv' \in [Threads -> 0..(Horizon + Interval)]
      /\ \A u \in Threads \ {t} : tv'[u] = tv[u]
  BY <1>1, <1>2 DEF ThreadTypes, Interrupted
<1>7. /\ tvuser' \in [Threads -> BOOLEAN] /\ \A u \in Threads \ {t} : tvuser'[u] <=> tvuser[u]
  BY <1>1, <1>2, StoredBoolean, Zenon DEF ThreadTypes, Interrupted
<1>8. /\ saved' \in [Threads -> BOOLEAN] /\ (saved'[t] <=> l # Forever)
      /\ \A u \in Threads \ {t} : saved'[u] <=> saved[u]
  <2>1. PICK x \in BOOLEAN : x = (l # Forever)
    BY <1>2, Zenon
  <2>2. saved' = [saved EXCEPT ![t] = x] /\ saved \in [Threads -> BOOLEAN]
    BY <1>1, <2>1, Zenon DEF ThreadTypes, Interrupted
  <2>3. /\ saved' \in [Threads -> BOOLEAN] /\ (saved'[t] <=> x)
        /\ \A u \in Threads \ {t} : saved'[u] <=> saved[u]
    BY <2>2, StoredBoolean, Zenon
  <2> QED BY <2>1, <2>3, Zenon
<1>9. woken' = woken /\ elapsed' = elapsed
  BY DEF Interrupted
<1>10. ThreadTypes'
  BY <1>1, <1>3, <1>4, <1>5, <1>6, <1>7, <1>8, <1>9, Zenon DEF ThreadTypes
<1>11. OthersSame(t)
  BY <1>3, <1>4, <1>5, <1>6, <1>7, <1>8, <1>9, Zenon DEF OthersSame
<1>12. DeadlineOf(t)'
  <2>1. /\ left'[t] = Forever <=> call'[t].timeout = Forever
        /\ call'[t].timeout # Forever => left'[t] + elapsed'[t] >= call'[t].timeout
    BY <1>4, <1>5, <1>9
  <2>2. saved'[t] <=> call'[t].timeout # Forever
    BY <1>4, <1>8, Zenon
  <2> QED BY <1>3, <2>1, <2>2 DEF DeadlineOf
<1>13. Consistent(waiters', nwaiters', lists', Waiting \ {t})
  BY DEF Interrupted
<1> QED BY <1>3, <1>9, <1>10, <1>11, <1>12, <1>13, Settled

(* atomics_wait puts the thread at the end of the list and blocks. *)
LEMMA BlocksInv ==
  ASSUME LInv, NEW t \in Threads, NEW c \in Calls, NEW l \in Times,
         NEW ws, NEW nw, NEW ls, Blocks(t, c, l, ws, nw, ls), ~woken[t],
         UNCHANGED <<word, owed>>, Consistent(ws, nw, ls, Waiting \ {t}),
         c.timeout = Forever <=> l = Forever,
         c.timeout # Forever => l + elapsed[t] >= c.timeout
  PROVE  LInv'
<1> DEFINE user == l # Forever /\ Interval >= l
           i == c.ident
           W == Waiting \ {t}
<1>1. ThreadTypes
  BY Zenon DEF LInv, TypeOK, ThreadTypes, Calls, Times
<1>2. Horizon \in Nat /\ Interval \in Nat /\ FALSE \in BOOLEAN /\ user \in BOOLEAN /\ i \in Idents
  BY TimeoutBound, WaitAssumption DEF Calls
<1>3. /\ pc' \in [Threads -> {"idle", "blocked", "restart", "exited"}]
      /\ pc'[t] = "blocked" /\ \A u \in Threads \ {t} : pc'[u] = pc[u]
  BY <1>1 DEF ThreadTypes, Blocks
<1>4. /\ call' \in [Threads -> Calls] /\ call'[t] = c
      /\ \A u \in Threads \ {t} : call'[u] = call[u]
  BY <1>1 DEF ThreadTypes, Blocks
<1>5. /\ left' \in [Threads -> Times] /\ left'[t] = l
      /\ \A u \in Threads \ {t} : left'[u] = left[u]
  BY <1>1 DEF ThreadTypes, Blocks
<1>6. /\ tv' \in [Threads -> 0..(Horizon + Interval)] /\ (user => tv'[t] = l)
      /\ \A u \in Threads \ {t} : tv'[u] = tv[u]
  <2>1. PICK x : x = IF user THEN l ELSE Interval
    OBVIOUS
  <2>2. x \in 0..(Horizon + Interval) /\ (user => x = l)
    BY <1>2, <2>1 DEF Times
  <2>3. tv' = [tv EXCEPT ![t] = x] /\ tv \in [Threads -> 0..(Horizon + Interval)]
    BY <1>1, <2>1 DEF ThreadTypes, Blocks
  <2> HIDE DEF user
  <2> QED BY <2>2, <2>3
<1>7. /\ tvuser' \in [Threads -> BOOLEAN] /\ (tvuser'[t] <=> user)
      /\ \A u \in Threads \ {t} : tvuser'[u] <=> tvuser[u]
  <2>1. PICK x \in BOOLEAN : x = user
    BY <1>2, Zenon
  <2>2. tvuser' = [tvuser EXCEPT ![t] = x] /\ tvuser \in [Threads -> BOOLEAN]
    BY <1>1, <2>1, Zenon DEF ThreadTypes, Blocks
  <2>3. /\ tvuser' \in [Threads -> BOOLEAN] /\ (tvuser'[t] <=> x)
        /\ \A u \in Threads \ {t} : tvuser'[u] <=> tvuser[u]
    BY <2>2, StoredBoolean, Zenon
  <2> QED BY <2>1, <2>3, Zenon
<1>8. /\ saved' \in [Threads -> BOOLEAN] /\ \A u \in Threads \ {t} : saved'[u] <=> saved[u]
  BY <1>1, <1>2, StoredBoolean, Zenon DEF ThreadTypes, Blocks
<1>9. /\ woken' \in [Threads -> BOOLEAN] /\ ~woken'[t]
      /\ \A u \in Threads \ {t} : woken'[u] <=> woken[u]
  BY <1>1, <1>2, StoredBoolean, Zenon DEF ThreadTypes, Blocks
<1>10. elapsed' = elapsed
  BY DEF Blocks
<1>11. ThreadTypes'
  BY <1>1, <1>3, <1>4, <1>5, <1>6, <1>7, <1>8, <1>9, <1>10, Zenon DEF ThreadTypes
<1>12. OthersSame(t)
  BY <1>3, <1>4, <1>5, <1>6, <1>7, <1>8, <1>9, <1>10, Zenon DEF OthersSame
<1>13. DeadlineOf(t)'
  <2>1. /\ left'[t] = Forever <=> call'[t].timeout = Forever
        /\ call'[t].timeout # Forever => left'[t] + elapsed'[t] >= call'[t].timeout
    BY <1>4, <1>5, <1>10
  <2>2. tvuser'[t] => left'[t] # Forever /\ tv'[t] = left'[t]
    BY <1>5, <1>6, <1>7, Zenon
  <2> QED BY <1>3, <2>1, <2>2 DEF DeadlineOf
<1>14. Waiting' = W \cup {t} /\ Pending' = Pending
  BY <1>3, <1>9, <1>12, WaitingFacts
<1> HIDE DEF user
<1>15. /\ waiters' = [ws EXCEPT ![i] = Append(ws[i], t)]
       /\ nwaiters' = [nw EXCEPT ![i] = nw[i] + 1]
       /\ lists' = ls \cup {i} /\ nw[i] # MaxWaiters
  BY DEF Blocks
<1>16. Consistent(waiters, nwaiters, lists, Waiting)'
  <2>1. /\ ws[i] \in Seq(Threads) /\ IsInjective(ws[i]) /\ t \notin Elements(ws[i])
        /\ Elements(ws[i]) = {u \in W : call[u].ident = i} /\ nw[i] = Len(ws[i])
        /\ nw[i] \in 0..MaxWaiters
    BY <1>2 DEF Consistent
  <2>2. /\ Append(ws[i], t) \in Seq(Threads) /\ Append(ws[i], t) # <<>>
        /\ Len(Append(ws[i], t)) = Len(ws[i]) + 1
        /\ IsInjective(Append(ws[i], t))
        /\ Elements(Append(ws[i], t)) = Elements(ws[i]) \cup {t}
    BY <2>1, AppendWaiter
  <2>3. /\ waiters' \in [Idents -> Seq(Threads)] /\ waiters'[i] = Append(ws[i], t)
        /\ \A k \in Idents \ {i} : waiters'[k] = ws[k]
    <3>1. ws \in [Idents -> Seq(Threads)]
      BY DEF Consistent
    <3> QED BY <1>2, <1>15, <2>2, <3>1
  <2>4. /\ nwaiters' \in [Idents -> 0..MaxWaiters] /\ nwaiters'[i] = nw[i] + 1
        /\ \A k \in Idents \ {i} : nwaiters'[k] = nw[k]
    <3>1. nw \in [Idents -> 0..MaxWaiters] /\ MaxWaiters \in Nat
      BY WaitAssumption DEF Consistent
    <3>2. nw[i] + 1 \in 0..MaxWaiters
      BY <1>15, <2>1, <3>1
    <3> QED BY <1>2, <1>15, <3>1, <3>2
  <2>5. \A k : {u \in W : call'[u].ident = k} = {u \in W : call[u].ident = k}
    BY <1>4 DEF Waiting
  <2>6. {u \in W \cup {t} : call'[u].ident = i} = {u \in W : call[u].ident = i} \cup {t}
    BY <1>4, <2>5
  <2>7. \A k \in Idents \ {i} :
          {u \in W \cup {t} : call'[u].ident = k} = {u \in W : call[u].ident = k}
    BY <1>4, <2>5
  <2> HIDE DEF W, i
  <2>8. /\ i \in lists' /\ waiters'[i] # <<>> /\ nwaiters'[i] = Len(waiters'[i])
        /\ IsInjective(waiters'[i])
        /\ Elements(waiters'[i]) = {u \in Waiting' : call'[u].ident = i}
    BY <1>14, <1>15, <2>1, <2>2, <2>3, <2>4, <2>6
  <2>9. ASSUME NEW k \in Idents \ {i}
        PROVE  /\ k \in lists' <=> waiters'[k] # <<>>
               /\ nwaiters'[k] = Len(waiters'[k]) /\ IsInjective(waiters'[k])
               /\ Elements(waiters'[k]) = {u \in Waiting' : call'[u].ident = k}
    <3>1. /\ k \in ls <=> ws[k] # <<>>
          /\ nw[k] = Len(ws[k]) /\ IsInjective(ws[k])
          /\ Elements(ws[k]) = {u \in W : call[u].ident = k}
      BY DEF Consistent, W
    <3> QED BY <1>14, <1>15, <2>3, <2>4, <2>7, <3>1
  <2>10. lists' \subseteq Idents
    BY <1>2, <1>15 DEF Consistent
  <2> QED BY <2>3, <2>4, <2>8, <2>9, <2>10 DEF Consistent
<1>17. TypeOK'
  <2>1. word' \in [Idents -> Values] /\ owed' \in 0..Cardinality(Threads)
    BY DEF LInv, TypeOK
  <2>2. /\ lists' \subseteq Idents /\ waiters' \in [Idents -> Seq(Threads)]
        /\ nwaiters' \in [Idents -> 0..MaxWaiters]
    BY <1>16 DEF Consistent
  <2> QED BY <1>11, <2>1, <2>2, Zenon DEF TypeOK, ThreadTypes, Calls, Times
<1>18. Awake'
  BY <1>3, <1>12 DEF LInv, Awake, OthersSame
<1>19. (owed = Cardinality(Pending))'
  BY <1>14 DEF LInv
<1>20. Deadline'
  BY <1>12, <1>13 DEF LInv, Deadline, DeadlineOf, OthersSame
<1> QED BY <1>16, <1>17, <1>18, <1>19, <1>20 DEF LInv

(* memory_wait from its label retry, whatever way it takes. *)
LEMMA AttemptInv ==
  ASSUME LInv, NEW t \in Threads, NEW c \in Calls, NEW l \in Times,
         NEW ws, NEW nw, NEW ls, Attempt(t, c, l, ws, nw, ls), ~woken[t],
         UNCHANGED <<word, owed>>, Consistent(ws, nw, ls, Waiting \ {t}),
         c.timeout = Forever <=> l = Forever,
         c.timeout # Forever => l + elapsed[t] >= c.timeout
  PROVE  LInv'
<1>1. CASE NotEqual(t, c, ws, nw, ls)
  <2>1. Return(t, "idle") /\ Consistent(waiters', nwaiters', lists', Waiting \ {t})
    BY <1>1 DEF NotEqual
  <2> QED BY <2>1, ReturnInv
<1>2. CASE Interrupted(t, c, l, ws, nw, ls)
  BY <1>2, InterruptedInv
<1>3. CASE Fails(t, c, ws, nw, ls)
  <2>1. Return(t, "exited") /\ Consistent(waiters', nwaiters', lists', Waiting \ {t})
    BY <1>3 DEF Fails
  <2> QED BY <2>1, ReturnInv
<1>4. CASE Blocks(t, c, l, ws, nw, ls)
  BY <1>4, BlocksInv
<1> QED BY <1>1, <1>2, <1>3, <1>4 DEF Attempt

(* waiter_remove and waiter_list_free: t leaves the list of its ident, where it
   is as long as it waits, and nobody else does. *)
LEMMA RemovedConsistent ==
  ASSUME LInv, NEW t \in Waiting
  PROVE  Consistent(RemovedWaiters(t), RemovedCount(t), RemovedLists(t), Waiting \ {t})
<1> DEFINE i == call[t].ident
           s == waiters[i]
           p == CHOOSE k \in DOMAIN s : s[k] = t
           r == RemoveAt(s, p)
           ws == RemovedWaiters(t)
           nw == RemovedCount(t)
           ls == RemovedLists(t)
<1>1. t \in Threads /\ i \in Idents
  BY DEF Waiting, LInv, TypeOK
<1>2. /\ waiters \in [Idents -> Seq(Threads)] /\ nwaiters \in [Idents -> 0..MaxWaiters]
      /\ lists \subseteq Idents /\ MaxWaiters \in Nat
  BY WaitAssumption DEF LInv, TypeOK
<1>3. /\ s \in Seq(Threads) /\ IsInjective(s) /\ nwaiters[i] = Len(s)
      /\ Elements(s) = {u \in Waiting : call[u].ident = i}
  BY <1>1, <1>2 DEF LInv, Consistent
<1>4. t \in Elements(s)
  BY <1>3
<1>5. Len(s) \in Nat /\ DOMAIN s = 1..Len(s)
  BY <1>3, LenProperties
<1>6. p \in 1..Len(s) /\ s[p] = t
  BY <1>4, <1>5 DEF Elements
<1> HIDE DEF p
<1>7. /\ r \in Seq(Threads) /\ Len(r) = Len(s) - 1 /\ IsInjective(r)
      /\ Elements(r) = Elements(s) \ {t}
  <2> HIDE DEF s
  <2>1. p \in 1..Len(s) /\ s \in Seq(Threads) /\ IsInjective(s)
    BY <1>3, <1>6
  <2>2. /\ RemoveAt(s, p) \in Seq(Threads) /\ Len(RemoveAt(s, p)) = Len(s) - 1
        /\ IsInjective(RemoveAt(s, p)) /\ Elements(RemoveAt(s, p)) = Elements(s) \ {s[p]}
    BY <2>1, RemoveWaiter
  <2> QED BY <1>6, <2>2
<1>8. ws = [waiters EXCEPT ![i] = r] /\ nw = [nwaiters EXCEPT ![i] = nwaiters[i] - 1]
  BY DEF RemovedWaiters, RemovedCount, p
<1>9. r # <<>> <=> Len(s) - 1 # 0
  <2>1. r = <<>> <=> Len(r) = 0
    BY <1>7, EmptySeq
  <2> QED BY <1>7, <2>1
<1> HIDE DEF r, s
<1>10. /\ ws \in [Idents -> Seq(Threads)] /\ ws[i] = r
       /\ \A k \in Idents \ {i} : ws[k] = waiters[k]
  BY <1>1, <1>2, <1>7, <1>8
<1>11. /\ nw \in [Idents -> 0..MaxWaiters] /\ nw[i] = Len(s) - 1
       /\ \A k \in Idents \ {i} : nw[k] = nwaiters[k]
  <2>1. nwaiters[i] - 1 \in 0..MaxWaiters
    BY <1>1, <1>2, <1>3, <1>5, <1>6
  <2> QED BY <1>1, <1>2, <1>3, <1>8, <2>1
<1>12. /\ ls \subseteq Idents
       /\ i \in ls <=> (i \in lists /\ Len(s) - 1 # 0)
       /\ \A k \in Idents \ {i} : k \in ls <=> k \in lists
  BY <1>2, <1>11 DEF RemovedLists
<1>13. i \in lists
  <2>1. i \in lists <=> s # <<>>
    BY <1>1 DEF LInv, Consistent, s
  <2> QED BY <1>3, <1>5, <1>6, <2>1, EmptySeq
<1> HIDE DEF ws, nw, ls
<1>14. Elements(r) = {u \in Waiting \ {t} : call[u].ident = i}
  BY <1>3, <1>7
<1>15. ASSUME NEW k \in Idents \ {i}
       PROVE  /\ k \in ls <=> ws[k] # <<>>
              /\ nw[k] = Len(ws[k]) /\ IsInjective(ws[k])
              /\ Elements(ws[k]) = {u \in Waiting \ {t} : call[u].ident = k}
  <2>1. /\ k \in lists <=> waiters[k] # <<>>
        /\ nwaiters[k] = Len(waiters[k]) /\ IsInjective(waiters[k])
        /\ Elements(waiters[k]) = {u \in Waiting : call[u].ident = k}
    BY DEF LInv, Consistent
  <2>2. {u \in Waiting : call[u].ident = k} = {u \in Waiting \ {t} : call[u].ident = k}
    OBVIOUS
  <2> QED BY <1>10, <1>11, <1>12, <2>1, <2>2
<1>16. /\ i \in ls <=> ws[i] # <<>>
       /\ nw[i] = Len(ws[i]) /\ IsInjective(ws[i])
       /\ Elements(ws[i]) = {u \in Waiting \ {t} : call[u].ident = i}
  BY <1>7, <1>9, <1>10, <1>11, <1>12, <1>13, <1>14
<1>17. Consistent(ws, nw, ls, Waiting \ {t})
  BY <1>10, <1>11, <1>12, <1>15, <1>16 DEF Consistent
<1> QED BY <1>17 DEF ws, nw, ls

(* The first execution. *)
LEMMA WaitStartInv ==
  ASSUME LInv, NEW t \in Threads, WaitStart(t)
  PROVE  LInv'
<1>1. PICK i \in Idents, e \in Values, timeout \in Timeouts \cup {Forever} :
        /\ pc[t] = "idle"
        /\ Attempt(t, [ident |-> i, expected |-> e, timeout |-> timeout], timeout,
                   waiters, nwaiters, lists)
        /\ UNCHANGED <<word, owed>>
  BY DEF WaitStart
<1> DEFINE c == [ident |-> i, expected |-> e, timeout |-> timeout]
<1>2. c \in Calls /\ timeout \in Times /\ c.timeout = timeout
  BY TimeoutBound DEF Calls, Times
<1>3. ~woken[t] /\ Waiting \ {t} = Waiting
  BY <1>1 DEF LInv, Awake, Waiting
<1>4. Consistent(waiters, nwaiters, lists, Waiting \ {t})
  BY <1>3 DEF LInv
<1>5. timeout # Forever => timeout + elapsed[t] >= timeout
  <2>1. elapsed[t] = 0
    BY <1>1 DEF LInv, Deadline, DeadlineOf
  <2>2. timeout # Forever => timeout \in Nat
    BY WaitAssumption
  <2> QED BY <2>1, <2>2
<1>6. Attempt(t, c, timeout, waiters, nwaiters, lists)
  BY <1>1
<1> HIDE DEF c
<1> QED BY <1>1, <1>2, <1>3, <1>4, <1>5, <1>6, AttemptInv

(* The execution after a restart: what is left of the timeout was saved. *)
LEMMA WaitRestartInv ==
  ASSUME LInv, NEW t \in Threads, WaitRestart(t)
  PROVE  LInv'
<1> DEFINE c == call[t]
           l == RestartLeft(t)
<1>1. /\ pc[t] = "restart" /\ Attempt(t, c, l, waiters, nwaiters, lists)
      /\ UNCHANGED <<word, owed>>
  BY DEF WaitRestart
<1>2. /\ c \in Calls /\ left[t] \in Times /\ saved[t] \in BOOLEAN
  BY DEF LInv, TypeOK, Calls, Times
<1>3. /\ left[t] = Forever <=> c.timeout = Forever
      /\ c.timeout # Forever => left[t] + elapsed[t] >= c.timeout
      /\ saved[t] <=> c.timeout # Forever
  BY <1>1 DEF LInv, Deadline, DeadlineOf
<1>4. l = left[t]
  <2>1. CASE saved[t]
    BY <2>1 DEF RestartLeft
  <2>2. CASE ~saved[t]
    BY <1>3, <2>2 DEF RestartLeft
  <2> QED BY <2>1, <2>2
<1>5. ~woken[t] /\ Waiting \ {t} = Waiting
  BY <1>1 DEF LInv, Awake, Waiting
<1>6. Consistent(waiters, nwaiters, lists, Waiting \ {t})
  BY <1>5 DEF LInv
<1> HIDE DEF c, l
<1>7. /\ l \in Times
      /\ c.timeout = Forever <=> l = Forever
      /\ c.timeout # Forever => l + elapsed[t] >= c.timeout
  BY <1>2, <1>3, <1>4
<1> QED BY <1>1, <1>2, <1>5, <1>6, <1>7, AttemptInv

(* A timed wait times out. *)
LEMMA WaitTimedOutInv ==
  ASSUME LInv, NEW t \in Threads, WaitTimedOut(t)
  PROVE  LInv'
<1> DEFINE c == call[t]
           l == left[t]
<1>1. pc[t] = "blocked" /\ ~woken[t] /\ UNCHANGED <<word, owed>>
  BY DEF WaitTimedOut
<1>2. Consistent(RemovedWaiters(t), RemovedCount(t), RemovedLists(t), Waiting \ {t})
  BY <1>1, RemovedConsistent DEF Waiting
<1>3. CASE tvuser[t]
  <2>1. Return(t, "idle") /\ Consistent(waiters', nwaiters', lists', Waiting \ {t})
    BY <1>2, <1>3 DEF WaitTimedOut
  <2> QED BY <1>1, <2>1, ReturnInv
<1>4. CASE ~tvuser[t]
  <2>1. Attempt(t, c, l, RemovedWaiters(t), RemovedCount(t), RemovedLists(t))
    BY <1>4 DEF WaitTimedOut
  <2>2. c \in Calls /\ l \in Times
    BY DEF LInv, TypeOK, Calls, Times
  <2>3. /\ c.timeout = Forever <=> l = Forever
        /\ c.timeout # Forever => l + elapsed[t] >= c.timeout
    BY <1>1 DEF LInv, Deadline, DeadlineOf
  <2> HIDE DEF c, l
  <2> QED BY <1>1, <1>2, <2>1, <2>2, <2>3, AttemptInv
<1> QED BY <1>3, <1>4

(* The wakeups under way are at most one for each thread. *)
LEMMA PendingFinite == /\ IsFiniteSet(Pending) /\ Cardinality(Pending) \in Nat
                       /\ Cardinality(Pending) <= Cardinality(Threads)
<1>1. IsFiniteSet(Threads) /\ Pending \in SUBSET Threads
  BY WaitAssumption DEF Pending
<1> QED BY <1>1, FS_Subset, FS_CardinalityType

(* A woken waiter returns: one wakeup fewer is owed. *)
LEMMA WaitWokenInv ==
  ASSUME LInv, NEW t \in Threads, WaitWoken(t)
  PROVE  LInv'
<1>1. /\ pc[t] = "blocked" /\ woken[t] /\ Return(t, "idle") /\ owed' = owed - 1
      /\ word' = word /\ lists' = lists /\ waiters' = waiters /\ nwaiters' = nwaiters
  BY DEF WaitWoken, memory
<1>2. ThreadTypes
  BY Zenon DEF LInv, TypeOK, ThreadTypes, Calls, Times
<1>3. ThreadTypes' /\ OthersSame(t) /\ pc'[t] = "idle" /\ elapsed'[t] = 0 /\ ~woken'[t]
  BY <1>1, <1>2, ReturnFacts
<1>4. \A u \in Threads \ {t} : pc'[u] = pc[u] /\ (woken'[u] <=> woken[u]) /\ call'[u] = call[u]
  BY <1>3 DEF OthersSame
<1>5. Waiting' = Waiting /\ t \notin Waiting /\ Pending' = Pending \ {t} /\ t \in Pending
  BY <1>1, <1>3, <1>4, Zenon DEF Waiting, Pending
<1>6. owed' = Cardinality(Pending') /\ owed' \in 0..Cardinality(Threads)
  <2>1. IsFiniteSet(Pending) /\ IsFiniteSet(Threads) /\ Cardinality(Threads) \in Nat
    BY PendingFinite, WaitAssumption, FS_CardinalityType
  <2>2. IsFiniteSet(Pending \ {t}) /\ Cardinality(Pending \ {t}) = Cardinality(Pending) - 1
    BY <1>5, <2>1, FS_RemoveElement
  <2>3. Cardinality(Pending \ {t}) \in Nat
    BY <2>2, FS_CardinalityType
  <2>4. owed' = Cardinality(Pending \ {t})
    BY <1>1, <2>2 DEF LInv
  <2> QED BY <1>5, <2>1, <2>2, <2>3, <2>4, PendingFinite
<1>7. Consistent(waiters, nwaiters, lists, Waiting)'
  <2>1. \A u \in Waiting : call'[u] = call[u]
    BY <1>4, <1>5 DEF Waiting
  <2>2. \A i : {u \in Waiting : call'[u].ident = i} = {u \in Waiting : call[u].ident = i}
    BY <2>1
  <2>3. Consistent(waiters, nwaiters, lists, Waiting)
    BY DEF LInv
  <2> QED BY <1>1, <1>5, <2>2, <2>3 DEF Consistent
<1>8. TypeOK'
  <2>1. word' \in [Idents -> Values] /\ owed' \in 0..Cardinality(Threads)
    BY <1>1, <1>6 DEF LInv, TypeOK
  <2>2. /\ lists' \subseteq Idents /\ waiters' \in [Idents -> Seq(Threads)]
        /\ nwaiters' \in [Idents -> 0..MaxWaiters]
    BY <1>7 DEF Consistent
  <2> QED BY <1>3, <2>1, <2>2, Zenon DEF TypeOK, ThreadTypes, Calls, Times
<1>9. Awake'
  BY <1>3, <1>4 DEF LInv, Awake
<1>10. Deadline'
  BY <1>3 DEF LInv, Deadline, DeadlineOf, OthersSame
<1> QED BY <1>6, <1>7, <1>8, <1>9, <1>10 DEF LInv

(* atomics_notify: the first waiters of a list leave it, each with a wakeup. *)
LEMMA NotifyInv ==
  ASSUME LInv, NEW t \in Threads, Notify(t)
  PROVE  LInv'
<1>1. PICK i \in Idents, count \in 0..MaxCount :
        LET n == IF i \notin lists THEN 0
                 ELSE IF count < Len(waiters[i]) THEN count ELSE Len(waiters[i])
            first == {waiters[i][k] : k \in 1..n}
        IN  /\ waiters' = [waiters EXCEPT ![i] = SubSeq(@, n + 1, Len(@))]
            /\ nwaiters' = [nwaiters EXCEPT ![i] = @ - n]
            /\ lists' = IF i \in lists /\ nwaiters[i] = n THEN lists \ {i} ELSE lists
            /\ woken' = [u \in Threads |-> woken[u] \/ u \in first]
            /\ owed' = owed + n
  BY DEF Notify
<1>2. UNCHANGED <<word, pc, call, left, tv, tvuser, saved, elapsed>>
  BY DEF Notify
<1> DEFINE s == waiters[i]
           n == IF i \notin lists THEN 0 ELSE IF count < Len(s) THEN count ELSE Len(s)
           first == FirstOf(s, n)
           r == Rest(s, n)
<1>3. /\ waiters' = [waiters EXCEPT ![i] = r] /\ nwaiters' = [nwaiters EXCEPT ![i] = nwaiters[i] - n]
      /\ lists' = IF i \in lists /\ nwaiters[i] = n THEN lists \ {i} ELSE lists
      /\ woken' = [u \in Threads |-> woken[u] \/ u \in first]
      /\ owed' = owed + n
  BY <1>1 DEF FirstOf, Rest
<1>4. /\ waiters \in [Idents -> Seq(Threads)] /\ nwaiters \in [Idents -> 0..MaxWaiters]
      /\ lists \subseteq Idents /\ MaxWaiters \in Nat /\ woken \in [Threads -> BOOLEAN]
  BY WaitAssumption DEF LInv, TypeOK
<1>5. /\ s \in Seq(Threads) /\ IsInjective(s) /\ nwaiters[i] = Len(s)
      /\ Elements(s) = {u \in Waiting : call[u].ident = i}
      /\ i \in lists <=> s # <<>>
  BY <1>4 DEF LInv, Consistent
<1> HIDE DEF s
<1>6. Len(s) \in Nat /\ (s = <<>> => Len(s) = 0)
  BY <1>5, LenProperties, EmptySeq
<1>7. n \in 0..Len(s) /\ (i \notin lists => Len(s) = 0)
  <2>1. count \in Nat
    BY WaitAssumption
  <2> QED BY <1>5, <1>6, <2>1
<1> HIDE DEF n
<1>8. /\ r \in Seq(Threads) /\ Len(r) = Len(s) - n /\ IsInjective(r)
      /\ first \subseteq Elements(s) /\ Elements(r) = Elements(s) \ first
      /\ IsFiniteSet(first) /\ Cardinality(first) = n
  <2>1. s \in Seq(Threads) /\ IsInjective(s) /\ n \in 0..Len(s)
    BY <1>5, <1>7
  <2> QED BY <2>1, RemoveFirstWaiters
<1>9. r # <<>> <=> Len(s) - n # 0
  <2>1. r = <<>> <=> Len(r) = 0
    BY <1>8, EmptySeq
  <2> QED BY <1>8, <2>1
<1> HIDE DEF r, first
<1>10. woken' \in [Threads -> BOOLEAN] /\ \A u \in Threads : woken'[u] <=> woken[u] \/ u \in first
  BY <1>3, <1>4, Zenon
<1>11. first \subseteq Waiting
  BY <1>5, <1>8
<1>12. Waiting' = Waiting \ first /\ Pending' = Pending \cup first /\ Pending \cap first = {}
  <2>1. pc' = pc
    BY <1>2
  <2> QED BY <1>10, <1>11, <2>1, Zenon DEF Waiting, Pending
<1>13. owed' = Cardinality(Pending') /\ owed' \in 0..Cardinality(Threads)
  <2>1. Cardinality(Pending \cup first) = Cardinality(Pending) + n
    <3>1. Cardinality(Pending \cup first) =
            Cardinality(Pending) + Cardinality(first) - Cardinality(Pending \cap first)
      BY <1>8, PendingFinite, FS_Union
    <3>2. Cardinality(Pending \cap first) = 0
      BY <1>12, FS_EmptySet
    <3>3. n \in Nat
      BY <1>7
    <3> QED BY <1>8, <3>1, <3>2, <3>3, PendingFinite
  <2>2. owed' = Cardinality(Pending')
    BY <1>3, <1>12, <2>1 DEF LInv
  <2>3. Pending' \in SUBSET Threads
    BY DEF Pending
  <2>4. IsFiniteSet(Threads)
    BY WaitAssumption
  <2>5. IsFiniteSet(Pending') /\ Cardinality(Pending') <= Cardinality(Threads)
    BY <2>3, <2>4, FS_Subset
  <2>6. Cardinality(Pending') \in Nat /\ Cardinality(Threads) \in Nat
    BY <2>4, <2>5, FS_CardinalityType
  <2> QED BY <2>2, <2>5, <2>6
<1>14. Consistent(waiters, nwaiters, lists, Waiting)'
  <2>1. /\ waiters' \in [Idents -> Seq(Threads)] /\ waiters'[i] = r
        /\ \A k \in Idents \ {i} : waiters'[k] = waiters[k]
    BY <1>3, <1>4, <1>8
  <2>2. /\ nwaiters' \in [Idents -> 0..MaxWaiters] /\ nwaiters'[i] = Len(s) - n
        /\ \A k \in Idents \ {i} : nwaiters'[k] = nwaiters[k]
    <3>1. nwaiters[i] - n \in 0..MaxWaiters /\ nwaiters[i] - n = Len(s) - n
      BY <1>4, <1>5, <1>6, <1>7
    <3> QED BY <1>3, <1>4, <3>1
  <2>3. /\ lists' \subseteq Idents
        /\ i \in lists' <=> (i \in lists /\ Len(s) - n # 0)
        /\ \A k \in Idents \ {i} : k \in lists' <=> k \in lists
    BY <1>3, <1>4, <1>5, <1>6, <1>7
  <2>4. \A k : {u \in Waiting' : call'[u].ident = k} = {u \in Waiting : call[u].ident = k} \ first
    BY <1>2, <1>12
  <2>5. /\ i \in lists' <=> waiters'[i] # <<>>
        /\ nwaiters'[i] = Len(waiters'[i]) /\ IsInjective(waiters'[i])
        /\ Elements(waiters'[i]) = {u \in Waiting' : call'[u].ident = i}
    <3>1. i \in lists' <=> waiters'[i] # <<>>
      BY <1>6, <1>7, <1>9, <2>1, <2>3
    <3>2. nwaiters'[i] = Len(waiters'[i]) /\ IsInjective(waiters'[i])
      BY <1>8, <2>1, <2>2
    <3>3. Elements(waiters'[i]) = {u \in Waiting' : call'[u].ident = i}
      <4>1. Elements(waiters'[i]) = {u \in Waiting : call[u].ident = i} \ first
        BY <1>5, <1>8, <2>1
      <4> QED BY <2>4, <4>1
    <3> QED BY <3>1, <3>2, <3>3
  <2>6. ASSUME NEW k \in Idents \ {i}
        PROVE  /\ k \in lists' <=> waiters'[k] # <<>>
               /\ nwaiters'[k] = Len(waiters'[k]) /\ IsInjective(waiters'[k])
               /\ Elements(waiters'[k]) = {u \in Waiting' : call'[u].ident = k}
    <3>1. /\ k \in lists <=> waiters[k] # <<>>
          /\ nwaiters[k] = Len(waiters[k]) /\ IsInjective(waiters[k])
          /\ Elements(waiters[k]) = {u \in Waiting : call[u].ident = k}
      BY DEF LInv, Consistent
    <3>2. {u \in Waiting : call[u].ident = k} \ first = {u \in Waiting : call[u].ident = k}
      BY <1>5, <1>8
    <3> QED BY <2>1, <2>2, <2>3, <2>4, <3>1, <3>2
  <2> QED BY <2>1, <2>2, <2>3, <2>5, <2>6 DEF Consistent
<1>15. TypeOK'
  <2>1. /\ lists' \subseteq Idents /\ waiters' \in [Idents -> Seq(Threads)]
        /\ nwaiters' \in [Idents -> 0..MaxWaiters]
    BY <1>14 DEF Consistent
  <2> QED BY <1>2, <1>10, <1>13, <2>1, Zenon DEF LInv, TypeOK
<1>16. Awake'
  <2>1. \A u \in Threads : pc[u] # "blocked" => u \notin first
    BY <1>11 DEF Waiting
  <2> QED BY <1>2, <1>10, <2>1, Zenon DEF LInv, Awake
<1>17. Deadline'
  BY <1>2 DEF LInv, Deadline, DeadlineOf
<1> QED BY <1>13, <1>14, <1>15, <1>16, <1>17 DEF LInv

(* A store changes the memory only. *)
LEMMA StoreInv ==
  ASSUME LInv, NEW t \in Threads, Store(t)
  PROVE  LInv'
<1>1. UNCHANGED <<lists, waiters, nwaiters, woken, pc, call, left, tv, tvuser, saved, elapsed, owed>>
  BY DEF Store, memory
<1>2. word' \in [Idents -> Values]
  BY DEF Store, LInv, TypeOK
<1>3. TypeOK'
  BY <1>1, <1>2, Zenon DEF LInv, TypeOK
<1>4. Waiting' = Waiting /\ Pending' = Pending
  BY <1>1 DEF Waiting, Pending
<1>5. Consistent(waiters, nwaiters, lists, Waiting)'
  BY <1>1, <1>4 DEF LInv, Consistent
<1>6. Awake' /\ Deadline'
  BY <1>1 DEF LInv, Awake, Deadline, DeadlineOf
<1> QED BY <1>1, <1>3, <1>4, <1>5, <1>6 DEF LInv

(* The clock: what is left of a wait and what has passed of it add up. *)
LEMMA TickInv ==
  ASSUME LInv, Tick
  PROVE  LInv'
<1>1. UNCHANGED <<word, lists, waiters, nwaiters, woken, pc, call, tvuser, saved, owed>>
  BY DEF Tick, memory
<1>2. Waiting' = Waiting /\ Pending' = Pending
  BY <1>1 DEF Waiting, Pending
<1>3. Consistent(waiters, nwaiters, lists, Waiting)'
  BY <1>1, <1>2 DEF LInv, Consistent
<1>4. Horizon \in Nat /\ Interval \in Nat /\ Forever \notin Nat /\ Forever \notin 0..Horizon
  BY TimeoutBound, ForeverFacts, WaitAssumption
<1>5. ASSUME NEW u \in Threads
      PROVE  /\ left[u] \in Times /\ Down(left[u]) \in Times
             /\ left[u] = Forever => Down(left[u]) = Forever
             /\ left[u] # Forever => /\ left[u] \in Nat /\ Down(left[u]) \in Nat
                                     /\ Down(left[u]) >= left[u] - 1
                                     /\ Down(left[u]) # Forever
             /\ tv[u] \in 0..(Horizon + Interval) /\ Down(tv[u]) \in 0..(Horizon + Interval)
  <2>1. left[u] \in Times /\ tv[u] \in 0..(Horizon + Interval)
    BY DEF LInv, TypeOK, Times
  <2>2. CASE left[u] = Forever
    BY <1>4, <2>1, <2>2 DEF Down
  <2>3. CASE left[u] \in 0..Horizon
    BY <1>4, <2>1, <2>3 DEF Down, Times
  <2> QED BY <2>1, <2>2, <2>3 DEF Times
<1>6. /\ left' \in [Threads -> Times] /\ \A u \in Threads : left'[u] = Down(left[u])
  BY <1>5 DEF Tick
<1>7. /\ tv' \in [Threads -> 0..(Horizon + Interval)]
      /\ \A u \in Threads : pc[u] = "blocked" => tv'[u] = Down(tv[u])
  BY <1>5 DEF Tick
<1>8. elapsed' \in [Threads -> 0..Horizon]
      /\ \A u \in Threads :
           /\ pc[u] = "idle" => elapsed'[u] = elapsed[u]
           /\ pc[u] \in {"blocked", "restart"} /\ call[u].timeout # Forever =>
                elapsed'[u] = IF elapsed[u] < Horizon THEN elapsed[u] + 1 ELSE elapsed[u]
  <2>1. elapsed \in [Threads -> 0..Horizon]
    BY DEF LInv, TypeOK
  <2> QED BY <1>4, <2>1 DEF Tick
<1>9. TypeOK'
  <2>1. left' \in [Threads -> (0..Horizon) \cup {Forever}]
    BY <1>6 DEF Times
  <2> QED BY <1>1, <1>7, <1>8, <2>1, Zenon DEF LInv, TypeOK
<1>10. Awake'
  BY <1>1 DEF LInv, Awake
<1>11. ASSUME NEW u \in Threads PROVE DeadlineOf(u)'
  <2>1. /\ pc'[u] = pc[u] /\ call'[u] = call[u]
        /\ (saved'[u] <=> saved[u]) /\ (tvuser'[u] <=> tvuser[u])
    BY <1>1
  <2>2. DeadlineOf(u)
    BY DEF LInv, Deadline
  <2>3. pc[u] = "idle" => elapsed'[u] = 0
    BY <1>8, <2>2 DEF DeadlineOf
  <2>4. ASSUME pc[u] \in {"blocked", "restart"}
        PROVE  left'[u] = Forever <=> call[u].timeout = Forever
    BY <1>5, <1>6, <2>2, <2>4 DEF DeadlineOf
  <2>5. ASSUME pc[u] \in {"blocked", "restart"}, call[u].timeout # Forever
        PROVE  left'[u] + elapsed'[u] >= call[u].timeout
    <3>1. left[u] # Forever /\ left[u] + elapsed[u] >= call[u].timeout
      BY <2>2, <2>5 DEF DeadlineOf
    <3>2. call[u].timeout \in 0..Horizon /\ elapsed[u] \in 0..Horizon
      BY <2>5, TimeoutBound DEF LInv, TypeOK
    <3>3. /\ left[u] \in Nat /\ left'[u] \in Nat /\ left'[u] >= left[u] - 1
      BY <1>5, <1>6, <3>1
    <3>4. elapsed'[u] = IF elapsed[u] < Horizon THEN elapsed[u] + 1 ELSE elapsed[u]
      BY <1>8, <2>5
    <3> QED BY <1>4, <3>1, <3>2, <3>3, <3>4
  <2>6. ASSUME pc[u] = "blocked", tvuser[u]
        PROVE  left'[u] # Forever /\ tv'[u] = left'[u]
    BY <1>5, <1>6, <1>7, <2>2, <2>6 DEF DeadlineOf
  <2> QED BY <2>1, <2>2, <2>3, <2>4, <2>5, <2>6 DEF DeadlineOf
<1> QED BY <1>1, <1>2, <1>3, <1>9, <1>10, <1>11 DEF LInv, Deadline

-----------------------------------------------------------------------------
(* Nobody waits initially. *)
LEMMA InitLInv == Init => LInv
<1> SUFFICES ASSUME Init PROVE LInv
  OBVIOUS
<1>1. /\ Horizon \in Nat /\ Interval \in Nat /\ MaxWaiters \in Nat
      /\ NoCall \in Calls /\ Cardinality(Threads) \in Nat
  BY TimeoutBound, WaitAssumption, NoCallType, FS_CardinalityType
<1>2. TypeOK
  <2>1. waiters \in [Idents -> Seq(Threads)]
    BY DEF Init
  <2>2. /\ nwaiters \in [Idents -> 0..MaxWaiters] /\ tv \in [Threads -> 0..(Horizon + Interval)]
        /\ elapsed \in [Threads -> 0..Horizon] /\ owed \in 0..Cardinality(Threads)
    BY <1>1 DEF Init
  <2>3. /\ word \in [Idents -> Values] /\ lists \subseteq Idents
        /\ pc \in [Threads -> {"idle", "blocked", "restart", "exited"}]
        /\ left \in [Threads -> (0..Horizon) \cup {Forever}]
    BY DEF Init
  <2>4. /\ woken \in [Threads -> BOOLEAN] /\ tvuser \in [Threads -> BOOLEAN]
        /\ saved \in [Threads -> BOOLEAN]
    BY Zenon DEF Init
  <2>5. call \in [Threads -> Calls]
    BY <1>1 DEF Init
  <2> QED BY <2>1, <2>2, <2>3, <2>4, <2>5, Zenon DEF TypeOK, Calls
<1>3. Waiting = {} /\ Pending = {}
  BY DEF Init, Waiting, Pending
<1>4. Consistent(waiters, nwaiters, lists, Waiting)
  <2>1. /\ waiters \in [Idents -> Seq(Threads)] /\ nwaiters \in [Idents -> 0..MaxWaiters]
    BY <1>2 DEF TypeOK
  <2>2. ASSUME NEW i \in Idents
        PROVE  /\ waiters[i] = <<>> /\ nwaiters[i] = 0 /\ Len(waiters[i]) = 0
               /\ IsInjective(waiters[i]) /\ Elements(waiters[i]) = {}
    <3>1. waiters[i] = <<>> /\ nwaiters[i] = 0
      BY DEF Init
    <3>2. Len(waiters[i]) = 0 /\ DOMAIN waiters[i] = {}
      BY <3>1
    <3> QED BY <3>1, <3>2 DEF IsInjective, Elements
  <2>3. lists = {}
    BY DEF Init
  <2> QED BY <1>3, <2>1, <2>2, <2>3 DEF Consistent
<1>5. Awake /\ Deadline
  BY DEF Init, Awake, Deadline, DeadlineOf
<1>6. owed = Cardinality(Pending)
  BY <1>3, FS_EmptySet DEF Init
<1> QED BY <1>2, <1>4, <1>5, <1>6 DEF LInv

(* Every step keeps the invariant. *)
LEMMA NextLInv == LInv /\ [Next]_vars => LInv'
<1> SUFFICES ASSUME LInv, [Next]_vars PROVE LInv'
  OBVIOUS
<1>1. ASSUME NEW t \in Threads,
             \/ WaitStart(t) \/ WaitRestart(t) \/ WaitWoken(t)
             \/ WaitTimedOut(t) \/ Notify(t) \/ Store(t)
      PROVE  LInv'
  BY <1>1, WaitStartInv, WaitRestartInv, WaitWokenInv, WaitTimedOutInv, NotifyInv, StoreInv
<1>2. CASE Tick
  BY <1>2, TickInv
<1>3. CASE UNCHANGED vars
  <2>1. UNCHANGED <<word, lists, waiters, nwaiters, woken, pc, call, left, tv, tvuser,
                    saved, elapsed, owed>>
    BY <1>3 DEF vars
  <2>2. TypeOK'
    BY <2>1, Zenon DEF LInv, TypeOK
  <2>3. Waiting' = Waiting /\ Pending' = Pending
    BY <2>1 DEF Waiting, Pending
  <2>4. Consistent(waiters, nwaiters, lists, Waiting)'
    BY <2>1, <2>3 DEF LInv, Consistent
  <2>5. Awake' /\ Deadline'
    BY <2>1 DEF LInv, Awake, Deadline, DeadlineOf
  <2> QED BY <2>1, <2>2, <2>3, <2>4, <2>5 DEF LInv
<1> QED BY <1>1, <1>2, <1>3 DEF Next

(* The inductive invariant, and with it the types, hold always. *)
THEOREM LInvariance == Spec => []LInv
<1> QED BY InitLInv, NextLInv, PTL DEF Spec

(* The lists hold exactly the threads that are blocked and not woken, for any
   number of threads, addresses and restarts: no waiter is left behind on a
   list by a timeout, a restart or an exit, and none is missing from it. *)
THEOREM ListsAreExact == Spec => []ListsMatchWaiters
<1>1. LInv => ListsMatchWaiters
  <2> SUFFICES ASSUME LInv PROVE ListsMatchWaiters
    OBVIOUS
  <2>1. \A i : {t \in Waiting : call[t].ident = i} =
               {t \in Threads : pc[t] = "blocked" /\ ~woken[t] /\ call[t].ident = i}
    BY DEF Waiting
  <2> QED BY <2>1 DEF LInv, Consistent, Elements, ListsMatchWaiters
<1> QED BY <1>1, LInvariance, PTL

(* Every wakeup that notify has counted is under way to exactly one thread. *)
THEOREM NoWakeupIsLost == Spec => []WakeupsConserved
<1>1. LInv => WakeupsConserved
  BY DEF LInv, Pending, WakeupsConserved
<1> QED BY <1>1, LInvariance, PTL

(* A step of one thread does not move another. *)
LEMMA OthersStay ==
  ASSUME LInv, NEW t \in Threads,
         \/ WaitStart(t) \/ WaitRestart(t) \/ WaitWoken(t)
         \/ WaitTimedOut(t) \/ Notify(t) \/ Store(t)
  PROVE  \A u \in Threads \ {t} : pc'[u] = pc[u]
<1> DEFINE Same == \A u \in Threads \ {t} : pc'[u] = pc[u]
<1> SUFFICES Same
  OBVIOUS
<1>1. pc \in [Threads -> {"idle", "blocked", "restart", "exited"}]
  BY DEF LInv, TypeOK
<1>2. ASSUME NEW l, Return(t, l) PROVE Same
  BY <1>1, <1>2 DEF Return
<1>3. ASSUME NEW c, NEW l, NEW ws, NEW nw, NEW ls, Attempt(t, c, l, ws, nw, ls) PROVE Same
  <2>1. CASE NotEqual(t, c, ws, nw, ls) \/ Fails(t, c, ws, nw, ls)
    BY <1>2, <2>1 DEF NotEqual, Fails
  <2>2. CASE Interrupted(t, c, l, ws, nw, ls)
    BY <1>1, <2>2 DEF Interrupted
  <2>3. CASE Blocks(t, c, l, ws, nw, ls)
    BY <1>1, <2>3 DEF Blocks
  <2> QED BY <1>3, <2>1, <2>2, <2>3 DEF Attempt
<1> HIDE DEF Same
<1>4. CASE WaitStart(t)
  BY <1>3, <1>4 DEF WaitStart
<1>5. CASE WaitRestart(t)
  BY <1>3, <1>5 DEF WaitRestart
<1>6. CASE WaitWoken(t)
  BY <1>2, <1>6 DEF WaitWoken
<1>7. CASE WaitTimedOut(t)
  BY <1>2, <1>3, <1>7 DEF WaitTimedOut
<1>8. CASE Notify(t) \/ Store(t)
  BY <1>8 DEF Notify, Store, Same
<1> QED BY <1>4, <1>5, <1>6, <1>7, <1>8

(* The only step that takes a waiter nobody woke back to its program while its
   word is as expected is the timeout of the program, and by then the wait has
   lasted that long. *)
LEMMA EarlyStep ==
  ASSUME LInv, [Next]_vars, NEW t \in Threads,
         pc[t] = "blocked", ~woken[t], pc'[t] = "idle",
         word[call[t].ident] = call[t].expected
  PROVE  call[t].timeout # Forever /\ elapsed[t] >= call[t].timeout
<1>1. PICK u \in Threads : \/ WaitStart(u) \/ WaitRestart(u) \/ WaitWoken(u)
                           \/ WaitTimedOut(u) \/ Notify(u) \/ Store(u)
  BY DEF Next, Tick, vars
<1>2. u = t
  BY <1>1, OthersStay
<1>3. WaitTimedOut(t)
  BY <1>1, <1>2 DEF WaitStart, WaitRestart, WaitWoken, Notify, Store
<1>4. pc \in [Threads -> {"idle", "blocked", "restart", "exited"}]
  BY DEF LInv, TypeOK
<1>5. CASE ~tvuser[t]
  <2>1. Attempt(t, call[t], left[t], RemovedWaiters(t), RemovedCount(t), RemovedLists(t))
    BY <1>3, <1>5 DEF WaitTimedOut
  <2>2. ~NotEqual(t, call[t], RemovedWaiters(t), RemovedCount(t), RemovedLists(t))
    BY DEF NotEqual
  <2>3. pc' = [pc EXCEPT ![t] = "restart"] \/ pc' = [pc EXCEPT ![t] = "exited"]
        \/ pc' = [pc EXCEPT ![t] = "blocked"]
    BY <2>1, <2>2 DEF Attempt, Interrupted, Fails, Return, Blocks
  <2> QED BY <1>4, <2>3
<1>6. CASE tvuser[t]
  <2>1. tv[t] = 0
    BY <1>3 DEF WaitTimedOut
  <2>2. left[t] # Forever /\ left[t] = 0
    BY <1>6, <2>1 DEF LInv, Deadline, DeadlineOf
  <2>3. call[t].timeout # Forever /\ left[t] + elapsed[t] >= call[t].timeout
    BY <2>2 DEF LInv, Deadline, DeadlineOf
  <2>4. elapsed[t] \in Nat
    BY TimeoutBound DEF LInv, TypeOK
  <2> QED BY <2>2, <2>3, <2>4
<1> QED BY <1>5, <1>6

(* A wait is not cut short by the short waits and the restarts it is made of,
   however many there are. *)
THEOREM WaitsLastTheirTimeout == Spec => NeverEarly
<1>1. LInv /\ [Next]_vars => [\A t \in Threads :
        /\ pc[t] = "blocked" /\ ~woken[t] /\ pc'[t] = "idle"
        /\ word[call[t].ident] = call[t].expected
        => call[t].timeout # Forever /\ elapsed[t] >= call[t].timeout]_vars
  BY EarlyStep
<1> QED BY <1>1, LInvariance, PTL DEF Spec, NeverEarly
=============================================================================
