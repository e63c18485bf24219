-------------------------- MODULE WasiFdTableProofs --------------------------
(***************************************************************************)
(* Proofs about WasiFdTable for any number of threads, files and           *)
(* descriptors, in a build that initialises the pointers of its calls      *)
(* (NoGarbage): with an uninitialised one released, a count can be wrong   *)
(* by as much as the garbage says.                                         *)
(*                                                                         *)
(* The reference counts alone are not inductive.  A file is freed and      *)
(* closed by what its count says, so the invariant also says what the      *)
(* pointers of a call are at each place of it (Shape), that descriptors    *)
(* are distinct and within the table (Table), what has become of the files *)
(* the pointers and descriptors name (Files), and what fd_renumber knows   *)
(* between the two halves of its critical section (Renumbering).           *)
(***************************************************************************)
EXTENDS WasiFdTable, Induction

NoGarbage == Garbage \subseteq {Null}

(* The references to a file: what its reference count should be. *)
Count(f, D, i) == Cardinality({d \in D : f[d] = i})
Refs(i) == Count(slot, Fds, i) + Count(ref1, Threads, i) + Count(ref2, Threads, i)

Exact == \A i \in Infos : file[i] # "leaked" => refcount[i] = Refs(i)

(* The pointers of a call at each of its places. *)
ShapeOf(t) ==
  /\ pc[t] \in {"idle", "drain", "wait", "woken"} => ref1[t] = Null /\ ref2[t] = Null
  /\ pc[t] = "second" => ref2[t] = Null
  /\ pc[t] = "detached" => ref1[t] # Null /\ ref2[t] = Null
  /\ pc[t] = "release2" => ref1[t] = Null
  /\ pc[t] \in {"rn_swap", "rn_release"} => ref1[t] # Null /\ ref2[t] # Null
  /\ fresh[t] # Null <=> pc[t] = "opening"

Shape == \A t \in Threads : ShapeOf(t)

Table ==
  /\ \A fd \in Fds : slot[fd] # Null => fd < lsize
  /\ \A fd, gd \in Fds : slot[fd] # Null /\ slot[fd] = slot[gd] => fd = gd

Files ==
  /\ \A fd \in Fds : slot[fd] # Null => file[slot[fd]] = "open"
  /\ \A t \in Threads : fresh[t] # Null =>
       file[fresh[t]] = "open" /\ refcount[fresh[t]] = 0
  /\ \A t, u \in Threads : fresh[t] # Null /\ fresh[t] = fresh[u] => t = u
  /\ \A t \in Threads : ref1[t] # Null => file[ref1[t]] \in {"open", "closed"}
  /\ \A t \in Threads : ref2[t] # Null => file[ref2[t]] \in {"open", "closed"}
  /\ \A i \in Infos : file[i] = "closed" =>
       refcount[i] = 1 /\ \E t \in Threads : pc[t] = "release" /\ ref1[t] = i
  /\ \A t \in Threads : pc[t] = "detached" =>
       file[ref1[t]] = "open" /\ refcount[ref1[t]] = 1

Renumbering ==
  /\ \A t, u \in Threads : {pc[t], pc[u]} \subseteq {"rn_swap", "readdir"} => t = u
  /\ \A t \in Threads : pc[t] = "rn_swap" =>
       /\ ref1[t] = slot[to[t]] /\ ref2[t] = slot[from[t]]
       /\ refcount[ref1[t]] = IF ref1[t] = ref2[t] THEN 3 ELSE 2
  /\ \A t \in Threads : pc[t] = "rn_release" =>
       /\ file[ref1[t]] = "open"
       /\ refcount[ref1[t]] = IF ref1[t] = ref2[t] THEN 2 ELSE 1

FInv ==
  /\ NoGarbage
  /\ TypeOK
  /\ Exact
  /\ Shape
  /\ Table
  /\ Files
  /\ Renumbering

-----------------------------------------------------------------------------
(* How many places of a finite domain hold i: none exactly if no place does,
   one only if no two do. *)
LEMMA CountFacts ==
  ASSUME NEW D, IsFiniteSet(D), NEW f, NEW i
  PROVE  /\ Count(f, D, i) \in Nat
         /\ Count(f, D, i) = 0 <=> \A d \in D : f[d] # i
         /\ \A d, e \in D : Count(f, D, i) <= 1 /\ f[d] = i /\ f[e] = i => d = e
         /\ (\A d, e \in D : f[d] = i /\ f[e] = i => d = e) => Count(f, D, i) <= 1
<1> DEFINE S == {d \in D : f[d] = i}
<1>1. IsFiniteSet(S)
  BY FS_Subset
<1>2. Cardinality(S) \in Nat
  BY <1>1, FS_CardinalityType
<1>3. Cardinality(S) = 0 <=> S = {}
  BY <1>1, FS_EmptySet
<1>4. ASSUME NEW d \in D, NEW e \in D, Cardinality(S) <= 1, f[d] = i, f[e] = i
      PROVE  d = e
  <2>1. d \in S /\ e \in S
    BY <1>4
  <2>2. Cardinality(S) = 1
    BY <1>2, <1>3, <1>4, <2>1
  <2>3. PICK x : S = {x}
    BY <1>1, <2>2, FS_Singleton
  <2> QED BY <2>1, <2>3
<1>5. ASSUME \A d, e \in D : f[d] = i /\ f[e] = i => d = e
      PROVE  Cardinality(S) <= 1
  <2>1. CASE S = {}
    BY <1>3, <2>1
  <2>2. CASE S # {}
    <3>1. PICK d : d \in S
      BY <2>2
    <3>2. S = {d}
      BY <1>5, <3>1
    <3>3. Cardinality({d}) = 1
      BY FS_Singleton
    <3> QED BY <3>2, <3>3
  <2> QED BY <2>1, <2>2
<1>6. Cardinality(S) = 0 <=> \A d \in D : f[d] # i
  BY <1>3
<1> HIDE DEF S
<1>7. Count(f, D, i) = Cardinality(S)
  BY DEF Count, S
<1> QED BY <1>2, <1>4, <1>5, <1>6, <1>7

(* Storing at one place moves one place from the old value to the new. *)
LEMMA CountUpdate ==
  ASSUME NEW D, IsFiniteSet(D), NEW f, NEW g, NEW d \in D, NEW i,
         \A e \in D \ {d} : g[e] = f[e]
  PROVE  /\ (f[d] = i <=> g[d] = i) => Count(g, D, i) = Count(f, D, i)
         /\ f[d] = i /\ g[d] # i => Count(f, D, i) = Count(g, D, i) + 1
         /\ f[d] # i /\ g[d] = i => Count(g, D, i) = Count(f, D, i) + 1
<1> DEFINE S == {e \in D : f[e] = i}
           T == {e \in D : g[e] = i}
           R == S \ {d}
<1>1. IsFiniteSet(S) /\ IsFiniteSet(R)
  BY FS_Subset
<1>2. Cardinality(R) \in Nat
  BY <1>1, FS_CardinalityType
<1>3. Cardinality(R \cup {d}) = Cardinality(R) + 1
  BY <1>1, FS_AddElement
<1>4. S = IF f[d] = i THEN R \cup {d} ELSE R
  OBVIOUS
<1>5. T = IF g[d] = i THEN R \cup {d} ELSE R
  OBVIOUS
<1>6. Count(f, D, i) = Cardinality(S) /\ Count(g, D, i) = Cardinality(T)
  BY DEF Count
<1> HIDE DEF S, T, R
<1>7. Cardinality(S) = IF f[d] = i THEN Cardinality(R) + 1 ELSE Cardinality(R)
  BY <1>3, <1>4
<1>8. Cardinality(T) = IF g[d] = i THEN Cardinality(R) + 1 ELSE Cardinality(R)
  BY <1>3, <1>5
<1> QED BY <1>2, <1>6, <1>7, <1>8

(* The table is finite. *)
LEMMA FdsFinite == IsFiniteSet(Fds) /\ Fds \subseteq Nat
  BY FdAssumption, FS_Interval DEF Fds

(* What a reference count says about the pointers and descriptors. *)
LEMMA RefsFacts ==
  ASSUME TypeOK, NEW i
  PROVE  /\ Refs(i) \in Nat
         /\ Refs(i) = 0 <=> /\ \A fd \in Fds : slot[fd] # i
                            /\ \A t \in Threads : ref1[t] # i /\ ref2[t] # i
<1> DEFINE a == Count(slot, Fds, i)
           b == Count(ref1, Threads, i)
           c == Count(ref2, Threads, i)
<1>1. IsFiniteSet(Threads)
  BY FdAssumption
<1>2. /\ a \in Nat /\ b \in Nat /\ c \in Nat
      /\ a = 0 <=> \A d \in Fds : slot[d] # i
      /\ b = 0 <=> \A d \in Threads : ref1[d] # i
      /\ c = 0 <=> \A d \in Threads : ref2[d] # i
  BY <1>1, FdsFinite, CountFacts
<1>3. Refs(i) = a + b + c
  BY DEF Refs
<1> HIDE DEF a, b, c
<1> QED BY <1>2, <1>3

(* A step that stores at most one descriptor and pointers of one call moves
   references from the old values to the new ones. *)
Is(x, i) == IF x = i THEN 1 ELSE 0
SameBut(f, g, D, d) == \A e \in D \ {d} : g[e] = f[e]

(* How many elements are i, when one of them is replaced. *)
LEMMA CountMoves ==
  ASSUME NEW D, IsFiniteSet(D), NEW f, NEW g, NEW d \in D, NEW i, SameBut(f, g, D, d)
  PROVE  Count(g, D, i) = (Count(f, D, i) + Is(g[d], i)) - Is(f[d], i)
<1>1. Count(f, D, i) \in Nat /\ Count(g, D, i) \in Nat
  BY CountFacts
<1>2. /\ (f[d] = i <=> g[d] = i) => Count(g, D, i) = Count(f, D, i)
      /\ f[d] = i /\ g[d] # i => Count(f, D, i) = Count(g, D, i) + 1
      /\ f[d] # i /\ g[d] = i => Count(g, D, i) = Count(f, D, i) + 1
  BY CountUpdate DEF SameBut
<1> QED BY <1>1, <1>2 DEF Is

(* The references to a file before and after such a step. *)
LEMMA RefsUpdate ==
  ASSUME NEW t \in Threads, NEW fd \in Fds, NEW i,
         \A gd \in Fds \ {fd} : slot'[gd] = slot[gd],
         \A u \in Threads \ {t} : ref1'[u] = ref1[u],
         \A u \in Threads \ {t} : ref2'[u] = ref2[u]
  PROVE  /\ Refs(i) \in Nat /\ Refs(i)' \in Nat
         /\ Refs(i)' = Refs(i) + Is(slot'[fd], i) + Is(ref1'[t], i) + Is(ref2'[t], i)
                               - Is(slot[fd], i) - Is(ref1[t], i) - Is(ref2[t], i)
<1> DEFINE a == Count(slot, Fds, i)
           b == Count(ref1, Threads, i)
           c == Count(ref2, Threads, i)
           aa == Count(slot', Fds, i)
           bb == Count(ref1', Threads, i)
           cc == Count(ref2', Threads, i)
<1>1. IsFiniteSet(Threads) /\ IsFiniteSet(Fds)
  BY FdAssumption, FdsFinite
<1>2. a \in Nat /\ b \in Nat /\ c \in Nat /\ aa \in Nat /\ bb \in Nat /\ cc \in Nat
  BY <1>1, CountFacts
<1>3. /\ SameBut(slot, slot', Fds, fd)
      /\ SameBut(ref1, ref1', Threads, t)
      /\ SameBut(ref2, ref2', Threads, t)
  BY DEF SameBut
<1>4. /\ aa = (a + Is(slot'[fd], i)) - Is(slot[fd], i)
      /\ bb = (b + Is(ref1'[t], i)) - Is(ref1[t], i)
      /\ cc = (c + Is(ref2'[t], i)) - Is(ref2[t], i)
  BY <1>1, <1>3, CountMoves
<1>5. Refs(i) = a + b + c /\ Refs(i)' = aa + bb + cc
  BY DEF Refs
<1>6. \A x, y : Is(x, y) \in Nat
  BY DEF Is
<1> HIDE DEF a, b, c, aa, bb, cc
<1> QED BY <1>2, <1>4, <1>5, <1>6

(* A file that only one call points to. *)
LEMMA LastReference ==
  ASSUME TypeOK, NEW i, Refs(i) <= 1, NEW t \in Threads
  PROVE  /\ ref1[t] = i => /\ \A fd \in Fds : slot[fd] # i
                           /\ \A u \in Threads : ref1[u] = i => u = t
                           /\ \A u \in Threads : ref2[u] # i
         /\ ref2[t] = i => /\ \A fd \in Fds : slot[fd] # i
                           /\ \A u \in Threads : ref2[u] = i => u = t
                           /\ \A u \in Threads : ref1[u] # i
<1> DEFINE a == Count(slot, Fds, i)
           b == Count(ref1, Threads, i)
           c == Count(ref2, Threads, i)
<1>1. IsFiniteSet(Threads)
  BY FdAssumption
<1>2. /\ a \in Nat /\ b \in Nat /\ c \in Nat
      /\ a = 0 <=> \A d \in Fds : slot[d] # i
      /\ b = 0 <=> \A d \in Threads : ref1[d] # i
      /\ c = 0 <=> \A d \in Threads : ref2[d] # i
      /\ \A d, e \in Threads : b <= 1 /\ ref1[d] = i /\ ref1[e] = i => d = e
      /\ \A d, e \in Threads : c <= 1 /\ ref2[d] = i /\ ref2[e] = i => d = e
  BY <1>1, FdsFinite, CountFacts
<1>3. a + b + c <= 1
  BY DEF Refs
<1> HIDE DEF a, b, c
<1>4. (b # 0 => a = 0 /\ b <= 1 /\ c = 0) /\ (c # 0 => a = 0 /\ b = 0 /\ c <= 1)
  BY <1>2, <1>3
<1> QED BY <1>2, <1>4

(* Two calls that point to a file are counted apart. *)
LEMMA TwoCalls ==
  ASSUME TypeOK, NEW i, NEW t \in Threads, NEW u \in Threads \ {t},
         ref1[u] = i, ref1[t] = i \/ ref2[t] = i
  PROVE  Refs(i) >= 2 /\ (ref2[u] = i => Refs(i) >= 3)
<1> DEFINE a == Count(slot, Fds, i)
           b == Count(ref1, Threads, i)
           c == Count(ref2, Threads, i)
<1>1. IsFiniteSet(Threads)
  BY FdAssumption
<1>2. /\ a \in Nat /\ b \in Nat /\ c \in Nat
      /\ b = 0 <=> \A d \in Threads : ref1[d] # i
      /\ c = 0 <=> \A d \in Threads : ref2[d] # i
      /\ \A d, e \in Threads : b <= 1 /\ ref1[d] = i /\ ref1[e] = i => d = e
      /\ \A d, e \in Threads : c <= 1 /\ ref2[d] = i /\ ref2[e] = i => d = e
  BY <1>1, FdsFinite, CountFacts
<1>3. Refs(i) = a + b + c
  BY DEF Refs
<1> HIDE DEF a, b, c
<1>4. b # 0 /\ (ref1[t] = i => ~(b <= 1)) /\ (ref2[t] = i => c # 0)
      /\ (ref2[u] = i => c # 0) /\ (ref2[u] = i /\ ref2[t] = i => ~(c <= 1))
  BY <1>2
<1> QED BY <1>2, <1>3, <1>4

(* A descriptor names a file that is referenced no other way exactly if its
   count is 1. *)
LEMMA SlotReference ==
  ASSUME TypeOK, Table, NEW fd \in Fds, NEW i, i # Null, slot[fd] = i
  PROVE  /\ Refs(i) >= 1
         /\ Refs(i) = 1 => \A t \in Threads : ref1[t] # i /\ ref2[t] # i
         /\ \A t \in Threads : ref1[t] = i \/ ref2[t] = i => Refs(i) >= 2
         /\ \A t \in Threads : ref1[t] = i /\ ref2[t] = i => Refs(i) >= 3
<1> DEFINE a == Count(slot, Fds, i)
           b == Count(ref1, Threads, i)
           c == Count(ref2, Threads, i)
<1>1. IsFiniteSet(Threads)
  BY FdAssumption
<1>2. /\ a \in Nat /\ b \in Nat /\ c \in Nat
      /\ a = 0 <=> \A d \in Fds : slot[d] # i
      /\ b = 0 <=> \A d \in Threads : ref1[d] # i
      /\ c = 0 <=> \A d \in Threads : ref2[d] # i
  BY <1>1, FdsFinite, CountFacts
<1>3. Refs(i) = a + b + c
  BY DEF Refs
<1> HIDE DEF a, b, c
<1> QED BY <1>2, <1>3

-----------------------------------------------------------------------------
(* The tables of FInv when the files and their references stay as they are:
   a step of one call between places that hold the same pointers. *)
LEMMA Quiet ==
  ASSUME FInv, NEW t \in Threads, NEW l,
         UNCHANGED <<slot, refcount, file, ref1, ref2, fresh>>,
         pc' = [pc EXCEPT ![t] = l], TypeOK', lsize' >= lsize,
         pc[t] \notin {"opening", "rn_swap", "rn_release"},
         pc[t] = "release" => ref1[t] = Null,
         l \in {"idle", "second", "drain", "wait", "woken", "release", "readdir", "release2"},
         l \in {"idle", "drain", "wait", "woken"} => ref1[t] = Null /\ ref2[t] = Null,
         l = "release2" => ref1[t] = Null,
         l = "second" => ref2[t] = Null, l = "readdir" => LockFree,
         \A u \in Threads \ {t} : from'[u] = from[u] /\ to'[u] = to[u]
  PROVE  FInv'
<1> USE DEF FInv
<1>0. pc'[t] = l /\ \A u \in Threads \ {t} : pc'[u] = pc[u]
  BY DEF TypeOK
<1>1. Exact'
  <2>1. \A i : Refs(i)' = Refs(i)
    BY DEF Refs, Count
  <2> QED BY <2>1 DEF Exact
<1>2. Shape'
  BY <1>0 DEF Shape, ShapeOf
<1>3. Table'
  BY DEF Table, TypeOK, Fds
<1>4. Files'
  <2>1. ASSUME NEW i \in Infos, file'[i] = "closed"
        PROVE  refcount'[i] = 1 /\ \E u \in Threads : pc'[u] = "release" /\ ref1'[u] = i
    <3>1. PICK u \in Threads : pc[u] = "release" /\ ref1[u] = i
      BY <2>1 DEF Files
    <3>2. u # t
      BY <3>1, FdAssumption
    <3> QED BY <1>0, <2>1, <3>1, <3>2 DEF Files
  <2>2. \A u \in Threads : pc'[u] = "detached" =>
          file'[ref1'[u]] = "open" /\ refcount'[ref1'[u]] = 1
    BY <1>0 DEF Files
  <2> QED BY <2>1, <2>2 DEF Files
<1>5. Renumbering'
  BY <1>0 DEF Renumbering, LockFree
<1> QED BY <1>1, <1>2, <1>3, <1>4, <1>5 DEF NoGarbage

(* Storing what is there already changes nothing. *)
LEMMA SameValue ==
  ASSUME NEW D, NEW V, NEW f \in [D -> V], NEW d \in D, NEW x, f[d] = x
  PROVE  [f EXCEPT ![d] = x] = f
  OBVIOUS

(* The end of a call that holds nothing. *)
LEMMA FinishFacts ==
  ASSUME FInv, NEW t \in Threads, Finish(t), pc[t] # "opening"
  PROVE  /\ fresh' = fresh
         /\ ref1[t] = Null => ref1' = ref1
         /\ ref2[t] = Null => ref2' = ref2
         /\ pc' = [pc EXCEPT ![t] = "idle"] /\ pc' \in [Threads -> PCs]
         /\ op' \in [Threads -> Ops]
         /\ from' \in [Threads -> Fds] /\ to' \in [Threads -> Fds]
         /\ \A u \in Threads \ {t} : from'[u] = from[u] /\ to'[u] = to[u]
<1> USE DEF FInv, TypeOK, Finish
<1>1. fresh[t] = Null
  BY DEF Shape, ShapeOf
<1>2. 0 \in Fds
  BY FdAssumption DEF Fds
<1>3. "idle" \in PCs /\ "none" \in Ops
  BY DEF PCs, Ops
<1> QED BY <1>1, <1>2, <1>3, SameValue

(* fd_readdir takes the lock again; a host call ends. *)
LEMMA EndUseInv ==
  ASSUME FInv, NEW t \in Threads, ReaddirLock(t) \/ EndUse(t)
  PROVE  FInv'
<1>1. TypeOK'
  BY DEF FInv, TypeOK, ReaddirLock, EndUse, Goto, tvars, PCs
<1>2. lsize' >= lsize
  BY DEF FInv, TypeOK, ReaddirLock, EndUse, tvars
<1>3. CASE ReaddirLock(t)
  BY <1>1, <1>2, <1>3, Quiet DEF ReaddirLock, Goto, tvars
<1>4. CASE EndUse(t)
  <2>1. /\ UNCHANGED <<slot, refcount, file, ref1, ref2, fresh, from, to>>
        /\ pc' = [pc EXCEPT ![t] = "release"]
        /\ pc[t] \notin {"release", "opening", "rn_swap", "rn_release"}
    BY <1>4 DEF EndUse, Goto, tvars
  <2> QED BY <1>1, <1>2, <2>1, Quiet
<1> QED BY <1>3, <1>4

(* fd_close and fd_renumber are called. *)
LEMMA CallInv ==
  ASSUME FInv, NEW t \in Threads, NEW fd \in Fds, NEW gd \in Fds,
         CloseCall(t, fd) \/ RenumberCall(t, fd, gd)
  PROVE  FInv'
<1>0. pc[t] = "idle" /\ ref1[t] = Null /\ ref2[t] = Null
  BY DEF FInv, Shape, ShapeOf, CloseCall, RenumberCall
<1>1. CASE CloseCall(t, fd)
  <2>1. TypeOK'
    BY <1>1 DEF FInv, TypeOK, CloseCall, Goto, tvars, PCs, Ops
  <2>2. lsize' >= lsize /\ \A u \in Threads \ {t} : from'[u] = from[u] /\ to'[u] = to[u]
    BY <1>1 DEF FInv, TypeOK, CloseCall, tvars
  <2>3. UNCHANGED <<slot, refcount, file, ref1, ref2, fresh>> /\ pc' = [pc EXCEPT ![t] = "drain"]
    BY <1>1 DEF CloseCall, Goto, tvars
  <2> QED BY <1>0, <2>1, <2>2, <2>3, Quiet
<1>2. CASE RenumberCall(t, fd, gd)
  <2>1. lsize' \in 0..MaxFds /\ lsize' >= lsize
    BY <1>2, FdAssumption DEF FInv, TypeOK, RenumberCall, Expanded, Fds
  <2>2. TypeOK'
    BY <1>2, <2>1 DEF FInv, TypeOK, RenumberCall, Goto, PCs, Ops
  <2>3. \A u \in Threads \ {t} : from'[u] = from[u] /\ to'[u] = to[u]
    BY <1>2 DEF FInv, TypeOK, RenumberCall
  <2> QED BY <1>0, <1>2, <2>1, <2>2, <2>3, Quiet DEF RenumberCall, Goto
<1> QED BY <1>1, <1>2

(* The wait for the other users of a descriptor. *)
LEMMA DrainInv ==
  ASSUME FInv, NEW t \in Threads,
         DrainBadf(t) \/ DrainWait(t) \/ WaitEnd(t) \/ WaitCheck(t)
  PROVE  FInv'
<1>0. pc[t] \in {"drain", "wait", "woken"} /\ ref1[t] = Null /\ ref2[t] = Null
  BY DEF FInv, Shape, ShapeOf, DrainBadf, DrainWait, WaitEnd, WaitCheck
<1>1. CASE UNCHANGED tvars /\ Finish(t)
  <2>1. TypeOK'
    BY <1>0, <1>1, FinishFacts DEF FInv, TypeOK, tvars
  <2>2. lsize' >= lsize
    BY <1>1 DEF FInv, TypeOK, tvars
  <2> QED BY <1>0, <1>1, <2>1, <2>2, FinishFacts, Quiet DEF tvars
<1>2. ASSUME NEW l \in {"drain", "wait", "woken"}, Goto(t, l), cvwait' \subseteq Threads,
             UNCHANGED <<lsize, slot, refcount, file, op, from, to, ref1, ref2, fresh>>
      PROVE  FInv'
  <2>1. TypeOK'
    BY <1>2 DEF FInv, TypeOK, Goto, PCs
  <2>2. lsize' >= lsize
    BY <1>2 DEF FInv, TypeOK
  <2> QED BY <1>0, <1>2, <2>1, <2>2, Quiet DEF Goto
<1>3. CASE DrainBadf(t)
  BY <1>1, <1>3 DEF DrainBadf
<1>4. CASE DrainWait(t)
  BY <1>2, <1>4 DEF DrainWait, FInv, TypeOK
<1>5. CASE WaitEnd(t)
  BY <1>2, <1>5 DEF WaitEnd, FInv, TypeOK
<1>6. CASE WaitCheck(t)
  BY <1>1, <1>2, <1>6 DEF WaitCheck, FInv, TypeOK, tvars
<1> QED BY <1>3, <1>4, <1>5, <1>6

-----------------------------------------------------------------------------
(* A file that a descriptor names is open, counted, and nobody closes it. *)
LEMMA NamedFile ==
  ASSUME FInv, NEW fd \in Fds, slot[fd] # Null
  PROVE  /\ slot[fd] \in Infos /\ file[slot[fd]] = "open"
         /\ refcount[slot[fd]] = Refs(slot[fd]) /\ refcount[slot[fd]] \in Nat \ {0}
         /\ \A u \in Threads : fresh[u] # slot[fd]
         /\ \A u \in Threads : pc[u] \in {"detached", "rn_release"} => ref1[u] # slot[fd]
<1> USE DEF FInv
<1>1. slot[fd] \in Infos /\ file[slot[fd]] = "open"
  BY DEF TypeOK, Files
<1>2. refcount[slot[fd]] = Refs(slot[fd])
  BY <1>1 DEF Exact
<1>3. Refs(slot[fd]) \in Nat
  BY RefsFacts
<1>4. Refs(slot[fd]) >= 1
  BY <1>1, SlotReference
<1>5. ASSUME NEW u \in Threads, fresh[u] = slot[fd] PROVE FALSE
  BY <1>2, <1>3, <1>4, <1>5 DEF Files
<1>6. ASSUME NEW u \in Threads, pc[u] \in {"detached", "rn_release"}, ref1[u] = slot[fd]
      PROVE  FALSE
  <2>1. Refs(slot[fd]) >= 2
    BY <1>6, SlotReference
  <2>2. CASE pc[u] = "detached"
    <3>1. refcount[slot[fd]] = 1
      BY <1>6, <2>2 DEF Files
    <3> QED BY <1>2, <2>1, <3>1
  <2>3. CASE pc[u] = "rn_release"
    <3>1. refcount[slot[fd]] = IF slot[fd] = ref2[u] THEN 2 ELSE 1
      BY <1>6, <2>3 DEF Renumbering
    <3>2. CASE slot[fd] = ref2[u]
      <4>1. Refs(slot[fd]) >= 3
        BY <1>6, <3>2, SlotReference
      <4> QED BY <1>2, <3>1, <3>2, <4>1
    <3> QED BY <1>2, <2>1, <3>1, <3>2
  <2> QED BY <1>6, <2>2, <2>3
<1> QED BY <1>1, <1>2, <1>3, <1>4, <1>5, <1>6

(* A lookup takes a reference to the file that a descriptor names. *)
LEMMA Take ==
  ASSUME FInv, LockFree, TypeOK', NEW t \in Threads, NEW fd \in Fds, NEW l,
         slot[fd] # Null, refcount' = [refcount EXCEPT ![slot[fd]] = @ + 1],
         UNCHANGED <<slot, file, fresh, lsize>>,
         pc' = [pc EXCEPT ![t] = l], l \in {"second", "using", "release"},
         pc[t] \in {"idle", "second"}, l = "second" => ref2'[t] = Null,
         \/ ref1[t] = Null /\ ref1' = [ref1 EXCEPT ![t] = slot[fd]] /\ ref2' = ref2
         \/ ref2[t] = Null /\ ref2' = [ref2 EXCEPT ![t] = slot[fd]] /\ ref1' = ref1
  PROVE  FInv'
<1> USE DEF FInv
<1> DEFINE j == slot[fd]
<1>0. /\ pc'[t] = l /\ \A u \in Threads \ {t} : pc'[u] = pc[u]
      /\ \A u \in Threads \ {t} : ref1'[u] = ref1[u] /\ ref2'[u] = ref2[u]
      /\ ref1'[t] \in {ref1[t], j} /\ ref2'[t] \in {ref2[t], j}
      /\ refcount'[j] = refcount[j] + 1 /\ \A i \in Infos \ {j} : refcount'[i] = refcount[i]
  BY NamedFile DEF TypeOK
<1>1. /\ j \in Infos /\ file[j] = "open" /\ j # Null
      /\ \A u \in Threads : fresh[u] # j
      /\ \A u \in Threads : pc[u] \in {"detached", "rn_release"} => ref1[u] # j
  BY NamedFile
<1>2. Exact'
  <2> SUFFICES ASSUME NEW i \in Infos, file'[i] # "leaked" PROVE refcount'[i] = Refs(i)'
    BY DEF Exact
  <2>1. refcount[i] = Refs(i) /\ IsFiniteSet(Threads)
    BY FdAssumption DEF Exact
  <2>2. ref1[t] = Null => ref1[t] # i
    BY FdAssumption
  <2>3. ref2[t] = Null => ref2[t] # i
    BY FdAssumption
  <2>4. Refs(i)' = Refs(i) + (IF i = j THEN 1 ELSE 0)
    <3>1. /\ Refs(i) \in Nat
          /\ Refs(i)' = Refs(i) + Is(slot'[fd], i) + Is(ref1'[t], i) + Is(ref2'[t], i)
                               - Is(slot[fd], i) - Is(ref1[t], i) - Is(ref2[t], i)
      BY <1>0, RefsUpdate
    <3>2. \/ /\ ref1[t] # i /\ ref1'[t] = j /\ ref2'[t] = ref2[t]
          \/ /\ ref2[t] # i /\ ref2'[t] = j /\ ref1'[t] = ref1[t]
      BY <2>2, <2>3 DEF TypeOK
    <3> QED BY <3>1, <3>2 DEF Is
  <2>5. refcount'[i] = refcount[i] + (IF i = j THEN 1 ELSE 0)
    BY <1>0, <2>1, RefsFacts
  <2> QED BY <2>1, <2>4, <2>5
<1>3. Shape'
  BY <1>0, <1>1 DEF Shape, ShapeOf
<1>4. Table'
  BY DEF Table
<1> HIDE DEF j
<1>5. Files'
  <2>1. \A fd2 \in Fds : slot'[fd2] # Null => file'[slot'[fd2]] = "open"
    BY DEF Files, j
  <2>2. \A u \in Threads : fresh'[u] # Null =>
            file'[fresh'[u]] = "open" /\ refcount'[fresh'[u]] = 0
    BY <1>0, <1>1 DEF Files, TypeOK
  <2>3. \A u \in Threads : /\ ref1'[u] # Null => file'[ref1'[u]] \in {"open", "closed"}
                           /\ ref2'[u] # Null => file'[ref2'[u]] \in {"open", "closed"}
    BY <1>0, <1>1 DEF Files
  <2>4. \A i \in Infos : file'[i] = "closed" =>
          refcount'[i] = 1 /\ \E u \in Threads : pc'[u] = "release" /\ ref1'[u] = i
    BY <1>0, <1>1 DEF Files
  <2>5. \A u \in Threads : pc'[u] = "detached" =>
          file'[ref1'[u]] = "open" /\ refcount'[ref1'[u]] = 1
    BY <1>0, <1>1 DEF Files, TypeOK, Shape, ShapeOf
  <2> QED BY <2>1, <2>2, <2>3, <2>4, <2>5 DEF Files
<1>6. Renumbering'
  <2>1. \A u \in Threads : pc'[u] \notin {"rn_swap", "readdir"}
    BY <1>0 DEF LockFree
  <2>2. \A u \in Threads : pc'[u] = "rn_release" =>
          /\ file'[ref1'[u]] = "open"
          /\ refcount'[ref1'[u]] = IF ref1'[u] = ref2'[u] THEN 2 ELSE 1
    BY <1>0, <1>1 DEF Renumbering, TypeOK, Shape, ShapeOf
  <2> QED BY <2>1, <2>2 DEF Renumbering
<1> QED BY <1>2, <1>3, <1>4, <1>5, <1>6 DEF NoGarbage

(* A call begins, and a call looks up its second descriptor. *)
LEMMA BeginInv ==
  ASSUME FInv, NEW t \in Threads, NEW o \in Uses, NEW fd \in Fds, NEW gd \in Fds,
         Begin(t, o, fd, gd, Null)
  PROVE  FInv'
<1>0. pc[t] = "idle" /\ ref1[t] = Null /\ ref2[t] = Null /\ LockFree
  BY DEF FInv, Shape, ShapeOf, Begin
<1>1. CASE Found(fd)
  <2> DEFINE l == IF o \in {"link", "poll"} THEN "second" ELSE "using"
  <2>1. /\ slot[fd] # Null /\ refcount' = [refcount EXCEPT ![slot[fd]] = @ + 1]
        /\ UNCHANGED <<slot, file, fresh, lsize>> /\ pc' = [pc EXCEPT ![t] = l]
        /\ ref1' = [ref1 EXCEPT ![t] = slot[fd]] /\ ref2' = ref2
    BY <1>1 DEF Begin, Found, Goto
  <2>2. refcount[slot[fd]] \in Nat /\ slot[fd] \in Infos
    BY <2>1, NamedFile
  <2>3. refcount' \in [Infos -> Nat \cup {-1}]
    BY <2>1, <2>2 DEF FInv, TypeOK
  <2>4. TypeOK'
    BY <2>1, <2>2, <2>3 DEF FInv, TypeOK, Begin, PCs, Ops
  <2>5. ref2'[t] = Null /\ l \in {"second", "using"}
    BY <1>0, <2>1
  <2> HIDE DEF l
  <2> QED BY <1>0, <2>1, <2>4, <2>5, Take
<1>2. CASE ~Found(fd)
  <2> DEFINE l == IF o = "poll" THEN "second" ELSE "release"
  <2>1. UNCHANGED <<slot, refcount, file, lsize, cvwait, to, ref2, fresh>>
    BY <1>2 DEF Begin
  <2>2. pc' = [pc EXCEPT ![t] = l] /\ l \in {"second", "release"}
    BY <1>2 DEF Begin, Goto
  <2>3. ref1' = ref1
    <3>1. ref1' = [ref1 EXCEPT ![t] = Null] /\ ref1 \in [Threads -> Infos \cup {Null}]
      BY <1>2 DEF Begin, FInv, TypeOK
    <3> QED BY <1>0, <3>1
  <2> HIDE DEF l
  <2>4. /\ lsize' >= lsize /\ pc' \in [Threads -> PCs] /\ op' \in [Threads -> Ops]
        /\ from' \in [Threads -> Fds] /\ \A u \in Threads \ {t} : from'[u] = from[u]
    BY <2>1, <2>2 DEF FInv, TypeOK, Begin, PCs, Ops
  <2>5. TypeOK'
    BY <2>1, <2>3, <2>4 DEF FInv, TypeOK
  <2> QED BY <1>0, <2>1, <2>2, <2>3, <2>4, <2>5, Quiet
<1> QED BY <1>1, <1>2

(* The second lookup of a call: a reference is taken, or the call gives up. *)
LEMMA SecondLookupInv ==
  ASSUME FInv, NEW t \in Threads, SecondLookup(t)
  PROVE  FInv'
<1>0. pc[t] = "second" /\ ref2[t] = Null /\ LockFree /\ from[t] \in Fds
  BY DEF FInv, Shape, ShapeOf, SecondLookup, TypeOK
<1>1. CASE /\ Found(from[t])
           /\ refcount' = [refcount EXCEPT ![slot[from[t]]] = @ + 1]
           /\ ref2' = [ref2 EXCEPT ![t] = slot[from[t]]]
           /\ Goto(t, IF ref1[t] = Null THEN "release" ELSE "using")
  <2> DEFINE l == IF ref1[t] = Null THEN "release" ELSE "using"
  <2>1. /\ slot[from[t]] # Null /\ refcount' = [refcount EXCEPT ![slot[from[t]]] = @ + 1]
        /\ UNCHANGED <<slot, file, fresh, lsize, cvwait, op, from, to>>
        /\ pc' = [pc EXCEPT ![t] = l]
        /\ ref2' = [ref2 EXCEPT ![t] = slot[from[t]]] /\ ref1' = ref1
    BY <1>1 DEF SecondLookup, Found, Goto
  <2>2. refcount[slot[from[t]]] \in Nat /\ slot[from[t]] \in Infos
    BY <1>0, <2>1, NamedFile
  <2>3. refcount' \in [Infos -> Nat \cup {-1}]
    BY <2>1, <2>2 DEF FInv, TypeOK
  <2>4. TypeOK'
    BY <2>1, <2>2, <2>3 DEF FInv, TypeOK, PCs
  <2>5. l \in {"release", "using"}
    OBVIOUS
  <2> HIDE DEF l
  <2> QED BY <1>0, <2>1, <2>4, <2>5, Take
<1>2. CASE Goto(t, "release") /\ UNCHANGED <<refcount, ref2>>
  <2>1. /\ UNCHANGED <<slot, refcount, file, lsize, cvwait, op, from, to, ref1, ref2, fresh>>
        /\ pc' = [pc EXCEPT ![t] = "release"]
    BY <1>2 DEF SecondLookup, Goto
  <2>2. TypeOK' /\ lsize' >= lsize
    BY <2>1 DEF FInv, TypeOK, PCs
  <2> QED BY <1>0, <2>1, <2>2, Quiet
<1> QED BY <1>1, <1>2 DEF SecondLookup

-----------------------------------------------------------------------------
(* A release drops a reference that the call holds.  Whatever it does to the
   file, nobody else depends on it: the last reference is the call's own, and
   a file that another call is closing is referenced by that call only. *)
LEMMA Drop ==
  ASSUME FInv, NEW t \in Threads, NEW i \in Infos, NEW l,
         Release(i), pc' = [pc EXCEPT ![t] = l], fresh' = fresh,
         \A u \in Threads \ {t} : ref1'[u] = ref1[u] /\ ref2'[u] = ref2[u],
         \/ pc[t] = "release" /\ ref1[t] = i /\ ref1'[t] = Null /\ ref2'[t] = ref2[t]
         \/ pc[t] \in {"release2", "rn_release"} /\ ref2[t] = i /\ ref2'[t] = Null /\ ref1'[t] = ref1[t],
         IF pc[t] = "rn_release" THEN l = "detached" ELSE l \in {"idle", "release2"},
         l = "release2" => ref1'[t] = Null,
         l = "idle" => ref1'[t] = Null /\ ref2'[t] = Null,
         ref1' \in [Threads -> Infos \cup {Null}], ref2' \in [Threads -> Infos \cup {Null}],
         op' \in [Threads -> Ops], from' \in [Threads -> Fds], to' \in [Threads -> Fds]
  PROVE  FInv'
<1> USE DEF FInv
<1> DEFINE n == refcount[i] - 1
<1>0. i # Null
  BY FdAssumption
<1>1. /\ LockFree /\ refcount' = [refcount EXCEPT ![i] = n]
      /\ file' = IF n = 0 THEN [file EXCEPT ![i] = "free"] ELSE file
      /\ lsize' = lsize /\ slot' = slot /\ cvwait' \subseteq Threads
  BY <1>0 DEF Release, TypeOK
<1>2. /\ pc'[t] = l /\ \A u \in Threads \ {t} : pc'[u] = pc[u]
      /\ refcount'[i] = n /\ \A j \in Infos \ {i} : refcount'[j] = refcount[j]
      /\ n = 0 => file'[i] = "free"
      /\ n # 0 => file'[i] = file[i]
      /\ \A j \in Infos \ {i} : file'[j] = file[j]
  BY <1>1 DEF TypeOK
<1>3. file[i] \in {"open", "closed"}
  BY <1>0 DEF Files
<1>4. refcount[i] = Refs(i) /\ Refs(i) \in Nat /\ Refs(i) # 0
  BY <1>3, RefsFacts DEF Exact
<1>5. n \in Nat
  BY <1>4
<1>6. n = 0 => /\ \A fd \in Fds : slot[fd] # i
               /\ \A u \in Threads \ {t} : ref1[u] # i /\ ref2[u] # i
               /\ ref1'[t] # i /\ ref2'[t] # i
  BY <1>0, <1>4, LastReference
<1> HIDE DEF n
<1>7. ASSUME NEW u \in Threads \ {t}, ref1[u] = i, pc[u] \in {"detached", "rn_release"}
      PROVE  FALSE
  <2>1. Refs(i) >= 2 /\ (ref2[u] = i => Refs(i) >= 3)
    BY <1>7, TwoCalls
  <2>2. pc[u] = "detached" => refcount[i] = 1
    BY <1>7 DEF Files
  <2>3. pc[u] = "rn_release" => refcount[i] = IF i = ref2[u] THEN 2 ELSE 1
    BY <1>7 DEF Renumbering
  <2> QED BY <1>4, <1>7, <2>1, <2>2, <2>3
<1>8. TypeOK'
  <2>1. pc' \in [Threads -> PCs]
    BY DEF TypeOK, PCs
  <2>2. refcount' \in [Infos -> Nat \cup {-1}]
    BY <1>1, <1>5 DEF TypeOK
  <2>3. file' \in [Infos -> {"free", "open", "closed", "leaked"}]
    BY <1>1 DEF TypeOK
  <2> QED BY <1>1, <2>1, <2>2, <2>3 DEF TypeOK
<1>9. Exact'
  <2> SUFFICES ASSUME NEW j \in Infos, file'[j] # "leaked" PROVE refcount'[j] = Refs(j)'
    BY DEF Exact
  <2>1. refcount[j] = Refs(j)
    BY <1>2, <1>4 DEF Exact
  <2>2. /\ Refs(j) \in Nat
        /\ Refs(j)' = Refs(j) + Is(slot'[0], j) + Is(ref1'[t], j) + Is(ref2'[t], j)
                             - Is(slot[0], j) - Is(ref1[t], j) - Is(ref2[t], j)
    <3>1. 0 \in Fds /\ \A gd \in Fds \ {0} : slot'[gd] = slot[gd]
      BY <1>1, FdAssumption DEF Fds
    <3> QED BY <3>1, RefsUpdate
  <2>3. \/ ref1[t] = i /\ ref1'[t] = Null /\ ref2'[t] = ref2[t]
        \/ ref2[t] = i /\ ref2'[t] = Null /\ ref1'[t] = ref1[t]
    OBVIOUS
  <2>4. slot'[0] = slot[0] /\ j # Null
    BY <1>1, FdAssumption
  <2>5. Refs(j)' = Refs(j) - Is(i, j)
    BY <2>2, <2>3, <2>4 DEF Is
  <2>6. refcount'[j] = refcount[j] - Is(i, j)
    BY <1>2, <2>1, <2>2 DEF Is, n
  <2> QED BY <2>1, <2>5, <2>6
<1>10. Shape'
  BY <1>0, <1>2 DEF Shape, ShapeOf
<1>11. Table'
  BY <1>1 DEF Table
<1>12. Files'
  <2>1. \A fd \in Fds : slot'[fd] # Null => file'[slot'[fd]] = "open"
    BY <1>1, <1>2, <1>6 DEF Files, TypeOK
  <2>2. \A u \in Threads : fresh'[u] # Null =>
            file'[fresh'[u]] = "open" /\ refcount'[fresh'[u]] = 0
    BY <1>2, <1>4 DEF Files, TypeOK
  <2>3. \A u \in Threads : /\ ref1'[u] # Null => file'[ref1'[u]] \in {"open", "closed"}
                           /\ ref2'[u] # Null => file'[ref2'[u]] \in {"open", "closed"}
    BY <1>2, <1>6 DEF Files, TypeOK
  <2>4. ASSUME NEW j \in Infos, file'[j] = "closed"
        PROVE  refcount'[j] = 1 /\ \E u \in Threads : pc'[u] = "release" /\ ref1'[u] = j
    <3>1. j # i
      BY <1>2, <1>5, <2>4 DEF Files, n
    <3>2. PICK u \in Threads : pc[u] = "release" /\ ref1[u] = j
      BY <1>2, <2>4, <3>1 DEF Files
    <3>3. refcount[j] = 1 /\ u # t
      BY <1>2, <2>4, <3>1, <3>2 DEF Files
    <3> QED BY <1>2, <3>1, <3>2, <3>3
  <2>5. ASSUME NEW u \in Threads, pc'[u] = "detached"
        PROVE  file'[ref1'[u]] = "open" /\ refcount'[ref1'[u]] = 1
    <3>1. CASE u # t
      <4>1. pc[u] = "detached" /\ ref1'[u] = ref1[u] /\ ref1[u] # i /\ ref1[u] \in Infos
        BY <1>2, <1>7, <2>5, <3>1 DEF Shape, ShapeOf, TypeOK
      <4> QED BY <1>2, <4>1 DEF Files
    <3>2. CASE u = t
      <4>1. /\ pc[t] = "rn_release" /\ ref1'[t] = ref1[t] /\ ref1[t] \in Infos /\ ref2[t] = i
        BY <1>2, <2>5, <3>2 DEF Shape, ShapeOf, TypeOK
      <4>2. file[ref1[t]] = "open" /\ refcount[ref1[t]] = IF ref1[t] = i THEN 2 ELSE 1
        BY <4>1 DEF Renumbering
      <4>3. CASE ref1[t] = i
        BY <1>2, <3>2, <4>1, <4>2, <4>3 DEF n
      <4>4. CASE ref1[t] # i
        BY <1>2, <3>2, <4>1, <4>2, <4>4
      <4> QED BY <4>3, <4>4
    <3> QED BY <3>1, <3>2
  <2> QED BY <2>1, <2>2, <2>3, <2>4, <2>5 DEF Files
<1>13. Renumbering'
  <2>1. \A u \in Threads : pc'[u] \notin {"rn_swap", "readdir"}
    BY <1>1, <1>2 DEF LockFree
  <2>2. ASSUME NEW u \in Threads, pc'[u] = "rn_release"
        PROVE  /\ file'[ref1'[u]] = "open"
               /\ refcount'[ref1'[u]] = IF ref1'[u] = ref2'[u] THEN 2 ELSE 1
    <3>1. u # t /\ pc[u] = "rn_release"
      BY <1>2, <2>2
    <3>2. ref1[u] # i /\ ref1[u] \in Infos /\ ref1'[u] = ref1[u] /\ ref2'[u] = ref2[u]
      BY <1>7, <3>1 DEF Shape, ShapeOf, TypeOK
    <3> QED BY <1>2, <3>1, <3>2 DEF Renumbering
  <2> QED BY <2>1, <2>2 DEF Renumbering
<1> QED BY <1>8, <1>9, <1>10, <1>11, <1>12, <1>13 DEF NoGarbage

(* The releases of fd_renumber and those at the end of a call. *)
LEMMA RenumberReleaseInv ==
  ASSUME FInv, NEW t \in Threads, RenumberRelease(t)
  PROVE  FInv'
<1>1. pc[t] = "rn_release" /\ ref2[t] # Null /\ ref2[t] \in Infos /\ Release(ref2[t])
  BY DEF FInv, Shape, ShapeOf, TypeOK, RenumberRelease
<1>2. /\ pc' = [pc EXCEPT ![t] = "detached"] /\ UNCHANGED <<op, from, to, ref1, fresh>>
      /\ ref2' = [ref2 EXCEPT ![t] = Null]
  BY DEF RenumberRelease, Goto
<1>3. /\ ref2'[t] = Null /\ \A u \in Threads \ {t} : ref2'[u] = ref2[u]
      /\ ref2' \in [Threads -> Infos \cup {Null}]
  BY <1>2 DEF FInv, TypeOK
<1>4. /\ ref1' \in [Threads -> Infos \cup {Null}] /\ op' \in [Threads -> Ops]
      /\ from' \in [Threads -> Fds] /\ to' \in [Threads -> Fds]
  BY <1>2 DEF FInv, TypeOK
<1> QED BY <1>1, <1>2, <1>3, <1>4, Drop

(* A call releases what it holds when it ends. *)
LEMMA CallReleaseInv ==
  ASSUME FInv, NEW t \in Threads, CallRelease(t) \/ CallRelease2(t)
  PROVE  FInv'
<1> DEFINE l == IF pc[t] = "release" /\ ref2[t] # Null THEN "release2" ELSE "idle"
           r == IF pc[t] = "release" THEN ref1[t] ELSE ref2[t]
<1>1. pc[t] \in {"release", "release2"} /\ Release(r) /\ (pc[t] = "release2" => ref1[t] = Null)
  BY DEF CallRelease, CallRelease2, FInv, Shape, ShapeOf
<1>2. /\ pc' = [pc EXCEPT ![t] = l] /\ fresh' = fresh
      /\ op' \in [Threads -> Ops] /\ from' \in [Threads -> Fds] /\ to' \in [Threads -> Fds]
      /\ \A u \in Threads \ {t} : from'[u] = from[u] /\ to'[u] = to[u]
  <2>1. CASE Finish(t) /\ l = "idle"
    BY <1>1, <2>1, FinishFacts
  <2>2. CASE Goto(t, "release2") /\ l = "release2" /\ UNCHANGED <<op, from, to, fresh>>
    BY <2>2 DEF Goto, FInv, TypeOK
  <2> QED BY <2>1, <2>2 DEF CallRelease, CallRelease2
<1>3. /\ ref1' = [ref1 EXCEPT ![t] = Null]
      /\ IF pc[t] = "release" THEN ref2' = ref2 ELSE ref2' = [ref2 EXCEPT ![t] = Null]
  <2>1. ref1 \in [Threads -> Infos \cup {Null}] /\ ref2 \in [Threads -> Infos \cup {Null}]
    BY DEF FInv, TypeOK
  <2>2. CASE CallRelease(t) /\ ref2[t] = Null
    <3>1. pc[t] # "opening" /\ pc[t] = "release" /\ Finish(t)
      BY <2>2 DEF CallRelease
    <3> QED BY <2>2, <3>1, FinishFacts DEF Finish
  <2>3. CASE CallRelease(t) /\ ref2[t] # Null
    BY <2>3 DEF CallRelease
  <2>4. CASE CallRelease2(t)
    BY <2>4 DEF CallRelease2, Finish
  <2> QED BY <2>2, <2>3, <2>4
<1>4. /\ ref1' \in [Threads -> Infos \cup {Null}] /\ ref2' \in [Threads -> Infos \cup {Null}]
      /\ \A u \in Threads \ {t} : ref1'[u] = ref1[u] /\ ref2'[u] = ref2[u]
      /\ ref1'[t] = Null /\ ref2'[t] = IF pc[t] = "release" THEN ref2[t] ELSE Null
  BY <1>3 DEF FInv, TypeOK
<1>5. CASE r = Null
  <2>1. UNCHANGED tvars
    BY <1>1, <1>5 DEF Release
  <2>2. ref1' = ref1 /\ ref2' = ref2
    <3>1. ref1 \in [Threads -> Infos \cup {Null}] /\ ref2 \in [Threads -> Infos \cup {Null}]
      BY DEF FInv, TypeOK
    <3>2. ref1[t] = Null /\ (pc[t] = "release" \/ ref2[t] = Null)
      BY <1>1, <1>5
    <3>3. [ref1 EXCEPT ![t] = Null] = ref1 /\ (ref2[t] = Null => [ref2 EXCEPT ![t] = Null] = ref2)
      BY <3>1, <3>2, SameValue
    <3> QED BY <1>3, <3>2, <3>3
  <2>3. ref1[t] = Null /\ (l = "idle" => ref2[t] = Null)
    BY <1>1, <1>5
  <2>4. l \in {"idle", "release2"}
    OBVIOUS
  <2> HIDE DEF l, r
  <2>5. pc' \in [Threads -> PCs] /\ lsize' >= lsize
    BY <1>2, <2>1, <2>4 DEF FInv, TypeOK, PCs, tvars
  <2>6. TypeOK'
    BY <1>2, <2>1, <2>2, <2>5 DEF FInv, TypeOK, tvars
  <2>7. UNCHANGED <<slot, refcount, file, ref1, ref2, fresh>>
    BY <1>2, <2>1, <2>2 DEF tvars
  <2> QED BY <1>1, <1>2, <2>3, <2>4, <2>5, <2>6, <2>7, Quiet
<1>6. CASE r # Null
  <2>1. r \in Infos
    BY <1>6 DEF FInv, TypeOK
  <2>2. l \in {"idle", "release2"} /\ (l = "idle" => ref2'[t] = Null)
    BY <1>1, <1>4
  <2>3. \/ pc[t] = "release" /\ ref1[t] = r /\ ref2'[t] = ref2[t]
        \/ pc[t] = "release2" /\ ref2[t] = r /\ ref2'[t] = Null /\ ref1'[t] = ref1[t]
    BY <1>1, <1>4
  <2> HIDE DEF l, r
  <2> QED BY <1>1, <1>2, <1>4, <2>1, <2>2, <2>3, Drop
<1> QED BY <1>5, <1>6

-----------------------------------------------------------------------------
(* Nothing refers to a struct that is free, nor to one that a call has made
   and not yet given a descriptor. *)
LEMMA FreeFile ==
  ASSUME FInv, NEW i \in Infos,
         file[i] = "free" \/ \E t \in Threads : fresh[t] = i
  PROVE  /\ \A fd \in Fds : slot[fd] # i
         /\ \A u \in Threads : ref1[u] # i /\ ref2[u] # i
         /\ refcount[i] = 0 /\ Refs(i) = 0
         /\ file[i] = "free" => \A u \in Threads : fresh[u] # i
<1> USE DEF FInv
<1>0. i # Null
  BY FdAssumption
<1>1. CASE file[i] = "free"
  <2>1. /\ \A fd \in Fds : slot[fd] # i
        /\ \A u \in Threads : ref1[u] # i /\ ref2[u] # i
        /\ \A u \in Threads : fresh[u] # i
    BY <1>0, <1>1 DEF Files
  <2>2. Refs(i) = 0
    BY <2>1, RefsFacts
  <2> QED BY <1>1, <2>1, <2>2 DEF Exact
<1>2. CASE \E t \in Threads : fresh[t] = i
  <2>1. file[i] = "open" /\ refcount[i] = 0
    BY <1>0, <1>2 DEF Files
  <2>2. Refs(i) = 0
    BY <2>1 DEF Exact
  <2>3. /\ \A fd \in Fds : slot[fd] # i
        /\ \A u \in Threads : ref1[u] # i /\ ref2[u] # i
    BY <2>2, RefsFacts
  <2> QED BY <2>1, <2>2, <2>3
<1> QED BY <1>1, <1>2

(* path_open, sock_accept and the embedder make a struct. *)
LEMMA MakeInv ==
  ASSUME FInv, NEW t \in Threads, NEW i \in Infos, Opened(t, i) \/ PrestatAdd(t, i)
  PROVE  FInv'
<1> USE DEF FInv
<1>0. /\ pc[t] \in {"using", "idle"} /\ file[i] = "free" /\ i # Null
      /\ file' = [file EXCEPT ![i] = "open"] /\ refcount' = [refcount EXCEPT ![i] = 0]
      /\ fresh' = [fresh EXCEPT ![t] = i] /\ pc' = [pc EXCEPT ![t] = "opening"]
      /\ UNCHANGED <<lsize, slot, cvwait, from, to, ref1, ref2>>
  BY FdAssumption DEF Opened, PrestatAdd, Goto
<1>1. op' \in [Threads -> Ops]
  BY DEF Opened, PrestatAdd, TypeOK, Ops
<1>2. TypeOK'
  BY <1>0, <1>1 DEF TypeOK, PCs
<1>3. /\ pc'[t] = "opening" /\ \A u \in Threads \ {t} : pc'[u] = pc[u]
      /\ fresh'[t] = i /\ \A u \in Threads \ {t} : fresh'[u] = fresh[u]
      /\ file'[i] = "open" /\ \A j \in Infos \ {i} : file'[j] = file[j]
      /\ refcount' = refcount
  <2>1. refcount[i] = 0 /\ refcount \in [Infos -> Nat \cup {-1}]
    BY <1>0, FreeFile DEF TypeOK
  <2>2. refcount' = refcount
    BY <1>0, <2>1
  <2> QED BY <1>0, <2>2 DEF TypeOK
<1>4. /\ \A fd \in Fds : slot[fd] # i
      /\ \A u \in Threads : ref1[u] # i /\ ref2[u] # i
      /\ \A u \in Threads : fresh[u] # i
      /\ refcount[i] = 0 /\ Refs(i) = 0
  BY <1>0, FreeFile
<1>5. Exact'
  <2>1. \A j : Refs(j)' = Refs(j)
    BY <1>0 DEF Refs, Count
  <2> QED BY <1>3, <1>4, <2>1 DEF Exact
<1>6. Shape'
  BY <1>0, <1>3 DEF Shape, ShapeOf
<1>7. Table'
  BY <1>0 DEF Table
<1>8. Files'
  <2>1. \A fd \in Fds : slot'[fd] # Null => file'[slot'[fd]] = "open"
    BY <1>0, <1>3, <1>4 DEF Files, TypeOK
  <2>2. \A u \in Threads : fresh'[u] # Null =>
            file'[fresh'[u]] = "open" /\ refcount'[fresh'[u]] = 0
    BY <1>3, <1>4 DEF Files, TypeOK
  <2>3. \A u \in Threads : /\ ref1'[u] # Null => file'[ref1'[u]] \in {"open", "closed"}
                           /\ ref2'[u] # Null => file'[ref2'[u]] \in {"open", "closed"}
    BY <1>0, <1>3, <1>4 DEF Files, TypeOK
  <2>4. \A j \in Infos : file'[j] = "closed" =>
          refcount'[j] = 1 /\ \E u \in Threads : pc'[u] = "release" /\ ref1'[u] = j
    BY <1>0, <1>3 DEF Files
  <2>5. \A u \in Threads : pc'[u] = "detached" =>
          file'[ref1'[u]] = "open" /\ refcount'[ref1'[u]] = 1
    BY <1>0, <1>3, <1>4 DEF Files, TypeOK, Shape, ShapeOf
  <2>6. \A u, v \in Threads : fresh'[u] # Null /\ fresh'[u] = fresh'[v] => u = v
    BY <1>3, <1>4 DEF Files
  <2> QED BY <2>1, <2>2, <2>3, <2>4, <2>5, <2>6 DEF Files
<1>9. Renumbering'
  BY <1>0, <1>3, <1>4 DEF Renumbering, TypeOK, Shape, ShapeOf
<1> QED BY <1>2, <1>5, <1>6, <1>7, <1>8, <1>9 DEF NoGarbage

(* wasi_table_alloc_slot finds an empty slot, in the table or at its end. *)
LEMMA AllocSlotFacts ==
  ASSUME FInv
  PROVE  /\ AllocSlot \in Nat
         /\ AllocSlot < MaxFds => AllocSlot \in Fds /\ slot[AllocSlot] = Null
<1>1. lsize \in Nat /\ MaxFds \in Nat /\ ReservedSlots \in Nat
  BY FdAssumption DEF FInv, TypeOK
<1>2. CASE EmptySlots # {}
  <2>1. EmptySlots \in SUBSET Nat
    BY FdsFinite DEF EmptySlots
  <2>2. \E fd \in EmptySlots : \A g \in EmptySlots : fd <= g
    BY <1>2, <2>1, SmallestElement
  <2>3. AllocSlot \in EmptySlots
    BY <1>2, <2>2 DEF AllocSlot
  <2> QED BY <2>1, <2>3 DEF EmptySlots
<1>3. CASE EmptySlots = {}
  <2>1. AllocSlot \in Nat /\ AllocSlot >= lsize
    BY <1>1, <1>3 DEF AllocSlot
  <2>2. AllocSlot < MaxFds => AllocSlot \in Fds
    BY <1>1, <2>1 DEF Fds
  <2>3. \A fd \in Fds : slot[fd] # Null => fd < lsize
    BY DEF FInv, Table
  <2> QED BY <1>1, <2>1, <2>2, <2>3
<1> QED BY <1>2, <1>3

(* A struct that nothing refers to gets an empty descriptor: by
   wasi_table_fdinfo_add from the call that made it, or by
   wasi_instance_add_hostfd. *)
LEMMA Name ==
  ASSUME FInv, LockFree, NEW t \in Threads, NEW i \in Infos, NEW fd \in Fds,
         slot[fd] = Null, slot' = [slot EXCEPT ![fd] = i],
         refcount' = [refcount EXCEPT ![i] = 1], file' = [file EXCEPT ![i] = "open"],
         lsize' = Expanded(fd), UNCHANGED <<cvwait, op, from, to, ref1, ref2>>,
         \/ file[i] = "free" /\ UNCHANGED <<pc, fresh>>
         \/ /\ fresh[t] = i /\ pc[t] = "opening"
            /\ fresh' = [fresh EXCEPT ![t] = Null] /\ pc' = [pc EXCEPT ![t] = "release"]
  PROVE  FInv'
<1> USE DEF FInv
<1>0. i # Null
  BY FdAssumption
<1>1. /\ \A gd \in Fds : slot[gd] # i
      /\ \A u \in Threads : ref1[u] # i /\ ref2[u] # i
      /\ refcount[i] = 0 /\ Refs(i) = 0
      /\ \A u \in Threads : fresh'[u] # i
  <2>1. \A u \in Threads : fresh'[u] # i
    BY <1>0, FreeFile DEF Files, TypeOK
  <2> QED BY <2>1, FreeFile
<1>2. /\ \A u \in Threads : pc'[u] = pc[u] \/ (u = t /\ pc[u] = "opening" /\ pc'[u] = "release")
      /\ \A u \in Threads : fresh'[u] # Null => fresh'[u] = fresh[u]
      /\ slot'[fd] = i /\ \A gd \in Fds \ {fd} : slot'[gd] = slot[gd]
      /\ file'[i] = "open" /\ \A j \in Infos \ {i} : file'[j] = file[j]
      /\ refcount'[i] = 1 /\ \A j \in Infos \ {i} : refcount'[j] = refcount[j]
  BY DEF TypeOK
<1>3. lsize' \in 0..MaxFds /\ lsize' >= lsize /\ fd < lsize'
  BY FdAssumption DEF TypeOK, Expanded, Fds
<1>4. TypeOK'
  <2>1. pc' \in [Threads -> PCs] /\ fresh' \in [Threads -> Infos \cup {Null}]
    BY DEF TypeOK, PCs
  <2>2. /\ slot' \in [Fds -> Infos \cup {Null}] /\ refcount' \in [Infos -> Nat \cup {-1}]
        /\ file' \in [Infos -> {"free", "open", "closed", "leaked"}]
    BY DEF TypeOK
  <2> QED BY <1>3, <2>1, <2>2 DEF TypeOK
<1>5. Exact'
  <2> SUFFICES ASSUME NEW j \in Infos, file'[j] # "leaked" PROVE refcount'[j] = Refs(j)'
    BY DEF Exact
  <2>1. refcount[j] = Refs(j)
    BY <1>1, <1>2 DEF Exact
  <2>2. /\ Refs(j) \in Nat
        /\ Refs(j)' = Refs(j) + Is(slot'[fd], j) + Is(ref1'[t], j) + Is(ref2'[t], j)
                             - Is(slot[fd], j) - Is(ref1[t], j) - Is(ref2[t], j)
    BY <1>2, RefsUpdate
  <2>3. ref1' = ref1 /\ ref2' = ref2 /\ slot[fd] # j /\ slot'[fd] = i
    BY <1>2, FdAssumption
  <2>4. Refs(j)' = Refs(j) + Is(i, j)
    BY <2>2, <2>3 DEF Is
  <2>5. refcount'[j] = refcount[j] + Is(i, j)
    BY <1>1, <1>2, <2>1, <2>2 DEF Is
  <2> QED BY <2>1, <2>4, <2>5
<1>6. Shape'
  BY <1>2 DEF Shape, ShapeOf, TypeOK
<1>7. Table'
  <2>1. \A gd \in Fds : slot'[gd] # Null => gd < lsize'
    BY <1>2, <1>3, FdsFinite DEF Table, TypeOK
  <2>2. \A gd, hd \in Fds : slot'[gd] # Null /\ slot'[gd] = slot'[hd] => gd = hd
    BY <1>1, <1>2 DEF Table
  <2> QED BY <2>1, <2>2 DEF Table
<1>8. Files'
  <2>1. \A gd \in Fds : slot'[gd] # Null => file'[slot'[gd]] = "open"
    BY <1>1, <1>2 DEF Files, TypeOK
  <2>2. \A u \in Threads : fresh'[u] # Null =>
            file'[fresh'[u]] = "open" /\ refcount'[fresh'[u]] = 0
    BY <1>1, <1>2 DEF Files, TypeOK
  <2>3. \A u \in Threads : /\ ref1'[u] # Null => file'[ref1'[u]] \in {"open", "closed"}
                           /\ ref2'[u] # Null => file'[ref2'[u]] \in {"open", "closed"}
    BY <1>1, <1>2 DEF Files, TypeOK
  <2>4. \A j \in Infos : file'[j] = "closed" =>
          refcount'[j] = 1 /\ \E u \in Threads : pc'[u] = "release" /\ ref1'[u] = j
    BY <1>2 DEF Files
  <2>5. \A u \in Threads : pc'[u] = "detached" =>
          file'[ref1'[u]] = "open" /\ refcount'[ref1'[u]] = 1
    BY <1>1, <1>2 DEF Files, TypeOK, Shape, ShapeOf
  <2>6. \A u, v \in Threads : fresh'[u] # Null /\ fresh'[u] = fresh'[v] => u = v
    BY <1>2 DEF Files
  <2> QED BY <2>1, <2>2, <2>3, <2>4, <2>5, <2>6 DEF Files
<1>9. Renumbering'
  <2>1. \A u \in Threads : pc'[u] \notin {"rn_swap", "readdir"}
    BY <1>2 DEF LockFree
  <2>2. \A u \in Threads : pc'[u] = "rn_release" =>
          /\ file'[ref1'[u]] = "open"
          /\ refcount'[ref1'[u]] = IF ref1'[u] = ref2'[u] THEN 2 ELSE 1
    BY <1>1, <1>2 DEF Renumbering, TypeOK, Shape, ShapeOf
  <2> QED BY <2>1, <2>2 DEF Renumbering
<1> QED BY <1>4, <1>5, <1>6, <1>7, <1>8, <1>9 DEF NoGarbage

(* wasi_instance_add_hostfd puts a new file into a free descriptor. *)
LEMMA AddHostfdInv ==
  ASSUME FInv, NEW t \in Threads, NEW fd \in Fds, NEW i \in Infos, AddHostfd(t, fd, i)
  PROVE  FInv'
<1>1. slot[fd] = Null
  BY DEF AddHostfd, Found, FInv, Table
<1>2. /\ LockFree /\ file[i] = "free" /\ slot' = [slot EXCEPT ![fd] = i]
      /\ refcount' = [refcount EXCEPT ![i] = 1] /\ file' = [file EXCEPT ![i] = "open"]
      /\ lsize' = Expanded(fd) /\ UNCHANGED <<cvwait, op, from, to, ref1, ref2, pc, fresh>>
  BY DEF AddHostfd, lvars
<1> QED BY <1>1, <1>2, Name

(* A struct that nothing refers to is given up: freed by the call that made
   it, or leaked by the error path of wasi_instance_add_hostfd. *)
LEMMA GiveUp ==
  ASSUME FInv, LockFree, NEW t \in Threads, NEW i \in Infos, NEW s,
         file' = [file EXCEPT ![i] = s], lsize' \in 0..MaxFds, lsize' >= lsize,
         UNCHANGED <<slot, cvwait, op, from, to, ref1, ref2>>,
         \/ /\ file[i] = "free" /\ s = "leaked" /\ refcount' = [refcount EXCEPT ![i] = -1]
            /\ UNCHANGED <<pc, fresh>>
         \/ /\ fresh[t] = i /\ pc[t] = "opening" /\ s = "free" /\ refcount' = refcount
            /\ fresh' = [fresh EXCEPT ![t] = Null] /\ pc' = [pc EXCEPT ![t] = "release"]
  PROVE  FInv'
<1> USE DEF FInv
<1>0. i # Null
  BY FdAssumption
<1>1. /\ \A gd \in Fds : slot[gd] # i
      /\ \A u \in Threads : ref1[u] # i /\ ref2[u] # i
      /\ refcount[i] = 0 /\ Refs(i) = 0
      /\ \A u \in Threads : fresh'[u] # i
  <2>1. \A u \in Threads : fresh'[u] # i
    BY <1>0, FreeFile DEF Files, TypeOK
  <2> QED BY <2>1, FreeFile
<1>2. /\ \A u \in Threads : pc'[u] = pc[u] \/ (u = t /\ pc[u] = "opening" /\ pc'[u] = "release")
      /\ \A u \in Threads : fresh'[u] # Null => fresh'[u] = fresh[u]
      /\ file'[i] = s /\ \A j \in Infos \ {i} : file'[j] = file[j]
      /\ \A j \in Infos \ {i} : refcount'[j] = refcount[j]
      /\ s = "leaked" \/ (s = "free" /\ refcount'[i] = 0)
  <2>1. /\ \A u \in Threads : pc'[u] = pc[u] \/ (u = t /\ pc[u] = "opening" /\ pc'[u] = "release")
        /\ \A u \in Threads : fresh'[u] # Null => fresh'[u] = fresh[u]
    BY DEF TypeOK
  <2>2. /\ file'[i] = s /\ \A j \in Infos \ {i} : file'[j] = file[j]
        /\ \A j \in Infos \ {i} : refcount'[j] = refcount[j]
    BY DEF TypeOK
  <2>3. s = "leaked" \/ (s = "free" /\ refcount'[i] = 0)
    BY <1>1
  <2> QED BY <2>1, <2>2, <2>3
<1>3. TypeOK'
  <2>1. pc' \in [Threads -> PCs] /\ fresh' \in [Threads -> Infos \cup {Null}]
    BY DEF TypeOK, PCs
  <2>2. /\ refcount' \in [Infos -> Nat \cup {-1}]
        /\ file' \in [Infos -> {"free", "open", "closed", "leaked"}]
    BY DEF TypeOK
  <2> QED BY <2>1, <2>2 DEF TypeOK
<1>4. Exact'
  <2>1. \A j : Refs(j)' = Refs(j)
    BY DEF Refs, Count
  <2> QED BY <1>1, <1>2, <2>1 DEF Exact
<1>5. Shape'
  BY <1>2 DEF Shape, ShapeOf, TypeOK
<1>6. Table'
  BY FdsFinite DEF Table, TypeOK
<1>7. Files'
  <2>1. \A gd \in Fds : slot'[gd] # Null => file'[slot'[gd]] = "open"
    BY <1>1, <1>2 DEF Files, TypeOK
  <2>2. \A u \in Threads : fresh'[u] # Null =>
            file'[fresh'[u]] = "open" /\ refcount'[fresh'[u]] = 0
    BY <1>1, <1>2 DEF Files, TypeOK
  <2>3. \A u \in Threads : /\ ref1'[u] # Null => file'[ref1'[u]] \in {"open", "closed"}
                           /\ ref2'[u] # Null => file'[ref2'[u]] \in {"open", "closed"}
    BY <1>1, <1>2 DEF Files, TypeOK
  <2>4. \A j \in Infos : file'[j] = "closed" =>
          refcount'[j] = 1 /\ \E u \in Threads : pc'[u] = "release" /\ ref1'[u] = j
    BY <1>2 DEF Files
  <2>5. \A u \in Threads : pc'[u] = "detached" =>
          file'[ref1'[u]] = "open" /\ refcount'[ref1'[u]] = 1
    BY <1>1, <1>2 DEF Files, TypeOK, Shape, ShapeOf
  <2>6. \A u, v \in Threads : fresh'[u] # Null /\ fresh'[u] = fresh'[v] => u = v
    BY <1>2 DEF Files
  <2> QED BY <2>1, <2>2, <2>3, <2>4, <2>5, <2>6 DEF Files
<1>8. Renumbering'
  <2>1. \A u \in Threads : pc'[u] \notin {"rn_swap", "readdir"}
    BY <1>2 DEF LockFree
  <2>2. \A u \in Threads : pc'[u] = "rn_release" =>
          /\ file'[ref1'[u]] = "open"
          /\ refcount'[ref1'[u]] = IF ref1'[u] = ref2'[u] THEN 2 ELSE 1
    BY <1>1, <1>2 DEF Renumbering, TypeOK, Shape, ShapeOf
  <2> QED BY <2>1, <2>2 DEF Renumbering
<1> QED BY <1>3, <1>4, <1>5, <1>6, <1>7, <1>8 DEF NoGarbage

(* Its error path leaks the struct, which no descriptor names. *)
LEMMA AddHostfdFailsInv ==
  ASSUME FInv, NEW t \in Threads, NEW fd \in Fds, NEW i \in Infos, AddHostfdFails(t, fd, i)
  PROVE  FInv'
<1>1. /\ LockFree /\ file[i] = "free" /\ refcount' = [refcount EXCEPT ![i] = -1]
      /\ file' = [file EXCEPT ![i] = "leaked"]
      /\ UNCHANGED <<slot, cvwait, op, from, to, ref1, ref2, pc, fresh>>
  BY DEF AddHostfdFails, lvars
<1>2. lsize' \in 0..MaxFds /\ lsize' >= lsize
  BY FdAssumption DEF AddHostfdFails, FInv, TypeOK, Expanded, Fds
<1> QED BY <1>1, <1>2, GiveUp

(* wasi_table_fdinfo_add gives the new file of a call the lowest free descriptor,
   or frees its struct. *)
LEMMA FdAddInv ==
  ASSUME FInv, NEW t \in Threads, FdAdd(t)
  PROVE  FInv'
<1>1. /\ pc[t] = "opening" /\ LockFree /\ fresh[t] # Null /\ fresh[t] \in Infos
      /\ fresh' = [fresh EXCEPT ![t] = Null] /\ pc' = [pc EXCEPT ![t] = "release"]
      /\ UNCHANGED <<cvwait, op, from, to, ref1, ref2>>
  BY DEF FdAdd, Goto, FInv, Shape, ShapeOf, TypeOK
<1>2. file[fresh[t]] = "open" /\ refcount[fresh[t]] = 0
  BY <1>1 DEF FInv, Files
<1>3. CASE /\ AllocSlot < MaxFds
           /\ slot' = [slot EXCEPT ![AllocSlot] = fresh[t]]
           /\ refcount' = [refcount EXCEPT ![fresh[t]] = @ + 1]
           /\ lsize' = Expanded(AllocSlot)
           /\ UNCHANGED file
  <2>1. AllocSlot \in Fds /\ slot[AllocSlot] = Null
    BY <1>3, AllocSlotFacts
  <2>2. file' = [file EXCEPT ![fresh[t]] = "open"]
    BY <1>2, <1>3 DEF FInv, TypeOK
  <2>3. refcount' = [refcount EXCEPT ![fresh[t]] = 1]
    BY <1>2, <1>3
  <2> QED BY <1>1, <1>3, <2>1, <2>2, <2>3, Name
<1>4. CASE /\ AllocSlot >= lsize
           /\ file' = [file EXCEPT ![fresh[t]] = "free"]
           /\ UNCHANGED <<lsize, slot, refcount>>
  <2>1. lsize' \in 0..MaxFds /\ lsize' >= lsize
    BY <1>4 DEF FInv, TypeOK
  <2> QED BY <1>1, <1>4, <2>1, GiveUp
<1> QED BY <1>3, <1>4 DEF FdAdd

(* wasi_table_clear drops the only reference of every file that the table
   names. *)
LEMMA TableClearInv ==
  ASSUME FInv, TableClear
  PROVE  FInv'
<1> USE DEF FInv
<1> DEFINE named == {slot[fd] : fd \in Fds} \ {Null}
<1>0. /\ \A t \in Threads : pc[t] = "idle"
      /\ lsize' = 0 /\ slot' = [fd \in Fds |-> Null]
      /\ refcount' = [i \in Infos |-> IF i \in named THEN refcount[i] - 1 ELSE refcount[i]]
      /\ file' = [i \in Infos |-> IF i \in named THEN "free" ELSE file[i]]
      /\ UNCHANGED <<cvwait, pc, op, from, to, ref1, ref2, fresh>>
  BY DEF TableClear, lvars
<1>1. \A t \in Threads : ref1[t] = Null /\ ref2[t] = Null /\ fresh[t] = Null
  BY <1>0 DEF Shape, ShapeOf
<1>2. ASSUME NEW i \in Infos
      PROVE  /\ Refs(i)' = 0
             /\ i \in named => refcount[i] = 1 /\ file[i] = "open"
             /\ i \notin named => Refs(i) = 0
  <2>0. i # Null /\ IsFiniteSet(Threads)
    BY FdAssumption
  <2>1. Count(ref1, Threads, i) = 0 /\ Count(ref2, Threads, i) = 0
    BY <1>1, <2>0, CountFacts
  <2>2. Count(slot', Fds, i) = 0
    <3>1. IsFiniteSet(Fds) /\ \A fd \in Fds : slot'[fd] # i
      BY <1>0, <2>0, FdsFinite
    <3> QED BY <3>1, CountFacts
  <2>3. Refs(i)' = 0
    BY <1>0, <2>1, <2>2 DEF Refs
  <2>4. Count(slot, Fds, i) \in Nat /\ Count(slot, Fds, i) <= 1
    <3>1. IsFiniteSet(Fds) /\ \A d, e \in Fds : slot[d] = i /\ slot[e] = i => d = e
      BY <2>0, FdsFinite DEF Table
    <3> QED BY <3>1, CountFacts
  <2>5. Refs(i) = Count(slot, Fds, i)
    BY <2>1, <2>4 DEF Refs
  <2>6. ASSUME i \in named PROVE refcount[i] = 1 /\ file[i] = "open"
    <3>1. PICK fd \in Fds : slot[fd] = i
      BY <2>6
    <3>2. file[i] = "open" /\ refcount[i] = Refs(i) /\ refcount[i] \in Nat \ {0}
      BY <2>0, <3>1, NamedFile
    <3> QED BY <2>4, <2>5, <3>2
  <2>7. ASSUME i \notin named PROVE Refs(i) = 0
    <3>1. \A fd \in Fds : slot[fd] # i
      BY <2>0, <2>7
    <3>2. Count(slot, Fds, i) = 0
      BY <3>1, FdsFinite, CountFacts
    <3> QED BY <2>5, <3>2
  <2> QED BY <2>3, <2>6, <2>7
<1> HIDE DEF named
<1>3. TypeOK'
  <2>1. 0 \in 0..MaxFds /\ slot' \in [Fds -> Infos \cup {Null}]
    BY <1>0, FdAssumption
  <2>2. refcount' \in [Infos -> Nat \cup {-1}]
    BY <1>0, <1>2 DEF TypeOK
  <2>3. file' \in [Infos -> {"free", "open", "closed", "leaked"}]
    BY <1>0 DEF TypeOK
  <2> QED BY <1>0, <2>1, <2>2, <2>3 DEF TypeOK
<1>4. Exact'
  <2> SUFFICES ASSUME NEW i \in Infos, file'[i] # "leaked" PROVE refcount'[i] = Refs(i)'
    BY DEF Exact
  <2>1. CASE i \in named
    BY <1>0, <1>2, <2>1
  <2>2. CASE i \notin named
    BY <1>0, <1>2, <2>2 DEF Exact
  <2> QED BY <2>1, <2>2
<1>5. Shape'
  BY <1>0 DEF Shape, ShapeOf
<1>6. Table'
  BY <1>0 DEF Table
<1>7. Files'
  <2>1. \A i \in Infos : file'[i] # "closed"
    BY <1>0 DEF Files
  <2> QED BY <1>0, <1>1, <2>1 DEF Files
<1>8. Renumbering'
  BY <1>0 DEF Renumbering
<1> QED BY <1>3, <1>4, <1>5, <1>6, <1>7, <1>8 DEF NoGarbage

(* fd_close takes the file out of the table with the reference of the slot,
   and closes it. *)
LEMMA CloseDetachInv ==
  ASSUME FInv, NEW t \in Threads, CloseDetach(t)
  PROVE  FInv'
<1> USE DEF FInv
<1> DEFINE fd == to[t]
           i == slot[to[t]]
<1>0. /\ pc[t] = "drain" /\ LockFree /\ fd \in Fds /\ i # Null /\ refcount[i] + 1 = 2
      /\ slot' = [slot EXCEPT ![fd] = Null] /\ ref1' = [ref1 EXCEPT ![t] = i]
      /\ pc' = [pc EXCEPT ![t] = "detached"]
      /\ UNCHANGED <<lsize, refcount, file, cvwait, op, from, to, ref2, fresh>>
  BY DEF CloseDetach, Found, Goto, TypeOK
<1>1. i \in Infos /\ file[i] = "open" /\ refcount[i] \in Nat
  BY <1>0, NamedFile
<1>2. refcount[i] = 1 /\ ref1[t] = Null /\ ref2[t] = Null
  BY <1>0, <1>1 DEF Shape, ShapeOf
<1>3. TypeOK'
  BY <1>0, <1>1 DEF TypeOK, PCs
<1>4. /\ pc'[t] = "detached" /\ \A u \in Threads \ {t} : pc'[u] = pc[u]
      /\ ref1'[t] = i /\ \A u \in Threads \ {t} : ref1'[u] = ref1[u]
      /\ slot'[fd] = Null /\ \A gd \in Fds \ {fd} : slot'[gd] = slot[gd]
  BY <1>0 DEF TypeOK
<1> HIDE DEF fd
<1>5. Exact'
  <2> SUFFICES ASSUME NEW j \in Infos, file'[j] # "leaked" PROVE refcount'[j] = Refs(j)'
    BY DEF Exact
  <2>1. refcount'[j] = Refs(j)
    BY <1>0 DEF Exact
  <2>2. /\ Refs(j) \in Nat
        /\ Refs(j)' = Refs(j) + Is(slot'[fd], j) + Is(ref1'[t], j) + Is(ref2'[t], j)
                             - Is(slot[fd], j) - Is(ref1[t], j) - Is(ref2[t], j)
    BY <1>0, <1>4, RefsUpdate
  <2>3. ref2' = ref2 /\ j # Null /\ slot[fd] = i
    BY <1>0, FdAssumption DEF fd
  <2> HIDE DEF i
  <2>4. Refs(j)' = Refs(j)
    BY <1>2, <1>4, <2>2, <2>3 DEF Is
  <2> QED BY <2>1, <2>4
<1>6. Shape'
  BY <1>0, <1>2, <1>4 DEF Shape, ShapeOf
<1>7. Table'
  BY <1>0, <1>4 DEF Table
<1>8. Files'
  <2>1. \A gd \in Fds : slot'[gd] # Null => file'[slot'[gd]] = "open"
    BY <1>0, <1>4 DEF Files
  <2>2. \A u \in Threads : ref1'[u] # Null => file'[ref1'[u]] \in {"open", "closed"}
    BY <1>0, <1>1, <1>4 DEF Files
  <2>3. \A j \in Infos : file'[j] = "closed" =>
          refcount'[j] = 1 /\ \E u \in Threads : pc'[u] = "release" /\ ref1'[u] = j
    BY <1>0, <1>4 DEF Files
  <2>4. \A u \in Threads : pc'[u] = "detached" =>
          file'[ref1'[u]] = "open" /\ refcount'[ref1'[u]] = 1
    BY <1>0, <1>1, <1>2, <1>4 DEF Files
  <2> QED BY <1>0, <2>1, <2>2, <2>3, <2>4 DEF Files
<1>9. Renumbering'
  <2>1. \A u \in Threads : pc'[u] \notin {"rn_swap", "readdir"}
    BY <1>0, <1>4 DEF LockFree
  <2>2. \A u \in Threads : pc'[u] = "rn_release" =>
          /\ file'[ref1'[u]] = "open"
          /\ refcount'[ref1'[u]] = IF ref1'[u] = ref2'[u] THEN 2 ELSE 1
    BY <1>0, <1>4 DEF Renumbering
  <2> QED BY <2>1, <2>2 DEF Renumbering
<1> QED BY <1>3, <1>5, <1>6, <1>7, <1>8, <1>9 DEF NoGarbage

(* wasi_fdinfo_close of the file that fd_close or fd_renumber took out. *)
LEMMA FdinfoCloseInv ==
  ASSUME FInv, NEW t \in Threads, FdinfoClose(t)
  PROVE  FInv'
<1> USE DEF FInv
<1> DEFINE i == ref1[t]
<1>0. /\ pc[t] = "detached" /\ i # Null /\ i \in Infos
      /\ file' = [file EXCEPT ![i] = "closed"] /\ pc' = [pc EXCEPT ![t] = "release"]
      /\ UNCHANGED <<lsize, slot, refcount, cvwait, op, from, to, ref1, ref2, fresh>>
  BY DEF FdinfoClose, Goto, Shape, ShapeOf, TypeOK
<1>1. file[i] = "open" /\ refcount[i] = 1
  BY <1>0 DEF Files
<1>2. Refs(i) <= 1
  BY <1>0, <1>1 DEF Exact
<1>3. /\ \A fd \in Fds : slot[fd] # i
      /\ \A u \in Threads \ {t} : ref1[u] # i
      /\ \A u \in Threads : ref2[u] # i
  BY <1>2, LastReference
<1>4. /\ pc'[t] = "release" /\ \A u \in Threads \ {t} : pc'[u] = pc[u]
      /\ file'[i] = "closed" /\ \A j \in Infos \ {i} : file'[j] = file[j]
  BY <1>0 DEF TypeOK
<1>5. TypeOK'
  BY <1>0 DEF TypeOK, PCs
<1>6. Exact'
  <2>1. \A j : Refs(j)' = Refs(j)
    BY <1>0 DEF Refs, Count
  <2> QED BY <1>0, <1>1, <1>4, <2>1 DEF Exact
<1>7. Shape'
  BY <1>0, <1>4 DEF Shape, ShapeOf
<1>8. Table'
  BY <1>0 DEF Table
<1>9. Files'
  <2>1. \A gd \in Fds : slot'[gd] # Null => file'[slot'[gd]] = "open"
    BY <1>0, <1>3, <1>4 DEF Files, TypeOK
  <2>2. \A u \in Threads : fresh'[u] # Null =>
            file'[fresh'[u]] = "open" /\ refcount'[fresh'[u]] = 0
    BY <1>0, <1>1, <1>4 DEF Files, TypeOK
  <2>3. \A u \in Threads : /\ ref1'[u] # Null => file'[ref1'[u]] \in {"open", "closed"}
                           /\ ref2'[u] # Null => file'[ref2'[u]] \in {"open", "closed"}
    BY <1>0, <1>3, <1>4 DEF Files, TypeOK
  <2>4. ASSUME NEW j \in Infos, file'[j] = "closed"
        PROVE  refcount'[j] = 1 /\ \E u \in Threads : pc'[u] = "release" /\ ref1'[u] = j
    <3>1. CASE j = i
      BY <1>0, <1>1, <1>4, <3>1
    <3>2. CASE j # i
      <4>1. PICK u \in Threads : pc[u] = "release" /\ ref1[u] = j
        BY <1>4, <2>4, <3>2 DEF Files
      <4>2. refcount[j] = 1 /\ u # t
        BY <1>4, <2>4, <3>2, <4>1 DEF Files
      <4> QED BY <1>0, <1>4, <4>1, <4>2
    <3> QED BY <3>1, <3>2
  <2>5. \A u \in Threads : pc'[u] = "detached" =>
          file'[ref1'[u]] = "open" /\ refcount'[ref1'[u]] = 1
    BY <1>0, <1>3, <1>4 DEF Files, TypeOK, Shape, ShapeOf
  <2> QED BY <1>0, <2>1, <2>2, <2>3, <2>4, <2>5 DEF Files
<1>10. Renumbering'
  BY <1>0, <1>3, <1>4 DEF Renumbering, TypeOK, Shape, ShapeOf
<1> QED BY <1>5, <1>6, <1>7, <1>8, <1>9, <1>10 DEF NoGarbage

(* fd_renumber looks both descriptors up. *)
LEMMA RenumberLookupInv ==
  ASSUME FInv, NEW t \in Threads, RenumberLookup(t)
  PROVE  FInv'
<1> USE DEF FInv
<1> DEFINE i == slot[to[t]]
           j == slot[from[t]]
           k == IF Found(from[t]) THEN j ELSE Null
           l == IF Found(from[t]) THEN "rn_swap" ELSE "release"
<1>0. /\ pc[t] = "drain" /\ LockFree /\ to[t] \in Fds /\ from[t] \in Fds
      /\ i # Null /\ refcount[i] + 1 = 2
      /\ ref1[t] = Null /\ ref2[t] = Null
      /\ UNCHANGED <<lsize, slot, file, cvwait, op, from, to, fresh>>
  BY DEF RenumberLookup, Found, TypeOK, Shape, ShapeOf
<1>1. i \in Infos /\ file[i] = "open" /\ refcount[i] = 1
  <2>1. i \in Infos /\ file[i] = "open" /\ refcount[i] \in Nat
    BY <1>0, NamedFile
  <2> QED BY <1>0, <2>1
<1>2. k # Null => k = j /\ k \in Infos /\ file[k] = "open" /\ refcount[k] \in Nat
  BY <1>0, NamedFile DEF Found
<1>3. /\ ref1'[t] = i /\ \A u \in Threads \ {t} : ref1'[u] = ref1[u]
      /\ ref2'[t] = k /\ \A u \in Threads \ {t} : ref2'[u] = ref2[u]
      /\ pc'[t] = l /\ \A u \in Threads \ {t} : pc'[u] = pc[u]
      /\ ref1' \in [Threads -> Infos \cup {Null}] /\ ref2' \in [Threads -> Infos \cup {Null}]
      /\ pc' \in [Threads -> PCs]
  <2>1. /\ ref1' = [ref1 EXCEPT ![t] = i] /\ pc' = [pc EXCEPT ![t] = l]
        /\ IF Found(from[t]) THEN ref2' = [ref2 EXCEPT ![t] = j] ELSE ref2' = ref2
    BY DEF RenumberLookup, Goto
  <2>2. /\ ref2'[t] = k /\ \A u \in Threads \ {t} : ref2'[u] = ref2[u]
        /\ ref2' \in [Threads -> Infos \cup {Null}]
    BY <1>0, <1>2, <2>1 DEF TypeOK
  <2>3. l \in PCs
    BY DEF PCs
  <2> QED BY <1>1, <2>1, <2>2, <2>3 DEF TypeOK
<1>4. /\ refcount' \in [Infos -> Nat \cup {-1}]
      /\ refcount'[i] = IF k = i THEN 3 ELSE 2
      /\ k # i /\ k # Null => refcount'[k] = refcount[k] + 1
      /\ \A m \in Infos \ {i, k} : refcount'[m] = refcount[m]
  <2> DEFINE counts == [refcount EXCEPT ![i] = 2]
  <2>1. counts \in [Infos -> Nat \cup {-1}] /\ counts[i] = 2
        /\ \A m \in Infos \ {i} : counts[m] = refcount[m]
    BY <1>1 DEF TypeOK
  <2>2. refcount' = IF Found(from[t]) THEN [counts EXCEPT ![j] = @ + 1] ELSE counts
    BY <1>0 DEF RenumberLookup
  <2> HIDE DEF counts
  <2>3. CASE k # Null
    <3>1. Found(from[t]) /\ k = j /\ j \in Infos /\ counts[j] \in Nat
      BY <1>2, <2>1, <2>3
    <3>2. refcount' = [counts EXCEPT ![j] = counts[j] + 1]
      BY <2>2, <3>1
    <3> QED BY <1>1, <2>1, <2>3, <3>1, <3>2
  <2>4. CASE k = Null
    <3>1. refcount' = counts
      BY <1>0, <2>2, <2>4 DEF Found
    <3> QED BY <1>0, <1>1, <2>1, <2>4, <3>1
  <2> QED BY <2>3, <2>4
<1>5. TypeOK'
  BY <1>0, <1>3, <1>4 DEF TypeOK
<1>6. l \in {"rn_swap", "release"} /\ (l = "rn_swap" => k # Null /\ k = j)
  BY DEF Found
<1>7. /\ \A u \in Threads : fresh[u] # i /\ (k # Null => fresh[u] # k)
      /\ \A u \in Threads : pc[u] \in {"detached", "rn_release"} =>
            ref1[u] # i /\ (k # Null => ref1[u] # k)
  BY <1>0, <1>2, NamedFile
<1>8. i = slot'[to'[t]] /\ j = slot'[from'[t]]
  BY <1>0
<1> HIDE DEF i, j, k, l
<1>9. Exact'
  <2> SUFFICES ASSUME NEW m \in Infos, file'[m] # "leaked" PROVE refcount'[m] = Refs(m)'
    BY DEF Exact
  <2>1. refcount[m] = Refs(m)
    BY <1>0 DEF Exact
  <2>2. /\ Refs(m) \in Nat
        /\ Refs(m)' = Refs(m) + Is(slot'[0], m) + Is(ref1'[t], m) + Is(ref2'[t], m)
                             - Is(slot[0], m) - Is(ref1[t], m) - Is(ref2[t], m)
    <3>1. 0 \in Fds /\ \A gd \in Fds \ {0} : slot'[gd] = slot[gd]
      BY <1>0, FdAssumption DEF Fds
    <3> QED BY <1>3, <3>1, RefsUpdate
  <2>3. slot'[0] = slot[0] /\ ref1[t] # m /\ ref2[t] # m
    BY <1>0, FdAssumption
  <2>4. Refs(m)' = Refs(m) + Is(i, m) + Is(k, m)
    BY <1>3, <2>2, <2>3 DEF Is
  <2>5. k = m => k # Null
    BY FdAssumption
  <2>6. refcount'[m] = refcount[m] + Is(i, m) + Is(k, m)
    BY <1>1, <1>4, <2>1, <2>2, <2>5 DEF Is
  <2> QED BY <2>1, <2>4, <2>6
<1>10. Shape'
  BY <1>0, <1>3, <1>6 DEF Shape, ShapeOf
<1>11. Table'
  BY <1>0 DEF Table
<1>12. Files'
  <2>1. \A fd \in Fds : slot'[fd] # Null => file'[slot'[fd]] = "open"
    BY <1>0 DEF Files
  <2>2. \A u \in Threads : fresh'[u] # Null =>
            file'[fresh'[u]] = "open" /\ refcount'[fresh'[u]] = 0
    BY <1>0, <1>4, <1>7 DEF Files, TypeOK
  <2>3. \A u \in Threads : /\ ref1'[u] # Null => file'[ref1'[u]] \in {"open", "closed"}
                           /\ ref2'[u] # Null => file'[ref2'[u]] \in {"open", "closed"}
    BY <1>0, <1>1, <1>2, <1>3 DEF Files
  <2>4. ASSUME NEW m \in Infos, file'[m] = "closed"
        PROVE  refcount'[m] = 1 /\ \E u \in Threads : pc'[u] = "release" /\ ref1'[u] = m
    <3>1. m \notin {i, k} /\ file[m] = "closed"
      BY <1>0, <1>1, <1>2, <2>4, FdAssumption
    <3>2. PICK u \in Threads : pc[u] = "release" /\ ref1[u] = m
      BY <3>1 DEF Files
    <3>3. refcount[m] = 1 /\ u # t
      BY <1>0, <3>1, <3>2 DEF Files
    <3> QED BY <1>3, <1>4, <3>1, <3>2, <3>3
  <2>5. ASSUME NEW u \in Threads, pc'[u] = "detached"
        PROVE  file'[ref1'[u]] = "open" /\ refcount'[ref1'[u]] = 1
    <3>1. u # t /\ pc[u] = "detached" /\ ref1'[u] = ref1[u]
      BY <1>3, <1>6, <2>5
    <3>2. ref1[u] \in Infos \ {i, k}
      BY <1>7, <3>1 DEF Shape, ShapeOf, TypeOK
    <3> QED BY <1>0, <1>4, <3>1, <3>2 DEF Files
  <2> QED BY <1>0, <2>1, <2>2, <2>3, <2>4, <2>5 DEF Files
<1>13. Renumbering'
  <2>1. \A u \in Threads \ {t} : pc'[u] \notin {"rn_swap", "readdir"}
    BY <1>0, <1>3 DEF LockFree
  <2>2. pc'[t] = "rn_swap" =>
          /\ ref1'[t] = slot'[to'[t]] /\ ref2'[t] = slot'[from'[t]]
          /\ refcount'[ref1'[t]] = IF ref1'[t] = ref2'[t] THEN 3 ELSE 2
    BY <1>3, <1>4, <1>6, <1>8
  <2>3. ASSUME NEW u \in Threads, pc'[u] = "rn_release"
        PROVE  /\ file'[ref1'[u]] = "open"
               /\ refcount'[ref1'[u]] = IF ref1'[u] = ref2'[u] THEN 2 ELSE 1
    <3>1. u # t /\ pc[u] = "rn_release" /\ ref1'[u] = ref1[u] /\ ref2'[u] = ref2[u]
      BY <1>3, <1>6, <2>3
    <3>2. ref1[u] \in Infos \ {i, k}
      BY <1>7, <3>1 DEF Shape, ShapeOf, TypeOK
    <3> QED BY <1>0, <1>4, <3>1, <3>2 DEF Renumbering
  <2> QED BY <2>1, <2>2, <2>3 DEF Renumbering
<1> QED BY <1>5, <1>9, <1>10, <1>11, <1>12, <1>13 DEF NoGarbage

(* fd_renumber moves the file "from" names to the slot "to". *)
LEMMA RenumberSwapInv ==
  ASSUME FInv, NEW t \in Threads, RenumberSwap(t)
  PROVE  FInv'
<1> USE DEF FInv
<1> DEFINE a == to[t]
           b == from[t]
           i == ref1[t]
           j == ref2[t]
<1>0. /\ pc[t] = "rn_swap" /\ a \in Fds /\ b \in Fds /\ i # Null /\ j # Null
      /\ i \in Infos /\ j \in Infos
      /\ slot[a] = i /\ slot[b] = j /\ refcount[i] = IF i = j THEN 3 ELSE 2
      /\ refcount' = [refcount EXCEPT ![i] = @ - 1]
      /\ pc' = [pc EXCEPT ![t] = "rn_release"]
      /\ UNCHANGED <<lsize, file, cvwait, op, from, to, ref1, ref2, fresh>>
  BY DEF RenumberSwap, Goto, TypeOK, Shape, ShapeOf, Renumbering
<1>1. slot' = [[slot EXCEPT ![a] = j] EXCEPT ![b] = Null]
  BY DEF RenumberSwap
<1> HIDE DEF a, b, i, j
<1>2. /\ slot'[b] = Null /\ (a # b => slot'[a] = j)
      /\ \A gd \in Fds \ {a, b} : slot'[gd] = slot[gd]
      /\ slot' \in [Fds -> Infos \cup {Null}]
  BY <1>0, <1>1 DEF TypeOK
<1>3. /\ file[i] = "open"
      /\ \A u \in Threads : fresh[u] # i
      /\ \A u \in Threads : pc[u] \in {"detached", "rn_release"} => ref1[u] # i
  BY <1>0, NamedFile
<1>4. /\ pc'[t] = "rn_release" /\ \A u \in Threads \ {t} : pc'[u] = pc[u]
      /\ refcount'[i] = IF i = j THEN 2 ELSE 1
      /\ \A m \in Infos \ {i} : refcount'[m] = refcount[m]
  BY <1>0 DEF TypeOK
<1>5. TypeOK'
  <2>1. refcount' \in [Infos -> Nat \cup {-1}]
    BY <1>0 DEF TypeOK
  <2>2. pc' \in [Threads -> PCs]
    BY <1>0 DEF TypeOK, PCs
  <2> QED BY <1>0, <1>2, <2>1, <2>2 DEF TypeOK
<1>6. Exact'
  <2> SUFFICES ASSUME NEW m \in Infos, file'[m] # "leaked" PROVE refcount'[m] = Refs(m)'
    BY DEF Exact
  <2>1. refcount[m] = Refs(m) /\ m # Null /\ IsFiniteSet(Fds) /\ IsFiniteSet(Threads)
    BY <1>0, FdAssumption, FdsFinite DEF Exact
  <2>2. PICK s : s = [slot EXCEPT ![a] = j]
    OBVIOUS
  <2>3. s[a] = j /\ s[b] = j /\ \A gd \in Fds \ {a} : s[gd] = slot[gd]
    BY <1>0, <2>2 DEF TypeOK
  <2>4. SameBut(slot, s, Fds, a)
    BY <2>3 DEF SameBut
  <2>5. \A gd \in Fds \ {b} : slot'[gd] = s[gd]
    BY <1>0, <1>2, <2>3
  <2>6. SameBut(s, slot', Fds, b)
    BY <2>5 DEF SameBut
  <2>7. Count(s, Fds, m) = (Count(slot, Fds, m) + Is(s[a], m)) - Is(slot[a], m)
    BY <1>0, <2>1, <2>4, CountMoves
  <2>8. Count(slot', Fds, m) = (Count(s, Fds, m) + Is(slot'[b], m)) - Is(s[b], m)
    BY <1>0, <2>1, <2>6, CountMoves
  <2>9. Count(slot, Fds, m) \in Nat /\ Count(ref1, Threads, m) \in Nat
        /\ Count(ref2, Threads, m) \in Nat
    BY <2>1, CountFacts
  <2>10. /\ Count(s, Fds, m) = (Count(slot, Fds, m) + Is(j, m)) - Is(i, m)
         /\ Count(slot', Fds, m) = (Count(s, Fds, m) + Is(Null, m)) - Is(j, m)
    BY <1>0, <1>2, <2>3, <2>7, <2>8
  <2>11. Is(Null, m) = 0 /\ Is(i, m) \in Nat /\ Is(j, m) \in Nat
    BY <2>1 DEF Is
  <2>12. Count(slot', Fds, m) = Count(slot, Fds, m) - Is(i, m)
    BY <2>9, <2>10, <2>11
  <2>13. Refs(m)' = Count(slot', Fds, m) + Count(ref1, Threads, m) + Count(ref2, Threads, m)
    BY <1>0 DEF Refs
  <2>14. Refs(m)' = Refs(m) - Is(i, m)
    BY <2>9, <2>11, <2>12, <2>13 DEF Refs
  <2>15. refcount'[m] = refcount[m] - Is(i, m)
    BY <1>0, <1>4, <2>1, <2>9 DEF Is, Refs
  <2> QED BY <2>1, <2>14, <2>15
<1>7. Shape'
  BY <1>0, <1>4 DEF Shape, ShapeOf, i, j
<1>8. Table'
  <2>1. \A gd \in Fds : slot'[gd] # Null => gd < lsize'
    BY <1>0, <1>2 DEF Table
  <2>2. \A gd, hd \in Fds : slot'[gd] # Null /\ slot'[gd] = slot'[hd] => gd = hd
    BY <1>0, <1>2 DEF Table
  <2> QED BY <2>1, <2>2 DEF Table
<1>9. Files'
  <2>1. \A gd \in Fds : slot'[gd] # Null => file'[slot'[gd]] = "open"
    BY <1>0, <1>2 DEF Files
  <2>2. \A u \in Threads : fresh'[u] # Null =>
            file'[fresh'[u]] = "open" /\ refcount'[fresh'[u]] = 0
    BY <1>0, <1>3, <1>4 DEF Files, TypeOK
  <2>3. \A m \in Infos : file'[m] = "closed" =>
          refcount'[m] = 1 /\ \E u \in Threads : pc'[u] = "release" /\ ref1'[u] = m
    BY <1>0, <1>3, <1>4 DEF Files
  <2>4. \A u \in Threads : pc'[u] = "detached" =>
          file'[ref1'[u]] = "open" /\ refcount'[ref1'[u]] = 1
    BY <1>0, <1>3, <1>4 DEF Files, TypeOK, Shape, ShapeOf
  <2> QED BY <1>0, <2>1, <2>2, <2>3, <2>4 DEF Files
<1>10. Renumbering'
  <2>1. \A u \in Threads \ {t} : pc'[u] \notin {"rn_swap", "readdir"}
    BY <1>0, <1>4 DEF Renumbering
  <2>2. ASSUME NEW u \in Threads, pc'[u] = "rn_release"
        PROVE  /\ file'[ref1'[u]] = "open"
               /\ refcount'[ref1'[u]] = IF ref1'[u] = ref2'[u] THEN 2 ELSE 1
    <3>1. CASE u = t
      BY <1>0, <1>3, <1>4, <3>1 DEF i, j
    <3>2. CASE u # t
      <4>1. pc[u] = "rn_release" /\ ref1[u] \in Infos \ {i}
        BY <1>3, <1>4, <2>2, <3>2 DEF Shape, ShapeOf, TypeOK
      <4> QED BY <1>0, <1>4, <4>1 DEF Renumbering
    <3> QED BY <3>1, <3>2
  <2> QED BY <1>4, <2>1, <2>2 DEF Renumbering
<1> QED BY <1>5, <1>6, <1>7, <1>8, <1>9, <1>10 DEF NoGarbage

-----------------------------------------------------------------------------
(* The table is empty and nothing is open initially. *)
LEMMA InitFInv == NoGarbage /\ Init => FInv
<1> SUFFICES ASSUME NoGarbage, Init PROVE FInv
  OBVIOUS
<1> USE DEF Init
<1>0. 0 \in Fds /\ 0 \in 0..MaxFds /\ IsFiniteSet(Infos) /\ Null \notin Infos
  BY FdAssumption DEF Fds
<1>1. TypeOK
  BY <1>0 DEF TypeOK, PCs, Ops
<1>2. \A i \in Infos : Refs(i) = 0
  BY <1>0, <1>1, RefsFacts
<1>3. Exact
  BY <1>2 DEF Exact
<1>4. Shape
  BY DEF Shape, ShapeOf
<1>5. Table /\ Files /\ Renumbering
  BY DEF Table, Files, Renumbering
<1> QED BY <1>1, <1>3, <1>4, <1>5 DEF FInv

(* Every step keeps the invariant. *)
LEMMA NextFInv == FInv /\ [Next]_vars => FInv'
<1> SUFFICES ASSUME FInv, [Next]_vars PROVE FInv'
  OBVIOUS
<1>1. CASE UNCHANGED vars
  <2>1. UNCHANGED <<lsize, slot, refcount, file, cvwait, pc, op, from, to, ref1, ref2, fresh>>
    BY <1>1 DEF vars, tvars, lvars
  <2>2. \A i : Refs(i)' = Refs(i)
    BY <2>1 DEF Refs, Count
  <2>3. TypeOK' /\ Exact'
    BY <2>1, <2>2 DEF FInv, TypeOK, Exact
  <2>4. Shape' /\ Table'
    BY <2>1 DEF FInv, Shape, ShapeOf, Table
  <2>5. Files' /\ Renumbering'
    BY <2>1 DEF FInv, Files, Renumbering
  <2> QED BY <2>3, <2>4, <2>5 DEF FInv, NoGarbage
<1>2. CASE TableClear
  BY <1>2, TableClearInv
<1>3. ASSUME NEW t \in Threads, ThreadStep(t) PROVE FInv'
  <2>0. 0 \in Fds
    BY FdAssumption DEF Fds
  <2>1. CASE \E i \in Infos : Opened(t, i)
    BY <2>1, MakeInv
  <2>2. CASE EndUse(t)
    BY <2>2, EndUseInv
  <2>3. ASSUME NEW fd \in Fds, FdIo(t, fd) PROVE FInv'
    BY <2>0, <2>3, BeginInv DEF FdIo, Uses
  <2>4. ASSUME NEW fd \in Fds, CloseCall(t, fd) PROVE FInv'
    BY <2>4, CallInv
  <2>5. CASE Progress(t)
    BY <2>5, SecondLookupInv, EndUseInv, FdAddInv, DrainInv, CloseDetachInv, RenumberLookupInv,
       RenumberSwapInv, RenumberReleaseInv, FdinfoCloseInv, CallReleaseInv DEF Progress
  <2>6. CASE UserCall(t)
    <3>1. ASSUME NEW i \in Infos, PrestatAdd(t, i) PROVE FInv'
      BY <3>1, MakeInv
    <3>2. ASSUME NEW fd \in Fds,
                 FdStat(t, fd) \/ FdReaddir(t, fd) \/ PathOpen(t, fd)
          PROVE  FInv'
      BY <2>0, <3>2, BeginInv DEF FdStat, FdReaddir, PathOpen, Uses
    <3>3. ASSUME NEW fd \in Fds, FdAdvise(t, fd) \/ PathCall(t, fd) PROVE FInv'
      <4>1. PICK g \in Garbage : Begin(t, "stat", fd, 0, g)
        BY <3>3 DEF FdAdvise, PathCall
      <4>2. g = Null
        BY DEF FInv, NoGarbage
      <4> QED BY <2>0, <4>1, <4>2, BeginInv DEF Uses
    <3>4. ASSUME NEW fd \in Fds, NEW gd \in Fds,
                 PathLink(t, fd, gd) \/ PollOneoff(t, fd, gd)
          PROVE  FInv'
      BY <3>4, BeginInv DEF PathLink, PollOneoff, Uses
    <3>5. ASSUME NEW fd \in Fds, NEW gd \in Fds, RenumberCall(t, fd, gd) PROVE FInv'
      BY <3>5, CallInv
    <3>6. ASSUME NEW fd \in Fds, NEW i \in Infos,
                 AddHostfd(t, fd, i) \/ AddHostfdFails(t, fd, i)
          PROVE  FInv'
      BY <3>6, AddHostfdInv, AddHostfdFailsInv
    <3> QED BY <2>6, <3>1, <3>2, <3>3, <3>4, <3>5, <3>6 DEF UserCall
  <2> QED BY <1>3, <2>1, <2>2, <2>3, <2>4, <2>5, <2>6 DEF ThreadStep
<1> QED BY <1>1, <1>2, <1>3 DEF Next

(* FInv is an inductive invariant of the descriptor table. *)
THEOREM FInvariance == NoGarbage /\ Spec => []FInv
<1> QED BY InitFInv, NextFInv, PTL DEF Spec

(* For any number of threads, files and descriptors: the reference count that
   wasi_fdinfo_release and fd_close go by is exactly the descriptor and the
   calls that refer to the file. *)
THEOREM CountsAreExact == NoGarbage /\ Spec => []RefcountExact
<1>1. FInv => RefcountExact
  BY DEF FInv, Exact, Refs, Count, RefcountExact, Slots, Holders, Sources
<1> QED BY <1>1, FInvariance, PTL

(* Likewise: wasi_fdinfo_close runs only on a file that no descriptor names
   and no other call uses, and nobody holds a pointer to a freed struct. *)
THEOREM ClosedOnlyWhenUnused == NoGarbage /\ Spec => []OpenWhileReachable
<1>1. FInv => OpenWhileReachable
  <2> SUFFICES ASSUME FInv PROVE OpenWhileReachable
    OBVIOUS
  <2> USE DEF FInv
  <2>1. \A fd \in Fds : slot[fd] # Null => file[slot[fd]] = "open"
    BY DEF Files
  <2>2. ASSUME NEW t \in Threads, pc[t] \in {"second", "using", "readdir", "opening"},
               NEW i \in {ref1[t], ref2[t], fresh[t]} \ {Null}
        PROVE  file[i] = "open"
    <3>1. i \in Infos
      BY DEF TypeOK
    <3>2. CASE i = fresh[t]
      BY <3>2 DEF Files
    <3>3. CASE i \in {ref1[t], ref2[t]} /\ file[i] = "closed"
      <4>1. PICK u \in Threads : pc[u] = "release" /\ ref1[u] = i
        BY <3>1, <3>3 DEF Files
      <4>2. refcount[i] = 1 /\ refcount[i] = Refs(i) /\ u # t
        BY <2>2, <3>1, <3>3, <4>1 DEF Files, Exact
      <4>3. Refs(i) >= 2
        BY <3>3, <4>1, <4>2, TwoCalls
      <4> QED BY <4>2, <4>3
    <3> QED BY <3>2, <3>3 DEF Files
  <2>3. \A t \in Threads : \A i \in {ref1[t], ref2[t]} \ {Null} : file[i] # "free"
    BY DEF Files
  <2>4. ASSUME NEW t \in Threads, pc[t] = "detached"
        PROVE  /\ file[ref1[t]] = "open" /\ refcount[ref1[t]] = 1
               /\ \A u \in Threads \ {t} : ref1[t] \notin {ref1[u], ref2[u], fresh[u]}
    <3>1. file[ref1[t]] = "open" /\ refcount[ref1[t]] = 1 /\ ref1[t] # Null
      BY <2>4 DEF Files, Shape, ShapeOf
    <3>2. ref1[t] \in Infos
      BY <3>1 DEF TypeOK
    <3>3. Refs(ref1[t]) <= 1
      BY <3>1, <3>2 DEF Exact
    <3>4. \A u \in Threads \ {t} : ref1[u] # ref1[t] /\ ref2[u] # ref1[t]
      BY <3>3, LastReference
    <3>5. \A u \in Threads : fresh[u] # ref1[t]
      BY <3>1 DEF Files
    <3> QED BY <3>1, <3>4, <3>5
  <2> QED BY <2>1, <2>2, <2>3, <2>4 DEF OpenWhileReachable
<1> QED BY <1>1, FInvariance, PTL

(* Likewise: over any sequence of fd_renumber and of new files, two
   descriptors never name the same file. *)
THEOREM DescriptorsAreDistinct == NoGarbage /\ Spec => []OneDescriptorPerFile
<1>1. FInv => OneDescriptorPerFile
  <2> SUFFICES ASSUME FInv, NEW i \in Infos PROVE Cardinality(Slots(i)) <= 1
    BY DEF OneDescriptorPerFile
  <2>1. IsFiniteSet(Fds) /\ \A d, e \in Fds : slot[d] = i /\ slot[e] = i => d = e
    BY FdsFinite, FdAssumption DEF FInv, Table
  <2>2. Count(slot, Fds, i) <= 1
    BY <2>1, CountFacts
  <2> QED BY <2>2 DEF Count, Slots
<1> QED BY <1>1, FInvariance, PTL
=============================================================================
