--------------------------- MODULE DyldOrderProofs ---------------------------
(***************************************************************************)
(* Proof of the order in which the dynamic linker calls init functions:    *)
(* each once, relocations before constructors, and the constructors of     *)
(* what an object needs before its own, for every graph of needs, with     *)
(* cycles, and any number of loads inside of loads.                        *)
(*                                                                         *)
(* The invariant is OrdInv.  What has been called is what the loads in     *)
(* progress have done of their sorted lists (CalledOk); in a sorted list,  *)
(* what an object needs is before it or needs the object (NeedsFirst).     *)
(* While tsort_visit goes on, the calls of it that have not returned are a *)
(* path, and what is visited is on it or in the list (SortOrd).  A call    *)
(* returns when everything its object needs is visited, so what is not in  *)
(* the list yet is on the path, and whoever is on a path needs who is      *)
(* above (PathNeeds, ReturnNeeds).  That the search by name finds the      *)
(* object that was loaded for the name is in TopOrd and LoadsOrd.          *)
(***************************************************************************)
EXTENDS DyldProofs

-----------------------------------------------------------------------------
(* The order of the init functions.  A frame has sorted the objects of its *)
(* list and visits those of its path.                                      *)

Early == Before \ {"sort"}
OnPath(c) == {n.obj : n \in Range(c.path)}
Items(c) == Range(c.list) \cup OnPath(c)

Kinds == {"reloc", "ctor"}
Ran(rn, k, i) == <<k, i>> \in Range(rn)
Wants(f, k) == IF k = "reloc" THEN f.reloc # "none" ELSE f.ctor
\* The function of the p-th object of the list has not been called yet.
Todo(c, k, p) ==
    \/ c.ph = "sort"
    \/ c.ph = "reloc" /\ (k = "reloc" => p >= c.at)
    \/ c.ph = "ctor" /\ k = "ctor" /\ (p > c.at \/ (p = c.at /\ ~c.run))

\* What the object that ends at place p of the list needs is before it, or
\* needs the object.
NeedsFirst(dd, s, p) ==
    \A j \in Needed(dd, s[p]) \ (dd.left \cup {s[p]}) :
      dd.objs[j].load = dd.objs[s[p]].load =>
        (\E q \in DOMAIN s : q < p /\ s[q] = j) \/ s[p] \in Needs(dd, j)

ItemsOk(dd, c) ==
    /\ \A p, q \in DOMAIN c.list : c.list[p] = c.list[q] => p = q
    /\ \A t, u \in DOMAIN c.path : c.path[t].obj = c.path[u].obj => t = u
    /\ Range(c.list) \cap OnPath(c) = {}
    /\ \A i \in Items(c) : dd.objs[i].visited
    /\ c.ph \in Early => DOMAIN c.list = {}
    /\ c.ph # "sort" => DOMAIN c.path = {}
CalledOk(dd, rn, c) ==
    \A k \in Kinds :
      /\ \A i \in OnPath(c) : ~Ran(rn, k, i)
      /\ \A p \in DOMAIN c.list :
           /\ Todo(c, k, p) => ~Ran(rn, k, c.list[p])
           /\ ~Todo(c, k, p) /\ Wants(dd.objs[c.list[p]].file, k) => Ran(rn, k, c.list[p])
FrameOrd(dd, rn, c) ==
    /\ ItemsOk(dd, c) /\ CalledOk(dd, rn, c)
    /\ c.ph # "open" => dd.objs[c.start].load = c.start
    /\ \A p \in DOMAIN c.list : NeedsFirst(dd, c.list, p)

\* tsort_visit: the calls that have not returned, and what they have visited
SortOrd(dd, c) ==
    /\ c.at >= c.start /\ (DOMAIN c.path # {} => c.at > c.start)
    /\ \A x \in DOMAIN dd.objs :
         x >= c.start => IF dd.objs[x].visited THEN x \in Items(c) ELSE x >= c.at
    /\ \A i \in OnPath(c) : i \in dd.left \/ i >= c.start
    /\ \A t \in DOMAIN c.path : t + 1 \in DOMAIN c.path =>
         c.path[t + 1].obj \in Needed(dd, c.path[t].obj) \cup dd.left
    /\ \A t \in DOMAIN c.path : \A k \in DOMAIN dd.objs[c.path[t].obj].file.needs :
         k < c.path[t].k =>
           \A j \in DOMAIN dd.objs :
             j > c.start /\ dd.objs[j].key = dd.objs[c.path[t].obj].file.needs[k]
               => dd.objs[j].visited

\* The objects of the innermost load are the last ones, and no other one was
\* found by the name that each but the first was loaded for.
TopOrd(dd, c) ==
    /\ \A x \in DOMAIN dd.objs :
         ~dd.objs[x].visited => x \in dd.left \/ (c.ph \in Before /\ x >= c.start)
    /\ c.ph \in Early => \A x \in DOMAIN dd.objs : x >= c.start => ~dd.objs[x].visited
    /\ c.ph \in Before \cup {"reloc"} =>
         \A x \in DOMAIN dd.objs : x >= c.start => dd.objs[x].load = c.start
    /\ c.ph \in Before => \A x \in DOMAIN dd.objs : x >= c.start => x \notin dd.left
    /\ c.ph \in Before =>
         \A x \in DOMAIN dd.objs : x > c.start =>
           \A y \in 2..(x - 1) : NameOf(dd, dd.objs[y]) # dd.objs[x].key
    /\ c.ph = "sort" => SortOrd(dd, c)

\* Each object but the first of a load was loaded because one before it needs
\* it, and what a failed load leaves are all its objects.
LoadsOrd(dd) ==
    /\ \A x \in DOMAIN dd.objs :
         LET o == dd.objs[x] IN
         /\ o.load \in Nat \ {0} /\ o.load <= x
         /\ \A y \in DOMAIN dd.objs : x <= y => o.load <= dd.objs[y].load
         /\ o.load # x =>
              /\ o.name = Fixed(o.key)
              /\ \E y \in DOMAIN dd.objs : /\ y < x /\ dd.objs[y].load = o.load
                                           /\ Contains(dd.objs[y].file.needs, o.key)
    /\ \A x \in dd.left : \A y \in DOMAIN dd.objs :
         dd.objs[y].load = dd.objs[x].load => y \in dd.left

RanOk(dd, rn) ==
    \A p \in DOMAIN rn :
      LET i == rn[p][2] IN
      /\ i \in DOMAIN dd.objs /\ dd.objs[i].visited
      /\ rn[p][1] = "ctor" =>
           /\ dd.objs[i].file.reloc # "none" => \E q \in 1..p : rn[q] = <<"reloc", i>>
           /\ \A j \in Needed(dd, i) \ (dd.left \cup {i}) :
                dd.objs[j].load = dd.objs[i].load /\ dd.objs[j].file.ctor =>
                  (\E q \in 1..p : rn[q] = <<"ctor", j>>) \/ i \in Needs(dd, j)

\* The loads in progress share no object.
InOrder(dd, rn, cs) ==
    /\ LoadsOrd(dd) /\ TopOrd(dd, Last(cs))
    /\ \A x \in DOMAIN cs : FrameOrd(dd, rn, cs[x])
    /\ \A x, y \in DOMAIN cs : x # y => Items(cs[x]) \cap Items(cs[y]) = {}
Once(rn) == IsSeq(rn) /\ \A p, q \in DOMAIN rn : rn[p] = rn[q] => p = q

OrdInv ==
    /\ Once(ran) /\ (d.status = "new" => DOMAIN ran = {})
    /\ d.objs # <<>> => RanOk(d, ran)
    /\ d.fault = "none" /\ calls # <<>> => InOrder(d, ran, calls)

\* What the order is about stays: the objects that were there are, and those
\* that are new are of another load than the visited ones.
SameOrd(o, p) ==
    /\ p.file = o.file /\ p.key = o.key /\ p.load = o.load /\ p.name = o.name
    /\ o.visited => p.visited
Kin(dd, e) ==
    /\ IsSeq(dd.objs) /\ IsSeq(e.objs) /\ Len(dd.objs) <= Len(e.objs)
    /\ \A x \in DOMAIN dd.objs : SameOrd(dd.objs[x], e.objs[x])
    /\ dd.left \subseteq DOMAIN dd.objs /\ e.left \subseteq DOMAIN e.objs /\ dd.left \subseteq e.left
    /\ \A x \in DOMAIN e.objs : x \notin DOMAIN dd.objs =>
         \A y \in DOMAIN dd.objs : dd.objs[y].visited => e.objs[x].load # dd.objs[y].load

(* What is needed is reached, and what is reached needs what it reaches. *)
LEMMA NeedsIs ==
  ASSUME NEW dd, NEW i, IsSeq(dd.objs), dd.left \subseteq DOMAIN dd.objs
  PROVE  /\ Needed(dd, i) \subseteq Needs(dd, i) /\ dd.left \subseteq Needs(dd, i)
         /\ Needs(dd, i) \subseteq DOMAIN dd.objs /\ Needed(dd, i) \subseteq DOMAIN dd.objs
         /\ \A x \in Needs(dd, i) : Needed(dd, x) \subseteq Needs(dd, i)
<1>1. DOMAIN dd.objs = 1..Len(dd.objs) /\ Len(dd.objs) \in Nat
  BY SeqLen
<1>2. \A x : Needed(dd, x) \subseteq DOMAIN dd.objs
  BY <1>1 DEF Needed
<1>3. Needs(dd, i) \subseteq DOMAIN dd.objs
  BY DEF Needs
<1>4. ASSUME NEW j, j \in Needed(dd, i) \/ j \in dd.left
      PROVE  j \in Needs(dd, i)
  BY <1>2, <1>4 DEF Needs
<1>5. ASSUME NEW x \in Needs(dd, i), NEW j \in Needed(dd, x)
      PROVE  j \in Needs(dd, i)
  <2> SUFFICES ASSUME NEW S \in SUBSET DOMAIN dd.objs, Needed(dd, i) \cup dd.left \subseteq S,
                      Closed(dd, S)
               PROVE  j \in S
    BY <1>2, <1>5 DEF Needs
  <2>1. x \in S
    BY <1>5 DEF Needs
  <2> QED BY <1>5, <2>1 DEF Closed
<1> QED BY <1>2, <1>3, <1>4, <1>5

(* What an object needs of those that were there does not change. *)
LEMMA NeededStays ==
  ASSUME NEW dd, NEW e, Kin(dd, e), NEW x \in DOMAIN dd.objs, NEW j \in DOMAIN dd.objs
  PROVE  j \in Needed(dd, x) <=> j \in Needed(e, x)
<1>1. /\ DOMAIN dd.objs = 1..Len(dd.objs) /\ Len(dd.objs) \in Nat
      /\ DOMAIN e.objs = 1..Len(e.objs) /\ Len(e.objs) \in Nat /\ Len(dd.objs) <= Len(e.objs)
  BY SeqLen DEF Kin
<1>2. e.objs[x].file = dd.objs[x].file /\ e.objs[j].key = dd.objs[j].key
  BY DEF Kin, SameOrd
<1>3. j \in 2..Len(dd.objs) <=> j \in 2..Len(e.objs)
  BY <1>1
<1> QED BY <1>2, <1>3 DEF Needed

(* ... and it needs by way of others what it did. *)
LEMMA NeedsStay ==
  ASSUME NEW dd, NEW e, Kin(dd, e), NEW x \in DOMAIN dd.objs, NEW j \in Needs(dd, x)
  PROVE  j \in Needs(e, x)
<1>1. /\ DOMAIN dd.objs = 1..Len(dd.objs) /\ Len(dd.objs) \in Nat
      /\ DOMAIN e.objs = 1..Len(e.objs) /\ Len(e.objs) \in Nat /\ Len(dd.objs) <= Len(e.objs)
  BY SeqLen DEF Kin
<1>2. j \in DOMAIN dd.objs /\ j \in DOMAIN e.objs
  BY <1>1 DEF Needs
<1> SUFFICES ASSUME NEW S \in SUBSET DOMAIN e.objs, Needed(e, x) \cup e.left \subseteq S,
                    Closed(e, S)
             PROVE  j \in S
  BY <1>2 DEF Needs
<1>3. PICK T : T = S \cap DOMAIN dd.objs
  OBVIOUS
<1>4. \A y : Needed(dd, y) \subseteq DOMAIN dd.objs
  BY <1>1 DEF Needed
<1>5. dd.left \subseteq T
  BY <1>3 DEF Kin
<1>6. Needed(dd, x) \subseteq T
  BY <1>3, <1>4, NeededStays
<1>7. Closed(dd, T)
  <2> SUFFICES ASSUME NEW y \in T PROVE Needed(dd, y) \subseteq T
    BY <1>5 DEF Closed
  <2>1. y \in DOMAIN dd.objs /\ Needed(e, y) \subseteq S
    BY <1>3 DEF Closed
  <2> QED BY <1>3, <1>4, <2>1, NeededStays
<1>8. T \in SUBSET DOMAIN dd.objs /\ Needed(dd, x) \cup dd.left \subseteq T
  BY <1>3, <1>5, <1>6
<1>9. j \in T
  BY <1>7, <1>8 DEF Needs
<1> QED BY <1>3, <1>9

(* What was visited has its needs before it, whatever is loaded after it, and
   however many loads fail. *)
LEMMA NeedsFirstStays ==
  ASSUME NEW dd, NEW e, Kin(dd, e), NEW s, NEW p, s[p] \in DOMAIN dd.objs,
         dd.objs[s[p]].visited, NeedsFirst(dd, s, p)
  PROVE  NeedsFirst(e, s, p)
<1>1. PICK i : i = s[p]
  OBVIOUS
<1>2. SUFFICES ASSUME NEW j \in Needed(e, i), j \notin e.left, j # i,
                      e.objs[j].load = e.objs[i].load
               PROVE  (\E q \in DOMAIN s : q < p /\ s[q] = j) \/ i \in Needs(e, j)
  BY <1>1 DEF NeedsFirst
<1>3. j \in DOMAIN e.objs
  BY <1>2, NeedsIs DEF Kin
<1>4. i \in DOMAIN dd.objs /\ dd.objs[i].visited /\ e.objs[i].load = dd.objs[i].load
  BY <1>1 DEF Kin, SameOrd
<1>5. j \in DOMAIN dd.objs
  BY <1>2, <1>3, <1>4 DEF Kin
<1>6. j \in Needed(dd, i) /\ j \notin dd.left /\ dd.objs[j].load = dd.objs[i].load
  BY <1>2, <1>4, <1>5, NeededStays DEF Kin, SameOrd
<1>7. (\E q \in DOMAIN s : q < p /\ s[q] = j) \/ i \in Needs(dd, j)
  BY <1>1, <1>2, <1>6 DEF NeedsFirst
<1> QED BY <1>5, <1>7, NeedsStay

(* The same for the init functions that have been called. *)
LEMMA RanStays ==
  ASSUME NEW dd, NEW e, Kin(dd, e), NEW rn, RanOk(dd, rn)
  PROVE  RanOk(e, rn)
<1> SUFFICES ASSUME NEW p \in DOMAIN rn, NEW i, i = rn[p][2]
             PROVE  /\ i \in DOMAIN e.objs /\ e.objs[i].visited
                    /\ rn[p][1] = "ctor" =>
                         /\ e.objs[i].file.reloc # "none" => \E q \in 1..p : rn[q] = <<"reloc", i>>
                         /\ \A j \in Needed(e, i) \ (e.left \cup {i}) :
                              e.objs[j].load = e.objs[i].load /\ e.objs[j].file.ctor =>
                                (\E q \in 1..p : rn[q] = <<"ctor", j>>) \/ i \in Needs(e, j)
  BY DEF RanOk
<1>1. i \in DOMAIN dd.objs /\ dd.objs[i].visited
  BY DEF RanOk
<1>2. i \in DOMAIN e.objs /\ SameOrd(dd.objs[i], e.objs[i])
  <2>1. /\ DOMAIN dd.objs = 1..Len(dd.objs) /\ Len(dd.objs) \in Nat
        /\ DOMAIN e.objs = 1..Len(e.objs) /\ Len(e.objs) \in Nat /\ Len(dd.objs) <= Len(e.objs)
    BY SeqLen DEF Kin
  <2> QED BY <1>1, <2>1 DEF Kin
<1>3. ASSUME rn[p][1] = "ctor", NEW j \in Needed(e, i), j \notin e.left, j # i,
             e.objs[j].load = e.objs[i].load, e.objs[j].file.ctor
      PROVE  (\E q \in 1..p : rn[q] = <<"ctor", j>>) \/ i \in Needs(e, j)
  <2>1. j \in DOMAIN e.objs
    BY <1>3, NeedsIs DEF Kin
  <2>2. e.objs[i].load = dd.objs[i].load
    BY <1>2 DEF SameOrd
  <2>3. j \in DOMAIN dd.objs
    BY <1>1, <1>3, <2>1, <2>2 DEF Kin
  <2>4. SameOrd(dd.objs[j], e.objs[j]) /\ j \notin dd.left
    BY <1>3, <2>3 DEF Kin
  <2>5. j \in Needed(dd, i) /\ dd.objs[j].load = dd.objs[i].load /\ dd.objs[j].file.ctor
    BY <1>1, <1>3, <2>2, <2>3, <2>4, NeededStays DEF SameOrd
  <2>6. (\E q \in 1..p : rn[q] = <<"ctor", j>>) \/ i \in Needs(dd, j)
    BY <1>3, <2>4, <2>5 DEF RanOk
  <2> QED BY <2>3, <2>6, NeedsStay
<1>4. rn[p][1] = "ctor" /\ e.objs[i].file.reloc # "none" => \E q \in 1..p : rn[q] = <<"reloc", i>>
  <2>1. e.objs[i].file = dd.objs[i].file
    BY <1>2 DEF SameOrd
  <2> QED BY <2>1 DEF RanOk
<1> QED BY <1>1, <1>2, <1>3, <1>4 DEF SameOrd

\* The items of a frame are objects, and so is its first one.
ItemsIn(dd, c) ==
    /\ Range(c.list) \subseteq DOMAIN dd.objs /\ OnPath(c) \subseteq DOMAIN dd.objs
    /\ c.ph # "open" => c.start \in DOMAIN dd.objs

(* A frame that is not touched stays in order, if only init functions of
   other objects are called. *)
LEMMA FrameStays ==
  ASSUME NEW dd, NEW e, Kin(dd, e), NEW c, ItemsIn(dd, c), NEW rn, FrameOrd(dd, rn, c),
         NEW rm, \A k \in Kinds : \A i \in Items(c) : Ran(rm, k, i) <=> Ran(rn, k, i)
  PROVE  FrameOrd(e, rm, c)
<1>1. \A p \in DOMAIN c.list : c.list[p] \in Items(c) /\ c.list[p] \in DOMAIN dd.objs
  BY DEF Items, ItemsIn, Range
<1>2. \A i \in Items(c) : i \in DOMAIN dd.objs /\ SameOrd(dd.objs[i], e.objs[i])
  BY DEF Items, ItemsIn, Kin
<1>3. ItemsOk(e, c)
  BY <1>2 DEF FrameOrd, ItemsOk, SameOrd
<1>4. CalledOk(e, rm, c)
  <2> SUFFICES ASSUME NEW k \in Kinds
               PROVE  /\ \A i \in OnPath(c) : ~Ran(rm, k, i)
                      /\ \A p \in DOMAIN c.list :
                           /\ Todo(c, k, p) => ~Ran(rm, k, c.list[p])
                           /\ ~Todo(c, k, p) /\ Wants(e.objs[c.list[p]].file, k)
                                => Ran(rm, k, c.list[p])
    BY DEF CalledOk
  <2>1. \A i \in OnPath(c) : i \in Items(c)
    BY DEF Items
  <2>2. \A p \in DOMAIN c.list : e.objs[c.list[p]].file = dd.objs[c.list[p]].file
    BY <1>1, <1>2 DEF SameOrd
  <2> QED BY <1>1, <2>1, <2>2 DEF FrameOrd, CalledOk
<1>5. \A p \in DOMAIN c.list : NeedsFirst(e, c.list, p)
  <2> SUFFICES ASSUME NEW p \in DOMAIN c.list PROVE NeedsFirst(e, c.list, p)
    OBVIOUS
  <2>1. PICK s : s = c.list
    OBVIOUS
  <2>2. s[p] \in DOMAIN dd.objs /\ dd.objs[s[p]].visited /\ NeedsFirst(dd, s, p)
    BY <1>1, <2>1 DEF FrameOrd, ItemsOk
  <2>3. Kin(dd, e)
    OBVIOUS
  <2>4. NeedsFirst(e, s, p)
    BY ONLY <2>2, <2>3, NeedsFirstStays
  <2> QED BY <2>1, <2>4
<1>6. c.ph # "open" => e.objs[c.start].load = c.start
  BY DEF ItemsIn, FrameOrd, Kin, SameOrd
<1> QED BY <1>3, <1>4, <1>5, <1>6 DEF FrameOrd

(* A frame goes on with the same list and the same path. *)
LEMMA FrameTurned ==
  ASSUME NEW dd, NEW rn, NEW c, FrameOrd(dd, rn, c), NEW g,
         g.list = c.list, g.path = c.path, g.start = c.start,
         g.ph # "open" => c.ph # "open" \/ dd.objs[c.start].load = c.start,
         g.ph \in Early => c.ph \in Early, g.ph # "sort" => c.ph # "sort" \/ DOMAIN c.path = {},
         \A k \in Kinds : \A p \in DOMAIN c.list : Todo(g, k, p) <=> Todo(c, k, p)
  PROVE  FrameOrd(dd, rn, g) /\ Items(g) = Items(c)
<1>1. OnPath(g) = OnPath(c) /\ Items(g) = Items(c)
  BY DEF OnPath, Items
<1>2. ItemsOk(dd, g)
  BY <1>1 DEF FrameOrd, ItemsOk
<1>3. CalledOk(dd, rn, g)
  BY <1>1 DEF FrameOrd, CalledOk
<1> QED BY <1>1, <1>2, <1>3 DEF FrameOrd

(* The items of a frame are objects. *)
LEMMA ItemsAre ==
  ASSUME NEW w, NEW dd, IsSeq(dd.objs), NEW c, FrameOk(w, dd, c)
  PROVE  ItemsIn(dd, c)
<1>1. DOMAIN dd.objs = 1..Len(dd.objs) /\ Len(dd.objs) \in Nat
  BY SeqLen
<1>2. c.ph # "open" => c.start \in DOMAIN dd.objs
  BY <1>1 DEF FrameOk, AtOk
<1>3. OnPath(c) \subseteq DOMAIN dd.objs
  BY DEF FrameOk, NodeOk, OnPath
<1> QED BY <1>2, <1>3 DEF FrameOk, ItemsIn

\* A load that is going on is in order.
Orderly == /\ Loads /\ Once(ran) /\ RanOk(d, ran) /\ InOrder(d, ran, calls)
\* Only init functions of the objects S are called.
CallsOnly(rm, S) ==
    Once(rm) /\ \A k \in Kinds : \A i : i \notin S => (Ran(rm, k, i) <=> Ran(ran, k, i))

(* What can be said of the order when a step begins. *)
LEMMA OrderlyIs ==
  ASSUME Loads, OrdInv
  PROVE  Orderly
<1>1. d.objs # <<>> /\ d.fault = "none" /\ calls # <<>>
  BY LoadsIs DEF Loads, CallsOk
<1> QED BY <1>1 DEF OrdInv, Orderly

(* ... and of the loads in progress. *)
LEMMA OrdersAre ==
  ASSUME Orderly
  PROVE  /\ Loads /\ Once(ran) /\ RanOk(d, ran) /\ LoadsOrd(d) /\ TopOrd(d, Top)
         /\ FrameOrd(d, ran, Top) /\ ItemsIn(d, Top) /\ ItemsOk(d, Top) /\ CalledOk(d, ran, Top)
         /\ \A x \in DOMAIN calls : FrameOrd(d, ran, calls[x]) /\ ItemsIn(d, calls[x])
         /\ \A x \in DOMAIN calls : x # Len(calls) => Items(calls[x]) \cap Items(Top) = {}
         /\ \A x, y \in DOMAIN calls : x # y => Items(calls[x]) \cap Items(calls[y]) = {}
<1>1. Loads /\ Once(ran) /\ RanOk(d, ran) /\ InOrder(d, ran, calls)
  BY DEF Orderly
<1>2. Top = calls[Len(calls)] /\ Len(calls) \in DOMAIN calls /\ IsSeq(d.objs)
  BY <1>1, LoadsIs
<1>3. \A x \in DOMAIN calls : ItemsIn(d, calls[x])
  BY <1>1, <1>2, LoadsIs, ItemsAre
<1>4. LoadsOrd(d) /\ TopOrd(d, Top) /\ FrameOrd(d, ran, Top)
  BY <1>1, <1>2 DEF InOrder, Top
<1>5. ItemsOk(d, Top) /\ CalledOk(d, ran, Top)
  BY <1>4 DEF FrameOrd
<1> QED BY <1>1, <1>2, <1>3, <1>4, <1>5 DEF InOrder

(* A step of the innermost load: the others stay as they are. *)
LEMMA StepOrd ==
  ASSUME Orderly, NEW e, NEW g, Kin(d, e), e.status = d.status, d' = e, SetTop(g),
         NEW rm, ran' = rm, CallsOnly(rm, Items(Top)), RanOk(e, rm), LoadsOrd(e), TopOrd(e, g),
         FrameOrd(e, rm, g),
         \A i \in Items(g) : i \in Items(Top) \/ i \notin DOMAIN d.objs \/ ~d.objs[i].visited
  PROVE  OrdInv'
<1>0. Loads
  BY OrdersAre
<1>1. PICK s : s = Put(calls, Len(calls), g)
  OBVIOUS
<1>2. calls' = s
  BY <1>1 DEF SetTop, Put
<1>3. /\ IsSeq(s) /\ Len(s) = Len(calls) /\ DOMAIN s = DOMAIN calls /\ s[Len(calls)] = g
      /\ \A x \in DOMAIN calls : x # Len(calls) => s[x] = calls[x]
  BY <1>0, <1>1, LoadsIs, SeqExcept
<1>4. e.status # "new"
  BY <1>0, LoadsIs
<1>5. \A x \in DOMAIN calls : x # Len(calls) => FrameOrd(e, rm, s[x])
  <2> TAKE x \in DOMAIN calls
  <2> HAVE x # Len(calls)
  <2>1. PICK c : c = calls[x]
    OBVIOUS
  <2>2. FrameOrd(d, ran, c) /\ ItemsIn(d, c) /\ Items(c) \cap Items(Top) = {}
    BY <2>1, OrdersAre
  <2>3. \A k \in Kinds : \A i \in Items(c) : Ran(rm, k, i) <=> Ran(ran, k, i)
    BY <2>2 DEF CallsOnly
  <2>4. PICK rn : rn = ran
    OBVIOUS
  <2>5. FrameOrd(e, rm, c)
    BY <2>2, <2>3, <2>4, FrameStays
  <2> QED BY <1>3, <2>1, <2>5
<1>6. \A x \in DOMAIN calls : x # Len(calls) => Items(s[x]) \cap Items(g) = {}
  <2> TAKE x \in DOMAIN calls
  <2> HAVE x # Len(calls)
  <2>1. FrameOrd(d, ran, calls[x]) /\ ItemsIn(d, calls[x]) /\ Items(calls[x]) \cap Items(Top) = {}
    BY OrdersAre
  <2>2. \A i \in Items(calls[x]) : i \in DOMAIN d.objs /\ d.objs[i].visited
    BY <2>1 DEF FrameOrd, ItemsOk, ItemsIn, Items
  <2> QED BY <1>3, <2>1, <2>2
<1>7. \A x, y \in DOMAIN calls : x # y => Items(s[x]) \cap Items(s[y]) = {}
  <2> TAKE x, y \in DOMAIN calls
  <2> HAVE x # y
  <2>1. CASE x = Len(calls) \/ y = Len(calls)
    BY <1>3, <1>6, <2>1
  <2>2. CASE x # Len(calls) /\ y # Len(calls)
    BY <1>3, <2>2, OrdersAre
  <2> QED BY <2>1, <2>2
<1>8. \A x \in DOMAIN calls : FrameOrd(e, rm, s[x])
  <2> TAKE x \in DOMAIN calls
  <2> QED BY <1>3, <1>5
<1>9. Last(s) = g
  BY <1>3 DEF Last
<1>10. InOrder(e, rm, s)
  BY <1>3, <1>7, <1>8, <1>9 DEF InOrder
<1> QED BY <1>2, <1>4, <1>10 DEF OrdInv, CallsOnly

(* The innermost load is gone: what it has not visited was left, or there is
   none. *)
LEMMA PopOrd ==
  ASSUME Orderly, NEW e, Kin(d, e), e.status = d.status, d' = e, calls' = Front(calls),
         NEW rm, ran' = rm, CallsOnly(rm, Items(Top)), RanOk(e, rm), LoadsOrd(e),
         \A x \in DOMAIN e.objs : ~e.objs[x].visited => x \in e.left
  PROVE  OrdInv'
<1>0. Loads
  BY OrdersAre
<1>1. PICK s : s = Front(calls)
  OBVIOUS
<1>2. /\ IsSeq(s) /\ Len(s) = Len(calls) - 1 /\ DOMAIN s = 1..(Len(calls) - 1)
      /\ \A x \in 1..(Len(calls) - 1) : s[x] = calls[x] /\ x \in DOMAIN calls
  <2>1. IsSeq(calls) /\ calls # <<>>
    BY <1>0, LoadsIs DEF Loads
  <2> QED BY <1>1, <2>1, SeqFront
<1>3. Len(calls) \in Nat \ {0} /\ e.status # "new"
  BY <1>0, LoadsIs
<1>4. \A x \in DOMAIN s : s[x] = calls[x] /\ x \in DOMAIN calls /\ x # Len(calls) /\ s[x].run
  <2> TAKE x \in DOMAIN s
  <2>1. x \in 1..(Len(calls) - 1)
    BY <1>2
  <2>2. x < Len(calls) /\ x # Len(calls)
    BY <1>3, <2>1
  <2> QED BY <1>0, <1>2, <2>1, <2>2, LoadsIs
<1>5. \A x \in DOMAIN s : FrameOrd(e, rm, s[x])
  <2> TAKE x \in DOMAIN s
  <2>1. PICK c : c = calls[x]
    OBVIOUS
  <2>2. FrameOrd(d, ran, c) /\ ItemsIn(d, c) /\ Items(c) \cap Items(Top) = {}
    BY <1>4, <2>1, OrdersAre
  <2>3. \A k \in Kinds : \A i \in Items(c) : Ran(rm, k, i) <=> Ran(ran, k, i)
    BY <2>2 DEF CallsOnly
  <2>4. PICK rn : rn = ran
    OBVIOUS
  <2>5. FrameOrd(e, rm, c)
    BY <2>2, <2>3, <2>4, FrameStays
  <2> QED BY <1>4, <2>1, <2>5
<1>6. \A x, y \in DOMAIN s : x # y => Items(s[x]) \cap Items(s[y]) = {}
  BY <1>4, OrdersAre
<1>7. s # <<>> => InOrder(e, rm, s)
  <2> HAVE s # <<>>
  <2>1. Len(s) \in DOMAIN s
    BY <1>2, SeqLen
  <2>2. PICK c : c = s[Len(s)]
    OBVIOUS
  <2>3. c.run /\ FrameOk(world, d, c)
    BY <1>0, <1>4, <2>1, <2>2, LoadsIs
  <2>4. c.ph \in {"ctor", "main"}
    BY <2>3 DEF FrameOk, AtOk
  <2>5. TopOrd(e, c)
    BY <2>4 DEF TopOrd, Before, Early
  <2>6. Last(s) = c
    BY <2>2 DEF Last
  <2> QED BY <1>5, <1>6, <2>5, <2>6 DEF InOrder
<1> QED BY <1>1, <1>3, <1>7 DEF OrdInv, CallsOnly

(* A load begins in the code that another one runs. *)
LEMMA PushOrd ==
  ASSUME Orderly, Top.run, NEW e, NEW g, Kin(d, e), e.status = d.status, d' = e,
         calls' = Plus(calls, g), ran' = ran, LoadsOrd(e), TopOrd(e, g), FrameOrd(e, ran, g),
         Items(g) = {}
  PROVE  OrdInv'
<1>0. Loads
  BY OrdersAre
<1>1. PICK s : s = Plus(calls, g)
  OBVIOUS
<1>2. IsSeq(calls) /\ calls' = s
  BY <1>0, <1>1, LoadsIs
<1>3. /\ IsSeq(s) /\ \A x \in DOMAIN calls : x \in DOMAIN s /\ s[x] = calls[x]
      /\ s[Len(s)] = g /\ Len(s) \in DOMAIN s
      /\ \A x \in DOMAIN s : x \in DOMAIN calls \/ x = Len(s)
  BY <1>1, <1>2, PlusIs
<1>4. e.status # "new"
  BY <1>0, LoadsIs
<1>5. \A x \in DOMAIN s : FrameOrd(e, ran, s[x])
  <2> TAKE x \in DOMAIN s
  <2>1. CASE x = Len(s)
    BY <1>3, <2>1
  <2>2. CASE x \in DOMAIN calls
    <3>1. PICK c : c = calls[x]
      OBVIOUS
    <3>2. PICK rn : rn = ran
      OBVIOUS
    <3>3. FrameOrd(d, rn, c) /\ ItemsIn(d, c)
      BY <2>2, <3>1, <3>2, OrdersAre
    <3>4. FrameOrd(e, rn, c)
      BY <3>3, FrameStays
    <3> QED BY <1>3, <2>2, <3>1, <3>2, <3>4
  <2> QED BY <1>3, <2>1, <2>2
<1>6. \A x, y \in DOMAIN s : x # y => Items(s[x]) \cap Items(s[y]) = {}
  <2> TAKE x, y \in DOMAIN s
  <2> HAVE x # y
  <2>1. CASE x = Len(s) \/ y = Len(s)
    BY <1>3, <2>1
  <2>2. CASE x # Len(s) /\ y # Len(s)
    <3>1. x \in DOMAIN calls /\ y \in DOMAIN calls /\ s[x] = calls[x] /\ s[y] = calls[y]
      BY <1>3, <2>2
    <3> QED BY <3>1, OrdersAre
  <2> QED BY <2>1, <2>2
<1>7. Last(s) = g
  BY <1>3 DEF Last
<1>8. InOrder(e, ran, s)
  BY <1>5, <1>6, <1>7 DEF InOrder
<1>9. RanOk(e, ran) /\ Once(ran)
  <2>1. PICK rn : rn = ran
    OBVIOUS
  <2>2. RanOk(d, rn) /\ Once(rn)
    BY <2>1, OrdersAre
  <2> QED BY <2>1, <2>2, RanStays
<1> QED BY <1>2, <1>4, <1>8, <1>9 DEF OrdInv

\* Nothing that the order is about has changed.
Same(dd, e) ==
    /\ IsSeq(e.objs) /\ Len(e.objs) = Len(dd.objs) /\ DOMAIN e.objs = DOMAIN dd.objs
    /\ \A x \in DOMAIN dd.objs : /\ SameOrd(dd.objs[x], e.objs[x])
                                 /\ e.objs[x].visited => dd.objs[x].visited
    /\ e.left = dd.left /\ e.slots = dd.slots /\ e.data = dd.data /\ e.gen = dd.gen
    /\ e.status = dd.status

(* The order stays. *)
LEMMA SameIs ==
  ASSUME NEW dd, NEW e, Same(dd, e), IsSeq(dd.objs), dd.left \subseteq DOMAIN dd.objs
  PROVE  /\ Kin(dd, e) /\ (LoadsOrd(dd) => LoadsOrd(e))
         /\ \A rn : RanOk(dd, rn) => RanOk(e, rn)
<1>1. DOMAIN dd.objs = 1..Len(dd.objs) /\ Len(dd.objs) \in Nat /\ Len(dd.objs) <= Len(e.objs)
  BY SeqLen DEF Same
<1>2. Kin(dd, e)
  BY <1>1 DEF Same, Kin
<1>3. LoadsOrd(dd) => LoadsOrd(e)
  BY DEF LoadsOrd, Same, SameOrd
<1> QED BY <1>2, <1>3, RanStays

(* ... and so do the names. *)
LEMMA SameNames ==
  ASSUME NEW dd, NEW e, Same(dd, e), NEW x \in DOMAIN dd.objs
  PROVE  NameOf(e, e.objs[x]) = NameOf(dd, dd.objs[x])
<1>1. /\ e.objs[x].name = dd.objs[x].name /\ e.slots = dd.slots /\ e.data = dd.data
      /\ e.gen = dd.gen
  BY DEF Same, SameOrd
<1> QED BY <1>1 DEF NameOf

(* The innermost load goes on, before or after the sort. *)
LEMMA TopTurned ==
  ASSUME NEW dd, NEW e, Same(dd, e), IsSeq(dd.objs), NEW c, TopOrd(dd, c), NEW g,
         g.start = c.start, g.ph # "sort", g.ph \in Early => c.ph \in Early,
         g.ph \in Before <=> c.ph \in Before,
         g.ph = "reloc" => c.ph \in Before \cup {"reloc"}
  PROVE  TopOrd(e, g)
<1>1. DOMAIN dd.objs = 1..Len(dd.objs) /\ Len(dd.objs) \in Nat /\ DOMAIN e.objs = DOMAIN dd.objs
  BY SeqLen DEF Same
<1>2. \A x \in DOMAIN dd.objs :
         /\ e.objs[x].visited <=> dd.objs[x].visited
         /\ e.objs[x].load = dd.objs[x].load /\ e.objs[x].key = dd.objs[x].key
         /\ NameOf(e, e.objs[x]) = NameOf(dd, dd.objs[x])
  BY SameNames DEF Same, SameOrd
<1>3. \A x \in DOMAIN dd.objs :
         ~e.objs[x].visited => x \in e.left \/ (g.ph \in Before /\ x >= g.start)
  BY <1>2 DEF TopOrd, Same
<1>4. g.ph \in Early => \A x \in DOMAIN dd.objs : x >= g.start => ~e.objs[x].visited
  BY <1>2 DEF TopOrd
<1>5. g.ph \in Before \cup {"reloc"} =>
        \A x \in DOMAIN dd.objs : x >= g.start => e.objs[x].load = g.start
  BY <1>2 DEF TopOrd
<1>6. g.ph \in Before => \A x \in DOMAIN dd.objs : x > g.start =>
           \A y \in 2..(x - 1) : NameOf(e, e.objs[y]) # e.objs[x].key
  <2> SUFFICES ASSUME g.ph \in Before, NEW x \in DOMAIN dd.objs, x > g.start, NEW y \in 2..(x - 1)
               PROVE  NameOf(e, e.objs[y]) # e.objs[x].key
    OBVIOUS
  <2>1. y \in DOMAIN dd.objs
    BY <1>1
  <2>2. NameOf(dd, dd.objs[y]) # dd.objs[x].key
    BY DEF TopOrd
  <2> QED BY <1>2, <2>1, <2>2
<1>7. g.ph \in Before => \A x \in DOMAIN dd.objs : x >= g.start => x \notin e.left
  BY DEF TopOrd, Same
<1> QED BY <1>1, <1>3, <1>4, <1>5, <1>6, <1>7 DEF TopOrd

(* The linker stops. *)
LEMMA FaultOrd ==
  ASSUME NEW e, DOMAIN e = DyldFields, IsSeq(e.objs), e.left \subseteq DOMAIN e.objs,
         e.status # "new", NEW why, why # "none", d' = [e EXCEPT !.fault = why],
         NEW rm, ran' = rm, Once(rm), RanOk(e, rm)
  PROVE  OrdInv'
<1>1. PICK g : g = [e EXCEPT !.fault = why]
  OBVIOUS
<1>2. /\ g.objs = e.objs /\ g.left = e.left /\ g.slots = e.slots /\ g.data = e.data
      /\ g.gen = e.gen /\ g.status = e.status /\ g.fault = why
  BY <1>1 DEF DyldFields
<1>3. Same(e, g)
  BY <1>2 DEF Same, SameOrd
<1>4. RanOk(g, rm)
  BY <1>3, SameIs
<1> QED BY <1>1, <1>2, <1>4 DEF OrdInv

(* The linker is cleared, and with it the objects. *)
LEMMA ClearOrd ==
  ASSUME NEW e, DOMAIN e = DyldFields, IsSeq(e.objs), e.left \subseteq DOMAIN e.objs,
         e.status # "new", NEW status, status \in {"failed", "done"}, DyldClear(e, status),
         NEW rm, ran' = rm, Once(rm), RanOk(e, rm)
  PROVE  OrdInv'
<1>1. PICK m : m = [EmptyDyld EXCEPT !.status = status]
  OBVIOUS
<1>2. calls' = <<>> /\ (d' = [e EXCEPT !.fault = "stale"] \/ d' = m)
  BY <1>1 DEF DyldClear
<1>3. CASE d' = [e EXCEPT !.fault = "stale"]
  BY <1>3, FaultOrd
<1>4. CASE d' = m
  <2>1. m.objs = <<>> /\ m.status # "new"
    BY <1>1 DEF EmptyDyld
  <2> QED BY <1>2, <1>4, <2>1 DEF OrdInv
<1> QED BY <1>2, <1>3, <1>4

(* What was the same when the step began. *)
LEMMA SameStep ==
  ASSUME Orderly, NEW e, Same(d, e)
  PROVE  /\ Kin(d, e) /\ LoadsOrd(e) /\ (\A rn : RanOk(d, rn) => RanOk(e, rn))
         /\ IsSeq(d.objs) /\ e.status = "loading" /\ IsSeq(e.objs)
         /\ e.left \subseteq DOMAIN e.objs
<1>1. IsSeq(d.objs) /\ SlotsOk(d) /\ d.status = "loading" /\ LoadsOrd(d)
  BY OrdersAre, LoadsIs
<1>2. d.left \subseteq DOMAIN d.objs
  BY <1>1 DEF SlotsOk
<1> QED BY <1>1, <1>2, SameIs DEF Same

(* A load fails: what it has loaded is left. *)
LEMMA AbandonOrd ==
  ASSUME Orderly, NEW e, Same(d, e), DOMAIN e = DyldFields, Abandon(e),
         NEW rm, ran' = rm, CallsOnly(rm, Items(Top)), RanOk(d, rm)
  PROVE  OrdInv'
<1>0. /\ Kin(d, e) /\ LoadsOrd(e) /\ RanOk(e, rm) /\ e.status = "loading" /\ IsSeq(e.objs)
      /\ e.left \subseteq DOMAIN e.objs /\ Loads /\ IsSeq(d.objs)
  BY SameStep, OrdersAre
<1>1. CASE Top.slot = 0
  <2>1. DyldClear(e, "failed")
    BY <1>1 DEF Abandon
  <2> QED BY <1>0, <2>1, ClearOrd DEF CallsOnly
<1>2. CASE Top.slot # 0
  <2>1. PICK g : g = [e EXCEPT !.data[Top.data].live = FALSE,
                               !.left = @ \cup (Top.start..Len(e.objs))]
    OBVIOUS
  <2>2. d' = g /\ calls' = Front(calls)
    BY <1>2, <2>1 DEF Abandon
  <2>3. /\ g.objs = e.objs /\ g.left = e.left \cup (Top.start..Len(e.objs))
        /\ g.status = e.status
    BY <2>1 DEF DyldFields
  <2>4. /\ DOMAIN e.objs = 1..Len(e.objs) /\ Len(e.objs) \in Nat
        /\ Top.start \in Nat \ {0} /\ (Top.ph # "open" => Top.start \in DOMAIN e.objs)
        /\ Top.start <= Len(e.objs) + 1 /\ (Top.ph = "open" => Top.start = Len(e.objs) + 1)
    <3>1. FrameOk(world, d, Top)
      BY <1>0, LoadsIs
    <3>2. DOMAIN e.objs = 1..Len(e.objs) /\ Len(e.objs) \in Nat /\ Len(e.objs) = Len(d.objs)
      BY <1>0, SeqLen DEF Same
    <3> QED BY <3>1, <3>2 DEF FrameOk, AtOk
  <2>5. g.left \subseteq DOMAIN g.objs
    BY <1>0, <2>3, <2>4
  <2>6. Kin(e, g)
    BY <1>0, <2>3, <2>4, <2>5 DEF Kin, SameOrd
  <2>7. Kin(d, g)
    BY <1>0, <2>3, <2>4, <2>5 DEF Kin
  <2>8. RanOk(g, rm)
    BY <1>0, <2>6, RanStays
  <2>9. Top.ph # "open" => e.objs[Top.start].load = Top.start
    <3>1. Top.ph # "open" => d.objs[Top.start].load = Top.start
      BY OrdersAre DEF FrameOrd
    <3> QED BY <2>4, <3>1 DEF Same, SameOrd
  <2>10. LoadsOrd(g)
    <3>1. \A x \in g.left : \A y \in DOMAIN g.objs :
            g.objs[y].load = g.objs[x].load => y \in g.left
      <4> SUFFICES ASSUME NEW x \in g.left, NEW y \in DOMAIN e.objs,
                          e.objs[y].load = e.objs[x].load
                   PROVE  y \in g.left
        BY <2>3
      <4>1. CASE x \in e.left
        BY <1>0, <2>3, <4>1 DEF LoadsOrd
      <4>2. CASE x \in Top.start..Len(e.objs)
        <5>1. x \in DOMAIN e.objs /\ Top.start <= x /\ Top.start \in DOMAIN e.objs /\ Top.ph # "open"
          BY <2>4, <4>2
        <5>2. Top.start <= e.objs[x].load
          BY <1>0, <2>9, <5>1 DEF LoadsOrd
        <5>3. e.objs[y].load <= y /\ e.objs[y].load \in Nat /\ y \in Nat /\ y <= Len(e.objs)
          BY <1>0, <2>4 DEF LoadsOrd
        <5>4. Top.start <= y
          BY <2>4, <5>2, <5>3
        <5> QED BY <2>3, <2>4, <5>3, <5>4
      <4> QED BY <2>3, <4>1, <4>2
    <3> QED BY <1>0, <2>3, <3>1 DEF LoadsOrd
  <2>11. \A x \in DOMAIN g.objs : ~g.objs[x].visited => x \in g.left
    <3> SUFFICES ASSUME NEW x \in DOMAIN e.objs, ~e.objs[x].visited PROVE x \in g.left
      BY <2>3
    <3>1. x \in DOMAIN d.objs /\ ~d.objs[x].visited
      BY DEF Same, SameOrd
    <3>2. x \in d.left \/ x >= Top.start
      BY <3>1, OrdersAre DEF TopOrd
    <3> QED BY <2>3, <2>4, <3>2 DEF Same
  <2> QED BY <2>2, <2>3, <2>7, <2>8, <2>10, <2>11, PopOrd DEF Same
<1> QED BY <1>1, <1>2

(* A turn of a load, which may fail: no init function is called, and nothing
   that the order is about is changed. *)
LEMMA TurnOrd ==
  ASSUME Orderly, NEW e, Same(d, e), NEW g, d' = e, SetTop(g), ran' = ran,
         TopOrd(e, g), FrameOrd(d, ran, g), ItemsIn(d, g),
         Items(g) = Items(Top)
  PROVE  OrdInv'
<1>1. Kin(d, e) /\ LoadsOrd(e)
  BY SameStep
<1>2. PICK rm : rm = ran
  OBVIOUS
<1>3. RanOk(e, rm) /\ CallsOnly(rm, Items(Top))
  BY <1>2, SameStep, OrdersAre DEF CallsOnly
<1>4. FrameOrd(e, rm, g)
  <2>1. FrameOrd(d, rm, g)
    BY <1>2
  <2> QED BY <1>1, <2>1, FrameStays
<1> QED BY <1>1, <1>2, <1>3, <1>4, StepOrd DEF Same

(* The result of a step that calls nothing *)
LEMMA OutcomeOrd ==
  ASSUME Orderly, NEW r, NEW g, DOMAIN r.d = DyldFields, Outcome(r, g), ran' = ran,
         r.err # "ok" => Same(d, r.d), r.err = "ok" /\ d' = r.d /\ SetTop(g) => OrdInv'
  PROVE  OrdInv'
<1>1. PICK rm : rm = ran
  OBVIOUS
<1>2. CASE r.err = "ok"
  BY <1>2 DEF Outcome
<1>3. CASE r.err # "ok"
  <2>1. PICK e : e = r.d
    OBVIOUS
  <2>2. Same(d, e) /\ DOMAIN e = DyldFields
    BY <1>3, <2>1
  <2>3. RanOk(d, rm) /\ CallsOnly(rm, Items(Top)) /\ Once(rm)
    BY <1>1, OrdersAre DEF CallsOnly
  <2>4. CASE r.err \in {"assert", "stale"}
    <3>1. d' = [e EXCEPT !.fault = r.err]
      BY <1>3, <2>1, <2>4 DEF Outcome, Die
    <3>2. RanOk(e, rm) /\ e.status # "new" /\ IsSeq(e.objs) /\ e.left \subseteq DOMAIN e.objs
      BY <2>2, <2>3, SameStep
    <3> QED BY <1>1, <2>2, <2>3, <2>4, <3>1, <3>2, FaultOrd
  <2>5. CASE r.err \notin {"assert", "stale"}
    <3>1. Abandon(e)
      BY <1>3, <2>1, <2>5 DEF Outcome
    <3> QED BY <1>1, <2>2, <2>3, <3>1, AbandonOrd
  <2> QED BY <2>4, <2>5
<1> QED BY <1>2, <1>3

(* A turn of the innermost load before it sorts its objects *)
LEMMA QuietOrd ==
  ASSUME Orderly, NEW e, Same(d, e), NEW g, Moved(Top, g, Turning), d' = e, SetTop(g), ran' = ran,
         Top.ph \in Early, g.ph \in Early, g.ph # "open" => Top.ph # "open"
  PROVE  OrdInv'
<1>1. PICK c : c = Top
  OBVIOUS
<1>2. /\ TopOrd(d, c) /\ FrameOrd(d, ran, c) /\ ItemsIn(d, c) /\ ItemsOk(d, c) /\ IsSeq(d.objs)
      /\ Loads
  BY <1>1, OrdersAre, SameStep
<1>3. g.start = c.start /\ g.list = c.list /\ g.path = c.path
  BY <1>1 DEF Moved, Turning, FrameFields
<1>4. DOMAIN c.list = {}
  BY <1>1, <1>2 DEF ItemsOk
<1>5. FrameOrd(d, ran, g) /\ Items(g) = Items(c)
  <2>1. PICK rn : rn = ran
    OBVIOUS
  <2>2. /\ FrameOrd(d, rn, c) /\ (g.ph # "open" => c.ph # "open") /\ c.ph \in Early /\ g.ph \in Early
        /\ c.ph # "sort"
    BY <1>1, <1>2, <2>1 DEF Early
  <2>3. FrameOrd(d, rn, g) /\ Items(g) = Items(c)
    BY <1>3, <1>4, <2>2, FrameTurned
  <2> QED BY <2>1, <2>3
<1>6. TopOrd(e, g)
  <2>1. /\ g.ph # "sort" /\ g.ph \in Before /\ c.ph \in Before /\ c.ph \in Early
    BY <1>1 DEF Early
  <2> QED BY <1>2, <1>3, <2>1, TopTurned
<1>7. ItemsIn(d, g)
  <2>1. Range(g.list) = Range(c.list) /\ OnPath(g) = OnPath(c)
    BY <1>3 DEF OnPath
  <2>2. g.ph # "open" => g.start \in DOMAIN d.objs
    BY <1>1, <1>2, <1>3 DEF ItemsIn
  <2> QED BY <1>2, <2>1, <2>2 DEF ItemsIn
<1> QED BY <1>1, <1>5, <1>6, <1>7, TurnOrd

(* Areas and the table are not what the order is about, *)
LEMMA PlacesSame ==
  ASSUME NEW dd, NEW e, Only(dd, e, PlaceFields), IsSeq(dd.objs)
  PROVE  Same(dd, e) /\ DOMAIN e = DyldFields
<1>1. /\ e.objs = dd.objs /\ e.left = dd.left /\ e.slots = dd.slots /\ e.data = dd.data
      /\ e.gen = dd.gen /\ e.status = dd.status /\ DOMAIN e = DyldFields
  BY DEF Only, PlaceFields, DyldFields
<1> QED BY <1>1 DEF Same, SameOrd

(* ... nor are bindings. *)
LEMMA PutSame ==
  ASSUME NEW dd, NEW e, Only(dd, e, {"table", "objs"}), IsSeq(dd.objs), NEW x \in DOMAIN dd.objs,
         NEW p, e.objs = Put(dd.objs, x, p), SameOrd(dd.objs[x], p), p.visited => dd.objs[x].visited
  PROVE  Same(dd, e) /\ DOMAIN e = DyldFields
<1>1. /\ e.left = dd.left /\ e.slots = dd.slots /\ e.data = dd.data
      /\ e.gen = dd.gen /\ e.status = dd.status /\ DOMAIN e = DyldFields
  BY DEF Only, DyldFields
<1>2. PICK s : s = e.objs
  OBVIOUS
<1>3. PICK t : t = dd.objs
  OBVIOUS
<1>4. IsSeq(t) /\ s = Put(t, x, p) /\ x \in DOMAIN t
  BY <1>2, <1>3
<1>5. /\ IsSeq(s) /\ Len(s) = Len(t) /\ DOMAIN s = DOMAIN t /\ s[x] = p
      /\ \A j \in DOMAIN t : j # x => s[j] = t[j]
  BY ONLY <1>4, SeqExcept
<1>6. ASSUME NEW y \in DOMAIN t
      PROVE  SameOrd(t[y], s[y]) /\ (s[y].visited => t[y].visited)
  <2>1. CASE y = x
    BY <1>3, <1>5, <2>1
  <2>2. CASE y # x
    BY <1>5, <2>2 DEF SameOrd
  <2> QED BY <2>1, <2>2
<1> QED BY <1>1, <1>2, <1>3, <1>5, <1>6 DEF Same

(* The GOT of an object *)
LEMMA GotSame ==
  ASSUME NEW w, NEW dd, DInv(w, dd), NEW x \in DOMAIN dd.objs, NEW i \in DOMAIN dd.objs[x].got,
         NEW r, GotResolved(w, dd, x, i, r)
  PROVE  Same(dd, r.d) /\ DOMAIN r.d = DyldFields
<1>1. PICK e : e = r.d
  OBVIOUS
<1>2. IsSeq(dd.objs) /\ DOMAIN dd.objs[x] = ObjFields
  BY DEF DInv, Shape, ObjOk
<1>3. CASE r.err # "ok"
  <2>1. Only(dd, e, PlaceFields)
    BY <1>1, <1>3 DEF GotResolved, Only, PlaceFields
  <2> QED BY <1>1, <1>2, <2>1, PlacesSame
<1>4. CASE r.err = "ok"
  <2>1. Only(dd, e, {"table", "objs"})
    BY <1>1, <1>4 DEF GotResolved
  <2>2. PICK v \in Nat : e.objs = Put(dd.objs, x, GotSet(dd.objs[x], i, v, Len(dd.objs)))
    BY <1>1, <1>4 DEF GotResolved
  <2>3. PICK n : n = Len(dd.objs)
    OBVIOUS
  <2>4. PICK p : p = GotSet(dd.objs[x], i, v, n)
    OBVIOUS
  <2>5. SameOrd(dd.objs[x], p) /\ p.visited = dd.objs[x].visited
    BY <1>2, <2>4 DEF GotSet, SameOrd, ObjFields
  <2>6. e.objs = Put(dd.objs, x, p)
    BY <2>2, <2>3, <2>4
  <2> QED BY <1>1, <1>2, <2>1, <2>5, <2>6, PutSame
<1> QED BY <1>3, <1>4

(* ... and the PLT *)
LEMMA PltSame ==
  ASSUME NEW w, NEW dd, DInv(w, dd), NEW x \in DOMAIN dd.objs, NEW i \in DOMAIN dd.objs[x].plt,
         NEW r, r = ResolvePlt(dd, x, i)
  PROVE  Same(dd, r.d) /\ DOMAIN r.d = DyldFields
<1>1. PICK e : e = r.d
  OBVIOUS
<1>2. IsSeq(dd.objs) /\ DOMAIN dd.objs[x] = ObjFields
  BY DEF DInv, Shape, ObjOk
<1>0. PltResolved(w, dd, x, i, r)
  BY ResolvePltIs
<1>3. CASE r.err # "ok"
  <2>1. Only(dd, e, PlaceFields)
    BY <1>0, <1>1, <1>3 DEF PltResolved, Only, PlaceFields
  <2> QED BY <1>1, <1>2, <2>1, PlacesSame
<1>4. CASE r.err = "ok"
  <2>1. Only(dd, e, {"table", "objs"})
    BY <1>0, <1>1, <1>4 DEF PltResolved
  <2>2. PICK fn : e.objs = Put(dd.objs, x, PltSet(dd.objs[x], i, fn))
    BY <1>0, <1>1, <1>4 DEF PltResolved
  <2>3. PICK p : p = PltSet(dd.objs[x], i, fn)
    OBVIOUS
  <2>4. SameOrd(dd.objs[x], p) /\ p.visited = dd.objs[x].visited
    BY <1>2, <2>3 DEF PltSet, SameOrd, ObjFields
  <2>5. e.objs = Put(dd.objs, x, p)
    BY <2>2, <2>3
  <2> QED BY <1>1, <1>2, <2>1, <2>4, <2>5, PutSame
<1> QED BY <1>3, <1>4

(* ... with a result *)
LEMMA QuietOutcome ==
  ASSUME Orderly, NEW r, Same(d, r.d), DOMAIN r.d = DyldFields, NEW g, Moved(Top, g, Turning),
         Outcome(r, g), ran' = ran, Top.ph \in Early, g.ph \in Early, g.ph # "open" => Top.ph # "open"
  PROVE  OrdInv'
<1>1. PICK e : e = r.d
  OBVIOUS
<1>2. r.err = "ok" /\ d' = e /\ SetTop(g) => OrdInv'
  BY <1>1, QuietOrd
<1> QED BY <1>1, <1>2, OutcomeOrd

(* An assertion fails, or what is gone is read. *)
LEMMA DieOrd ==
  ASSUME Orderly, NEW why, why # "none", Die(d, why), ran' = ran
  PROVE  OrdInv'
<1>1. PICK rm : rm = ran
  OBVIOUS
<1>2. /\ Once(rm) /\ RanOk(d, rm) /\ DOMAIN d = DyldFields /\ IsSeq(d.objs) /\ SlotsOk(d)
      /\ d.status = "loading"
  BY <1>1, OrdersAre, LoadsIs
<1>3. PICK e : e = d
  OBVIOUS
<1>4. d' = [e EXCEPT !.fault = why] /\ e.left \subseteq DOMAIN e.objs
  BY <1>2, <1>3 DEF Die, SlotsOk
<1> QED BY <1>1, <1>2, <1>3, <1>4, FaultOrd

(* Nothing has changed. *)
LEMMA SameSelf ==
  ASSUME Orderly
  PROVE  Same(d, d) /\ DOMAIN d = DyldFields
<1>1. IsSeq(d.objs) /\ DOMAIN d = DyldFields
  BY OrdersAre, LoadsIs
<1> QED BY <1>1 DEF Same, SameOrd

(* A load in a phase, in order *)
LEMMA InOrderly ==
  ASSUME Inv, OrdInv, NEW ph, In(ph)
  PROVE  Orderly /\ Top.ph = ph /\ ~Top.run /\ DOMAIN Top = FrameFields /\ Loads
<1>1. Loads /\ Top.ph = ph /\ ~Top.run
  BY InLoads
<1>2. FrameOk(world, d, Top)
  BY <1>1, LoadsIs
<1> QED BY <1>1, <1>2, OrderlyIs DEF FrameOk

(* The GOTs *)
LEMMA ResolveAllGotOrd ==
  ASSUME Inv, OrdInv, ResolveAllGot
  PROVE  OrdInv'
<1>1. Orderly /\ Top.ph = "got" /\ DOMAIN Top = FrameFields /\ Loads /\ ran' = ran
  BY InOrderly DEF ResolveAllGot
<1>2. PICK fr : fr = Top
  OBVIOUS
<1>3. /\ FrameOk(world, d, fr) /\ DInv(world, d) /\ Len(d.objs) \in Nat \ {0}
      /\ DOMAIN d.objs = 1..Len(d.objs) /\ GotsAt(d, fr)
  BY <1>1, <1>2, LoadsIs
<1>4. DOMAIN fr = FrameFields /\ fr.at \in Nat \ {0} /\ fr.ph = "got" /\ fr.k \in Nat \ {0}
  BY <1>1, <1>2, <1>3 DEF FrameOk, AtOk
<1>5. PICK f : f = d.objs[fr.at].file
  OBVIOUS
<1>6. PICK ph : ph = (CASE fr.slot # 0 -> "init"
                        [] fr.slot = 0 /\ world.bindnow -> "plt"
                        [] OTHER -> "layout")
  OBVIOUS
<1>7. ph \in {"init", "plt", "layout"}
  BY <1>6
<1>8. \/ d' = d /\ SetTop(Goto(fr, ph))
      \/ d' = d /\ SetTop(NextObject(fr))
      \/ d' = d /\ SetTop(NextItem(fr))
      \/ /\ ~(fr.at > Len(d.objs)) /\ fr.k \in Gots(f)
         /\ Outcome(ResolveGotSymbol(d, fr.at, fr.k), NextItem(fr))
  BY <1>2, <1>5, <1>6 DEF ResolveAllGot
<1>9. /\ \A g \in {Goto(fr, ph), NextObject(fr), NextItem(fr)} :
           Moved(Top, g, Turning) /\ g.ph \in Early /\ g.ph # "open"
  BY <1>2, <1>4, <1>7, TurnsAre DEF Early, Before
<1>10. Top.ph \in Early /\ Top.ph # "open"
  BY <1>1 DEF Early, Before
<1>11. ASSUME NEW g \in {Goto(fr, ph), NextObject(fr), NextItem(fr)}, d' = d, SetTop(g)
       PROVE  OrdInv'
  BY <1>1, <1>9, <1>10, <1>11, SameSelf, QuietOrd
<1>12. CASE /\ ~(fr.at > Len(d.objs)) /\ fr.k \in Gots(f)
            /\ Outcome(ResolveGotSymbol(d, fr.at, fr.k), NextItem(fr))
  <2>1. fr.at \in DOMAIN d.objs
    BY <1>3, <1>4, <1>12
  <2>2. PICK x : x = fr.at
    OBVIOUS
  <2>3. PICK i : i = fr.k
    OBVIOUS
  <2>4. ObjOk(world, d.objs[x]) /\ x \in DOMAIN d.objs
    BY <1>3, <2>1, <2>2 DEF DInv, Shape
  <2>5. /\ \A j \in DOMAIN d.objs[x].got : j \in Nat
        /\ i \in DOMAIN d.objs[x].got
    BY <1>5, <1>12, <2>2, <2>3, <2>4, GotsAre
  <2>6. \A j \in DOMAIN d.objs[x].got :
           d.objs[x].got[j] # Unset => d.objs[x].seen = Len(d.objs)
    <3>1. \A j \in DOMAIN d.objs[x].got : j >= fr.k \/ j < fr.k
      BY <1>4, <2>5
    <3> QED BY <1>3, <1>4, <2>2, <2>4, <3>1 DEF GotsAt
  <2>7. PICK r : r = ResolveGotSymbol(d, x, i)
    OBVIOUS
  <2>8. GotResolved(world, d, x, i, r)
    BY <1>3, <2>4, <2>5, <2>6, <2>7, ResolveGotIs
  <2>9. Same(d, r.d) /\ DOMAIN r.d = DyldFields
    BY <1>3, <2>4, <2>5, <2>8, GotSame
  <2>10. PICK g : g = NextItem(fr)
    OBVIOUS
  <2>11. Outcome(r, g) /\ Moved(Top, g, Turning) /\ g.ph \in Early
    BY <1>9, <1>12, <2>2, <2>3, <2>7, <2>10
  <2> QED BY <1>1, <1>10, <2>9, <2>11, QuietOutcome
<1> QED BY <1>8, <1>11, <1>12

(* The PLTs *)
LEMMA ResolveAllPltOrd ==
  ASSUME Inv, OrdInv, ResolveAllPlt
  PROVE  OrdInv'
<1>1. Orderly /\ Top.ph = "plt" /\ DOMAIN Top = FrameFields /\ Loads /\ ran' = ran
  BY InOrderly DEF ResolveAllPlt
<1>2. PICK fr : fr = Top
  OBVIOUS
<1>3. /\ FrameOk(world, d, fr) /\ DInv(world, d) /\ Len(d.objs) \in Nat \ {0}
      /\ DOMAIN d.objs = 1..Len(d.objs)
  BY <1>1, <1>2, LoadsIs
<1>4. DOMAIN fr = FrameFields /\ fr.at \in Nat \ {0} /\ fr.ph = "plt"
  BY <1>1, <1>2, <1>3 DEF FrameOk, AtOk
<1>5. PICK f : f = d.objs[fr.at].file
  OBVIOUS
<1>6. PICK ph : ph = "layout"
  OBVIOUS
<1>7. \/ d' = d /\ SetTop(Goto(fr, ph))
      \/ d' = d /\ SetTop(NextObject(fr))
      \/ d' = d /\ SetTop(NextItem(fr))
      \/ /\ ~(fr.at > Len(d.objs)) /\ fr.k \in Plts(f)
         /\ Outcome(ResolvePltSymbol(d, fr.at, fr.k), NextItem(fr))
  BY <1>2, <1>5, <1>6 DEF ResolveAllPlt
<1>8. /\ \A g \in {Goto(fr, ph), NextObject(fr), NextItem(fr)} :
           Moved(Top, g, Turning) /\ g.ph \in Early /\ g.ph # "open"
  BY <1>2, <1>4, <1>6, TurnsAre DEF Early, Before
<1>9. Top.ph \in Early /\ Top.ph # "open"
  BY <1>1 DEF Early, Before
<1>10. ASSUME NEW g \in {Goto(fr, ph), NextObject(fr), NextItem(fr)}, d' = d, SetTop(g)
       PROVE  OrdInv'
  BY <1>1, <1>8, <1>9, <1>10, SameSelf, QuietOrd
<1>11. CASE /\ ~(fr.at > Len(d.objs)) /\ fr.k \in Plts(f)
            /\ Outcome(ResolvePltSymbol(d, fr.at, fr.k), NextItem(fr))
  <2>1. PICK x : x = fr.at
    OBVIOUS
  <2>2. PICK i : i = fr.k
    OBVIOUS
  <2>3. x \in DOMAIN d.objs /\ i \in DOMAIN d.objs[x].plt
    BY <1>3, <1>4, <1>5, <1>11, <2>1, <2>2 DEF DInv, Shape, ObjOk
  <2>4. PICK s : s = ResolvePlt(d, x, i)
    OBVIOUS
  <2>5. PICK r : r = ResolvePltSymbol(d, x, i)
    OBVIOUS
  <2>6. Same(d, s.d) /\ DOMAIN s.d = DyldFields
    BY <1>3, <2>3, <2>4, PltSame
  <2>7. r = s \/ r = Result(s.d, 0, "ok")
    BY <2>4, <2>5 DEF ResolvePltSymbol
  <2>8. r.d = s.d
    BY <2>7 DEF Result
  <2>9. PICK g : g = NextItem(fr)
    OBVIOUS
  <2>10. Outcome(r, g) /\ Moved(Top, g, Turning) /\ g.ph \in Early
    BY <1>8, <1>11, <2>1, <2>2, <2>5, <2>9
  <2> QED BY <1>1, <1>9, <2>6, <2>8, <2>10, QuietOutcome
<1> QED BY <1>7, <1>10, <1>11

(* Stack and heap *)
LEMMA LayoutOrd ==
  ASSUME Inv, OrdInv, Layout
  PROVE  OrdInv'
<1>1. Orderly /\ Top.ph = "layout" /\ DOMAIN Top = FrameFields /\ Loads /\ ran' = ran
  BY InOrderly DEF Layout
<1>2. PICK fr : fr = Top
  OBVIOUS
<1>3. DInv(world, d) /\ IsSeq(d.objs)
  BY <1>1, LoadsIs
<1>4. PICK g : g = Goto(fr, "init")
  OBVIOUS
<1>5. PICK r \in IF d.pie THEN AllocateStackAndHeap(d) ELSE {Result(d, 0, "ok")} : Outcome(r, g)
  BY <1>2, <1>4 DEF Layout
<1>6. Moved(Top, g, Turning) /\ g.ph = "init"
  BY <1>1, <1>2, <1>4, TurnsAre
<1>7. Same(d, r.d) /\ DOMAIN r.d = DyldFields
  <2>1. CASE r \in AllocateStackAndHeap(d)
    <3>1. Only(d, r.d, {"membase", "pages", "stack", "heap"})
      BY <1>3, <2>1, StackAndHeapInv
    <3>2. Only(d, r.d, PlaceFields)
      BY <3>1 DEF Only, PlaceFields
    <3> QED BY <1>3, <3>2, PlacesSame
  <2>2. CASE r = Result(d, 0, "ok")
    <3>1. r.d = d
      BY <2>2 DEF Result
    <3> QED BY <1>1, <3>1, SameSelf
  <2> QED BY <1>5, <2>1, <2>2
<1>8. Top.ph \in Early /\ Top.ph # "open" /\ g.ph \in Early
  BY <1>1, <1>6 DEF Early, Before
<1> QED BY <1>1, <1>5, <1>6, <1>7, <1>8, QuietOutcome

(* The sort begins: no object of the load has been visited. *)
LEMMA ExecuteInitFuncsOrd ==
  ASSUME Inv, OrdInv, ExecuteInitFuncs
  PROVE  OrdInv'
<1>1. Orderly /\ Top.ph = "init" /\ DOMAIN Top = FrameFields /\ Loads /\ ran' = ran
  BY InOrderly DEF ExecuteInitFuncs
<1>2. PICK c : c = Top
  OBVIOUS
<1>3. PICK g : g = Goto(c, "sort")
  OBVIOUS
<1>4. Die(d, "assert") \/ (d' = d /\ SetTop(g))
  BY <1>2, <1>3 DEF ExecuteInitFuncs
<1>5. CASE Die(d, "assert")
  BY <1>1, <1>5, DieOrd
<1>6. CASE d' = d /\ SetTop(g)
  <2>1. Moved(Top, g, Turning) /\ g.ph = "sort" /\ g.start = c.start /\ g.at = c.start
    BY <1>1, <1>2, <1>3, TurnsAre
  <2>2. g.list = c.list /\ g.path = c.path
    BY <1>2, <2>1 DEF Moved, Turning, FrameFields
  <2>3. /\ TopOrd(d, c) /\ FrameOrd(d, ran, c) /\ ItemsIn(d, c) /\ ItemsOk(d, c)
        /\ FrameOk(world, d, c)
    BY <1>1, <1>2, OrdersAre, LoadsIs
  <2>4. DOMAIN c.list = {} /\ DOMAIN c.path = {} /\ c.ph = "init" /\ c.ph \in Early
    BY <1>1, <1>2, <2>3 DEF ItemsOk, Early, Before
  <2>5. FrameOrd(d, ran, g) /\ Items(g) = Items(c)
    <3>1. PICK rn : rn = ran
      OBVIOUS
    <3>2. FrameOrd(d, rn, c) /\ g.ph \notin Early
      BY <2>1, <2>3, <3>1 DEF Early
    <3>3. FrameOrd(d, rn, g) /\ Items(g) = Items(c)
      BY <2>1, <2>2, <2>4, <3>2, FrameTurned
    <3> QED BY <3>1, <3>3
  <2>6. OnPath(g) = {}
    BY <2>2, <2>4 DEF OnPath, Range
  <2>7. g.start \in Nat \ {0} /\ g.at >= g.start
    BY <2>1, <2>3 DEF FrameOk, AtOk
  <2>8. SortOrd(d, g)
    <3>1. \A x \in DOMAIN d.objs : x >= g.start => ~d.objs[x].visited
      BY <2>1, <2>3, <2>4 DEF TopOrd
    <3> QED BY <2>1, <2>2, <2>4, <2>6, <2>7, <3>1 DEF SortOrd
  <2>9. TopOrd(d, g)
    <3>1. c.ph \in Before /\ g.ph \in Before /\ g.ph \notin Early
      BY <2>1, <2>4 DEF Early, Before
    <3> QED BY <2>1, <2>3, <2>8, <3>1 DEF TopOrd
  <2>10. ItemsIn(d, g)
    BY <2>1, <2>2, <2>3, <2>4 DEF ItemsIn, OnPath
  <2>11. Items(g) = Items(Top)
    BY <1>2, <2>5
  <2> QED BY <1>1, <1>6, <2>5, <2>9, <2>10, <2>11, SameSelf, TurnOrd
<1> QED BY <1>4, <1>5, <1>6

(* The object could not be made, and is not there. *)
LEMMA KeptSame ==
  ASSUME NEW dd, NEW e, Kept(dd, e), IsSeq(dd.objs)
  PROVE  Same(dd, e) /\ DOMAIN e = DyldFields
<1>1. /\ e.objs = dd.objs /\ e.left = dd.left /\ e.slots = dd.slots /\ e.data = dd.data
      /\ e.gen = dd.gen /\ e.status = dd.status /\ DOMAIN e = DyldFields
  BY DEF Kept, Grew, Only, MakeFields, DyldFields
<1> QED BY <1>1 DEF Same, SameOrd

\* The load asks for an object by a name that none of the others is found by,
\* because one of its objects needs it, unless it is the first one.
Asked(key, name) ==
    /\ Top.ph \in {"open", "needed"}
    /\ Top.ph = "needed" =>
         /\ name = Fixed(key)
         /\ \E y \in DOMAIN d.objs : y >= Top.start /\ Contains(d.objs[y].file.needs, key)
         /\ \A y \in 2..Len(d.objs) : NameOf(d, d.objs[y]) # key

(* A new object of the innermost load: it is not visited, and the last one. *)
LEMMA AddedOrd ==
  ASSUME Orderly, NEW key, NEW name, Asked(key, name), NEW e, NEW o, NEW id, NEW f,
         Added(world, d, e, o), Is(o, id, key, name, f), NEW g, g.ph = "needed",
         Moved(Top, g, Turning), d' = e, SetTop(g), ran' = ran
  PROVE  OrdInv'
<1>1. PICK c : c = Top
  OBVIOUS
<1>2. /\ TopOrd(d, c) /\ FrameOrd(d, ran, c) /\ ItemsIn(d, c) /\ ItemsOk(d, c) /\ LoadsOrd(d)
      /\ FrameOk(world, d, c) /\ Loads /\ SlotsOk(d) /\ RanOk(d, ran) /\ Once(ran)
  BY <1>1, OrdersAre, LoadsIs
<1>3. g.start = c.start /\ g.list = c.list /\ g.path = c.path
  BY <1>1 DEF Moved, Turning, FrameFields
<1>4. /\ c.ph \in {"open", "needed"} /\ c.ph \in Early /\ c.ph \in Before
      /\ c.start \in Nat \ {0} /\ calls # <<>>
      /\ c.ph = "open" => c.start = Len(d.objs) + 1
      /\ c.ph # "open" => c.start <= Len(d.objs) /\ d.objs[c.start].load = c.start
  BY <1>1, <1>2 DEF FrameOk, AtOk, FrameOrd, Asked, Early, Before, Loads
<1>5. PICK n : n = Len(d.objs) + 1
  OBVIOUS
<1>6. /\ DOMAIN d.objs = 1..Len(d.objs) /\ Len(d.objs) \in Nat /\ n \in Nat /\ n \in DOMAIN e.objs
      /\ DOMAIN e.objs = 1..n /\ e.left = d.left /\ Len(e.objs) = n /\ IsSeq(e.objs)
      /\ \A x \in DOMAIN d.objs : e.objs[x] = d.objs[x]
      /\ e.objs[n] = o /\ IsSeq(d.objs) /\ n \notin DOMAIN d.objs
      /\ \A x \in DOMAIN e.objs : x \in DOMAIN d.objs \/ x = n
  <2>1. /\ Went(world, d, e) /\ e.left = d.left
        /\ Len(e.objs) = n /\ DOMAIN e.objs = 1..Len(e.objs)
        /\ \A x \in DOMAIN d.objs : e.objs[x] = d.objs[x]
        /\ e.objs[n] = o
    BY <1>2, <1>5, WentAdded
  <2>2. DOMAIN d.objs = 1..Len(d.objs) /\ Len(d.objs) \in Nat /\ IsSeq(d.objs)
    BY <1>2, LoadsIs
  <2>3. IsSeq(e.objs)
    BY <2>1 DEF Went, DInv, Shape
  <2> QED BY <1>5, <2>1, <2>2, <2>3
<1>7. e.slots = d.slots /\ e.data = d.data /\ e.gen = d.gen /\ e.status = d.status
  BY DEF Added, Grew, Only, MakeFields, DyldFields
<1>8. o.key = key /\ o.name = name /\ o.visited = FALSE /\ o.load = c.start
  BY <1>1, <1>4 DEF Is
<1>9. c.start <= n /\ (c.ph = "open" => c.start = n)
  BY <1>4, <1>5, <1>6
<1>10. ASSUME NEW x \in DOMAIN d.objs
       PROVE  /\ x \in Nat /\ x < n /\ d.objs[x].load \in Nat /\ d.objs[x].load <= c.start
              /\ d.objs[x].visited => d.objs[x].load # c.start
              /\ x \in d.left => d.objs[x].load # c.start
  <2>1. x \in Nat /\ x < n
    BY <1>5, <1>6
  <2>2. d.objs[x].load \in Nat /\ d.objs[x].load <= x
    BY <1>2 DEF LoadsOrd
  <2>3. CASE x >= c.start
    <3>1. d.objs[x].load = c.start /\ ~d.objs[x].visited /\ x \notin d.left
      BY <1>2, <1>4, <2>3 DEF TopOrd
    <3> QED BY <1>4, <2>1, <2>2, <3>1
  <2>4. CASE x < c.start
    BY <1>4, <2>1, <2>2, <2>4
  <2> QED BY <1>4, <2>1, <2>3, <2>4
<1>11. d.left \subseteq DOMAIN d.objs
  BY <1>2 DEF SlotsOk
<1>12. Kin(d, e)
  <2>1. \A x \in DOMAIN d.objs : SameOrd(d.objs[x], e.objs[x])
    BY <1>6 DEF SameOrd
  <2>2. \A x \in DOMAIN e.objs : x \notin DOMAIN d.objs =>
          \A y \in DOMAIN d.objs : d.objs[y].visited => e.objs[x].load # d.objs[y].load
    BY <1>6, <1>8, <1>10
  <2>3. Len(d.objs) <= Len(e.objs) /\ d.left \subseteq DOMAIN e.objs
    BY <1>5, <1>6, <1>11
  <2> QED BY <1>6, <1>11, <2>1, <2>2, <2>3 DEF Kin
<1>13. LoadsOrd(e)
  <2>1. ASSUME NEW x \in DOMAIN d.objs
        PROVE  /\ e.objs[x].load \in Nat \ {0} /\ e.objs[x].load <= x
               /\ \A y \in DOMAIN e.objs : x <= y => e.objs[x].load <= e.objs[y].load
               /\ e.objs[x].load # x =>
                    /\ e.objs[x].name = Fixed(e.objs[x].key)
                    /\ \E y \in DOMAIN e.objs : /\ y < x /\ e.objs[y].load = e.objs[x].load
                                                /\ Contains(e.objs[y].file.needs, e.objs[x].key)
    <3>1. d.objs[x].load \in Nat \ {0} /\ d.objs[x].load <= x /\ d.objs[x].load <= c.start
      BY <1>2, <1>10 DEF LoadsOrd
    <3>2. \A y \in DOMAIN e.objs : x <= y => e.objs[x].load <= e.objs[y].load
      <4> TAKE y \in DOMAIN e.objs
      <4>1. CASE y = n
        BY <1>6, <1>8, <3>1, <4>1
      <4>2. CASE y \in DOMAIN d.objs
        BY <1>2, <1>6, <4>2 DEF LoadsOrd
      <4> QED BY <1>6, <4>1, <4>2
    <3>3. ASSUME d.objs[x].load # x
          PROVE  /\ d.objs[x].name = Fixed(d.objs[x].key)
                 /\ \E y \in DOMAIN e.objs : /\ y < x /\ e.objs[y].load = d.objs[x].load
                                             /\ Contains(e.objs[y].file.needs, d.objs[x].key)
      <4>1. PICK y \in DOMAIN d.objs : /\ y < x /\ d.objs[y].load = d.objs[x].load
                                       /\ Contains(d.objs[y].file.needs, d.objs[x].key)
        BY <1>2, <3>3 DEF LoadsOrd
      <4>2. y \in DOMAIN e.objs /\ e.objs[y] = d.objs[y]
        BY <1>6, <4>1
      <4> QED BY <1>2, <3>3, <4>1, <4>2 DEF LoadsOrd
    <3> QED BY <1>6, <3>1, <3>2, <3>3
  <2>2. /\ o.load \in Nat \ {0} /\ o.load <= n
        /\ \A y \in DOMAIN e.objs : n <= y => o.load <= e.objs[y].load
    <3>1. \A y \in DOMAIN e.objs : n <= y => y = n
      BY <1>6
    <3> QED BY <1>4, <1>6, <1>8, <1>9, <3>1
  <2>3. o.load # n =>
          /\ o.name = Fixed(o.key)
          /\ \E y \in DOMAIN e.objs : /\ y < n /\ e.objs[y].load = o.load
                                      /\ Contains(e.objs[y].file.needs, o.key)
    <3> HAVE o.load # n
    <3>1. c.ph = "needed"
      BY <1>4, <1>8, <1>9
    <3>2. PICK y \in DOMAIN d.objs : y >= c.start /\ Contains(d.objs[y].file.needs, key)
      BY <1>1, <3>1 DEF Asked
    <3>3. d.objs[y].load = c.start
      BY <1>2, <1>4, <3>2 DEF TopOrd
    <3>4. y \in DOMAIN e.objs /\ y < n /\ e.objs[y] = d.objs[y]
      BY <1>6, <1>10
    <3> QED BY <1>1, <1>8, <3>1, <3>2, <3>3, <3>4 DEF Asked
  <2>4. \A x \in e.left : \A y \in DOMAIN e.objs : e.objs[y].load = e.objs[x].load => y \in e.left
    <3> SUFFICES ASSUME NEW x \in d.left, NEW y \in DOMAIN e.objs, e.objs[y].load = d.objs[x].load
                 PROVE  y \in d.left
      BY <1>6, <1>11
    <3>1. x \in DOMAIN d.objs /\ d.objs[x].load # c.start
      BY <1>10, <1>11
    <3>2. y # n
      BY <1>6, <1>8, <3>1
    <3> QED BY <1>2, <1>6, <3>2 DEF LoadsOrd
  <2> QED BY <1>6, <2>1, <2>2, <2>3, <2>4 DEF LoadsOrd
<1>14. TopOrd(e, g)
  <2>1. \A x \in DOMAIN e.objs :
         ~e.objs[x].visited => x \in e.left \/ x >= g.start
    BY <1>2, <1>3, <1>4, <1>6, <1>9 DEF TopOrd
  <2>2. \A x \in DOMAIN e.objs : x >= g.start => ~e.objs[x].visited
    BY <1>2, <1>3, <1>4, <1>6, <1>8 DEF TopOrd
  <2>3. \A x \in DOMAIN e.objs : x >= g.start => e.objs[x].load = g.start
    BY <1>2, <1>3, <1>4, <1>6, <1>8 DEF TopOrd
  <2>4. \A x \in DOMAIN e.objs : x >= g.start => x \notin e.left
    BY <1>2, <1>3, <1>4, <1>6, <1>11 DEF TopOrd
  <2>5. \A x \in DOMAIN d.objs : NameOf(e, e.objs[x]) = NameOf(d, d.objs[x])
    BY <1>6, <1>7 DEF NameOf
  <2>6. \A x \in DOMAIN e.objs : x > g.start =>
           \A y \in 2..(x - 1) : NameOf(e, e.objs[y]) # e.objs[x].key
    <3> SUFFICES ASSUME NEW x \in DOMAIN e.objs, x > g.start, NEW y \in 2..(x - 1)
                 PROVE  NameOf(e, e.objs[y]) # e.objs[x].key
      OBVIOUS
    <3>1. y \in DOMAIN d.objs /\ y \in 2..Len(d.objs)
      BY <1>5, <1>6
    <3>2. CASE x \in DOMAIN d.objs
      <4>1. NameOf(d, d.objs[y]) # d.objs[x].key
        BY <1>2, <1>3, <1>4, <3>2 DEF TopOrd
      <4> QED BY <1>6, <2>5, <3>1, <3>2, <4>1
    <3>3. CASE x = n
      <4>1. c.ph = "needed"
        BY <1>3, <1>4, <1>6, <1>9, <3>3
      <4>2. NameOf(d, d.objs[y]) # key
        BY <1>1, <3>1, <4>1 DEF Asked
      <4> QED BY <1>6, <1>8, <2>5, <3>1, <3>3, <4>2
    <3> QED BY <1>6, <3>2, <3>3
  <2>7. g.ph # "sort" /\ g.ph \in Before
    BY DEF Before
  <2> QED BY <2>1, <2>2, <2>3, <2>4, <2>6, <2>7 DEF TopOrd
<1>15. DOMAIN c.list = {} /\ DOMAIN c.path = {}
  BY <1>2, <1>4 DEF ItemsOk
<1>16. Items(g) = {} /\ OnPath(g) = {}
  BY <1>3, <1>15 DEF Items, OnPath, Range
<1>17. FrameOrd(e, ran, g)
  <2>1. e.objs[g.start].load = g.start
    <3>1. CASE c.ph = "open"
      BY <1>3, <1>6, <1>8, <1>9, <3>1
    <3>2. CASE c.ph = "needed"
      <4>1. c.start \in DOMAIN d.objs /\ d.objs[c.start].load = c.start
        BY <1>4, <1>6, <3>2
      <4> QED BY <1>3, <1>6, <4>1
    <3> QED BY <1>4, <3>1, <3>2
  <2>2. ItemsOk(e, g)
    BY <1>3, <1>15, <1>16 DEF ItemsOk, Range
  <2>3. CalledOk(e, ran, g)
    BY <1>3, <1>15, <1>16 DEF CalledOk
  <2> QED BY <1>3, <1>15, <2>1, <2>2, <2>3 DEF FrameOrd
<1>18. PICK rm : rm = ran
  OBVIOUS
<1>19. RanOk(e, rm) /\ CallsOnly(rm, Items(Top))
  <2>1. RanOk(d, rm) /\ Once(rm)
    BY <1>2, <1>18
  <2> QED BY <1>12, <1>18, <2>1, RanStays DEF CallsOnly
<1>20. FrameOrd(e, rm, g) /\ \A i \in Items(g) : i \in Items(Top)
  BY <1>16, <1>17, <1>18
<1> QED BY <1>7, <1>12, <1>13, <1>14, <1>18, <1>19, <1>20, StepOrd

(* The search for an object that is asked for *)
LEMMA SearchOrd ==
  ASSUME Orderly, NEW key, NEW name, Asked(key, name), NEW done, done.ph = "needed",
         Moved(Top, done, Turning), \A i \in DOMAIN world.dirs : key \in DOMAIN world.dirs[i],
         SearchAndLoadObject(key, name, done), ran' = ran
  PROVE  OrdInv'
<1>1. PICK err : err = (CASE key \in BadNames -> "EPERM"
                          [] key \notin BadNames /\ Top.dir > Len(world.dirs) -> "ENOENT"
                          [] OTHER -> "ok")
  OBVIOUS
<1>0. Loads /\ IsSeq(d.objs)
  BY OrdersAre, LoadsIs
<1>2. CASE err # "ok"
  <2>1. PICK r : r = Result(d, 0, err)
    OBVIOUS
  <2>2. Outcome(r, done)
    BY <1>1, <1>2, <2>1 DEF SearchAndLoadObject
  <2>3. r.d = d /\ r.err = err
    BY <2>1 DEF Result
  <2>4. Same(d, r.d) /\ DOMAIN r.d = DyldFields
    BY <2>3, SameSelf
  <2> QED BY <1>2, <2>2, <2>3, <2>4, OutcomeOrd
<1>3. CASE err = "ok"
  <2>1. PICK f : f = world.dirs[Top.dir][key]
    OBVIOUS
  <2>2. PICK r \in LoadObjectFromFile(d, key, name, f) :
               IF r.err = "ENOENT" THEN d' = r.d /\ SetTop([Top EXCEPT !.dir = @ + 1])
               ELSE Outcome(r, done)
    BY <1>1, <1>3, <2>1 DEF SearchAndLoadObject
  <2>3. WorldOk(world) /\ DInv(world, d) /\ FrameOk(world, d, Top)
    BY <1>0, LoadsIs
  <2>4. f = NoFile \/ (f # NoFile /\ (f.valid /\ f.dylink => WellFormed(world, f)))
    <3>1. IsSeq(world.dirs) /\ Top.dir \in Nat \ {0}
      BY <2>3 DEF WorldOk, FrameOk, AtOk
    <3>2. DOMAIN world.dirs = 1..Len(world.dirs) /\ Len(world.dirs) \in Nat
      BY <3>1, SeqLen
    <3>3. ~(Top.dir > Len(world.dirs))
      BY <1>1, <1>3
    <3>4. Top.dir \in DOMAIN world.dirs
      BY <3>1, <3>2, <3>3
    <3>5. f \in Range(world.dirs[Top.dir])
      BY <2>1, <3>4 DEF Range
    <3> QED BY <2>3, <3>4, <3>5, FileOk
  <2>5. Loadable(d)
    <3>1. d.objs # <<>>
      BY <1>0, LoadsIs DEF Loads, CallsOk
    <3> QED BY <2>3, <3>1 DEF Loadable, DInv, Shape
  <2>6. Loaded(world, d, key, name, f, r)
    BY <2>2, <2>4, <2>5, LoadObjectFromFileIs
  <2>7. r.err # "ok" => Same(d, r.d) /\ DOMAIN r.d = DyldFields
    BY <1>0, <2>6, KeptSame DEF Loaded
  <2>8. CASE r.err = "ENOENT"
    <3>1. PICK g : g = [Top EXCEPT !.dir = @ + 1]
      OBVIOUS
    <3>2. Moved(Top, g, Turning) /\ g.ph = Top.ph
      BY <2>3, <3>1 DEF FrameOk, Moved, Turning, FrameFields
    <3>3. d' = r.d /\ SetTop(g)
      BY <2>2, <2>8, <3>1
    <3>4. Top.ph \in Early
      BY DEF Asked, Early, Before
    <3> QED BY <2>7, <2>8, <3>2, <3>3, <3>4, QuietOrd
  <2>9. CASE r.err # "ENOENT"
    <3>1. Outcome(r, done)
      BY <2>2, <2>9
    <3>2. DOMAIN r.d = DyldFields
      BY <2>6, <2>7 DEF Loaded, Added, Grew, Only
    <3>3. r.err = "ok" /\ d' = r.d /\ SetTop(done) => OrdInv'
      <4> HAVE r.err = "ok" /\ d' = r.d /\ SetTop(done)
      <4>1. PICK o : Added(world, d, r.d, o) /\ Is(o, d.ids + 1, key, name, f)
        BY <2>6 DEF Loaded
      <4>2. PICK e : e = r.d
        OBVIOUS
      <4>3. PICK id : id = d.ids + 1
        OBVIOUS
      <4>4. Added(world, d, e, o) /\ Is(o, id, key, name, f) /\ d' = e
        BY <4>1, <4>2, <4>3
      <4> QED BY <4>4, AddedOrd
    <3> QED BY <2>7, <3>1, <3>2, <3>3, OutcomeOrd
  <2> QED BY <2>8, <2>9
<1> QED BY <1>2, <1>3

(* The object that load_object asks for *)
LEMMA OpenObjectOrd ==
  ASSUME Inv, OrdInv, OpenObject
  PROVE  OrdInv'
<1>1. Orderly /\ Top.ph = "open" /\ DOMAIN Top = FrameFields /\ Loads /\ ran' = ran
  BY InOrderly DEF OpenObject
<1>2. PICK done : done = [Top EXCEPT !.ph = "needed", !.dir = 1]
  OBVIOUS
<1>3. Moved(Top, done, Turning) /\ done.ph = "needed"
  BY <1>1, <1>2 DEF Moved, Turning, FrameFields
<1>4. PICK name : name = [fixed |-> "none", slot |-> Top.slot, gen |-> Top.gen]
  OBVIOUS
<1>5. PICK key : key = Top.name
  OBVIOUS
<1>6. SearchAndLoadObject(key, name, done)
  BY <1>2, <1>4, <1>5 DEF OpenObject
<1>7. \A i \in DOMAIN world.dirs : key \in DOMAIN world.dirs[i]
  <2>1. FrameOk(world, d, Top) /\ DInv(world, d) /\ Len(d.objs) \in Nat \ {0}
        /\ DOMAIN d.objs = 1..Len(d.objs)
    BY <1>1, LoadsIs
  <2>2. PICK x : x = 1
    OBVIOUS
  <2>3. x \in DOMAIN d.objs
    BY <2>1, <2>2
  <2>4. WellFormed(world, d.objs[x].file)
    BY <2>1, <2>3 DEF DInv, Shape, ObjOk
  <2>5. Top.name \in world.open
    BY <1>1, <2>1 DEF FrameOk, AtOk
  <2> QED BY <1>5, <2>4, <2>5 DEF WellFormed
<1>8. Asked(key, name)
  BY <1>1 DEF Asked
<1> QED BY <1>1, <1>3, <1>6, <1>7, <1>8, SearchOrd

(* What dyld_find_object_by_name finds is the first object of the name. *)
LEMMA FoundIs ==
  ASSUME NEW dd, NEW n, NEW j, IsSeq(dd.objs), j = FindObjectByName(dd, n)
  PROVE  /\ j = 0 => \A y \in 2..Len(dd.objs) : NameOf(dd, dd.objs[y]) # n
         /\ j # 0 /\ j # Unset =>
              /\ j \in 2..Len(dd.objs) /\ NameOf(dd, dd.objs[j]) = n
              /\ \A y \in 2..(j - 1) : NameOf(dd, dd.objs[y]) # n
<1>1. PICK hits : hits = {i \in 2..Len(dd.objs) : NameOf(dd, dd.objs[i]) \in {n, Stale}}
  OBVIOUS
<1>2. PICK x : x = First(hits)
  OBVIOUS
<1>3. Len(dd.objs) \in Nat
  BY SeqLen
<1>4. j = IF hits = {} THEN 0 ELSE IF NameOf(dd, dd.objs[x]) = Stale THEN Unset ELSE x
  BY <1>1, <1>2 DEF FindObjectByName, First
<1>5. hits # {} => x \in hits /\ \A y \in hits : x <= y
  <2> HAVE hits # {}
  <2>1. hits \in SUBSET Nat
    BY <1>1, <1>3
  <2> QED BY <1>2, <2>1, FirstIs
<1>6. x \in hits => x \in 2..Len(dd.objs) /\ NameOf(dd, dd.objs[x]) \in {n, Stale} /\ x # 0
  BY <1>1, <1>3
<1>7. CASE hits = {}
  BY <1>1, <1>4, <1>7
<1>8. CASE hits # {}
  <2>1. j # 0 /\ j # Unset => j = x
    BY <1>4, <1>8
  <2>2. j # 0
    BY <1>4, <1>5, <1>6, <1>8 DEF Unset
  <2>3. ASSUME j # Unset
        PROVE  /\ j \in 2..Len(dd.objs) /\ NameOf(dd, dd.objs[j]) = n
               /\ \A y \in 2..(j - 1) : NameOf(dd, dd.objs[y]) # n
    <3>1. j = x /\ NameOf(dd, dd.objs[x]) # Stale
      BY <1>4, <1>8, <2>3
    <3>2. ASSUME NEW y \in 2..(x - 1), NameOf(dd, dd.objs[y]) = n PROVE FALSE
      <4>1. y \in 2..Len(dd.objs) /\ ~(x <= y)
        BY <1>3, <1>5, <1>6, <1>8
      <4>2. y \in hits
        BY <1>1, <3>2, <4>1
      <4> QED BY <1>5, <1>8, <4>1, <4>2
    <3> QED BY <1>5, <1>6, <1>8, <3>1, <3>2
  <2> QED BY <2>2, <2>3
<1> QED BY <1>7, <1>8

(* One turn of dyld_load_needed_objects *)
LEMMA LoadNeededOrd ==
  ASSUME Inv, OrdInv, LoadNeeded
  PROVE  OrdInv'
<1>1. Orderly /\ Top.ph = "needed" /\ DOMAIN Top = FrameFields /\ Loads /\ ran' = ran
  BY InOrderly DEF LoadNeeded
<1>2. PICK fr : fr = Top
  OBVIOUS
<1>3. /\ FrameOk(world, d, fr) /\ DInv(world, d) /\ Len(d.objs) \in Nat \ {0}
      /\ DOMAIN d.objs = 1..Len(d.objs) /\ IsSeq(d.objs)
  BY <1>1, <1>2, LoadsIs
<1>4. /\ DOMAIN fr = FrameFields /\ fr.at \in Nat \ {0} /\ fr.k \in Nat \ {0} /\ fr.at >= fr.start
      /\ fr.ph = "needed"
  BY <1>1, <1>2, <1>3 DEF FrameOk, AtOk
<1>5. PICK needs : needs = d.objs[fr.at].file.needs
  OBVIOUS
<1>6. PICK n : n = needs[fr.k]
  OBVIOUS
<1>7. PICK found : found = FindObjectByName(d, n)
  OBVIOUS
<1>8. \/ d' = d /\ SetTop(Goto(fr, "got"))
      \/ d' = d /\ SetTop(NextObject(fr))
      \/ d' = d /\ SetTop(NextItem(fr))
      \/ Die(d, "stale")
      \/ /\ ~(fr.at > Len(d.objs)) /\ ~(fr.k > Len(needs)) /\ ~(found > 0) /\ found # Unset
         /\ SearchAndLoadObject(n, Fixed(n), NextItem(fr))
  <2>1. fr.at > Len(d.objs) \/ fr.at <= Len(d.objs)
    BY <1>3, <1>4
  <2> QED BY <1>2, <1>5, <1>6, <1>7, <2>1 DEF LoadNeeded
<1>9. \A g \in {Goto(fr, "got"), NextObject(fr), NextItem(fr)} :
         Moved(Top, g, Turning) /\ g.ph \in Early /\ g.ph # "open"
  BY <1>2, <1>4, TurnsAre DEF Early, Before
<1>10. Top.ph \in Early /\ Top.ph # "open"
  BY <1>1 DEF Early, Before
<1>11. ASSUME NEW g \in {Goto(fr, "got"), NextObject(fr), NextItem(fr)}, d' = d, SetTop(g)
       PROVE  OrdInv'
  BY <1>1, <1>9, <1>10, <1>11, SameSelf, QuietOrd
<1>12. CASE Die(d, "stale")
  BY <1>1, <1>12, DieOrd
<1>13. CASE /\ ~(fr.at > Len(d.objs)) /\ ~(fr.k > Len(needs)) /\ ~(found > 0) /\ found # Unset
            /\ SearchAndLoadObject(n, Fixed(n), NextItem(fr))
  <2>1. fr.at \in DOMAIN d.objs
    BY <1>3, <1>4, <1>13
  <2>2. WellFormed(world, d.objs[fr.at].file)
    BY <1>3, <2>1 DEF DInv, Shape, ObjOk
  <2>3. needs \in Seq(Range(needs))
    BY <1>5, <2>2 DEF WellFormed
  <2>4. Len(needs) \in Nat /\ DOMAIN needs = 1..Len(needs)
    BY <2>3
  <2>5. fr.k \in DOMAIN needs
    BY <1>4, <1>13, <2>4
  <2>6. n \in Range(needs) /\ Contains(needs, n)
    BY <1>6, <2>5 DEF Range, Contains
  <2>7. \A i \in DOMAIN world.dirs : n \in DOMAIN world.dirs[i]
    BY <1>5, <2>2, <2>6 DEF WellFormed
  <2>8. \A y \in 2..Len(d.objs) : NameOf(d, d.objs[y]) # n
    <3>1. found = 0 \/ found = Unset \/ found > 0
      BY <1>3, <1>7, FindIs
    <3>2. found = 0
      BY <1>13, <3>1
    <3> QED BY <1>3, <1>7, <3>2, FoundIs
  <2>9. PICK name : name = Fixed(n)
    OBVIOUS
  <2>10. PICK g : g = NextItem(fr)
    OBVIOUS
  <2>11. Asked(n, name)
    <3>1. fr.at \in DOMAIN d.objs /\ fr.at >= Top.start /\ Contains(d.objs[fr.at].file.needs, n)
      BY <1>2, <1>4, <1>5, <2>1, <2>6
    <3> QED BY <1>1, <2>8, <2>9, <3>1 DEF Asked
  <2>12. SearchAndLoadObject(n, name, g) /\ Moved(Top, g, Turning) /\ g.ph = "needed"
    BY <1>2, <1>4, <1>13, <2>9, <2>10, TurnsAre
  <2> QED BY <1>1, <2>7, <2>11, <2>12, SearchOrd
<1> QED BY <1>8, <1>11, <1>12, <1>13

(* dyld_load, up to the main object *)
LEMMA DyldLoadOrd ==
  ASSUME Inv, OrdInv, DyldLoad
  PROVE  OrdInv'
<1>1. /\ WorldOk(world) /\ d.fault = "none" /\ d.status = "new"
      /\ d = EmptyDyld /\ calls = <<>>
  BY DEF Inv, DyldLoad, CallsOk
<1>2. PICK m : m = [EmptyDyld EXCEPT !.status = "loading"]
  OBVIOUS
<1>3. DInv(world, m) /\ Loadable(m) /\ m.objs = <<>>
  BY <1>2, EmptyInv
<1>4. PICK r \in LoadObjectFromFile(m, "<main>", Fixed("<main>"), world.main) :
           CASE r.err = "ok" -> d' = r.d /\ calls' = <<Frame("needed", 1, "main", 0, 0, 0)>>
             [] r.err = "assert" -> Die(r.d, r.err)
             [] OTHER -> DyldClear(r.d, "failed")
  BY <1>1, <1>2 DEF DyldLoad
<1>5. PICK f : f = world.main
  OBVIOUS
<1>6. f = NoFile \/ (f # NoFile /\ (f.valid /\ f.dylink => WellFormed(world, f)))
  BY <1>1, <1>5, FileOk
<1>7. PICK key : key = "<main>"
  OBVIOUS
<1>8. PICK name : name = Fixed("<main>")
  OBVIOUS
<1>9. Loaded(world, m, key, name, f, r)
  BY <1>3, <1>4, <1>5, <1>6, <1>7, <1>8, LoadObjectFromFileIs
<1>10. PICK rm : rm = ran
  OBVIOUS
<1>11. ran' = rm /\ Once(rm) /\ DOMAIN rm = {} /\ \A dd : RanOk(dd, rm)
  BY <1>1, <1>10 DEF OrdInv, RanOk, DyldLoad
<1>12. PICK e : e = r.d
  OBVIOUS
<1>13. /\ m.left = {} /\ m.status = "loading" /\ DOMAIN m = DyldFields
  BY <1>2, <1>3 DEF EmptyDyld, Loadable
<1>14. CASE r.err = "ok"
  <2>1. PICK o : Added(world, m, e, o) /\ Is(o, m.ids + 1, key, name, f)
    BY <1>9, <1>12, <1>14 DEF Loaded
  <2>2. PICK fr : fr = Frame("needed", 1, "main", 0, 0, 0)
    OBVIOUS
  <2>3. d' = e /\ calls' = <<fr>>
    BY <1>4, <1>12, <1>14, <2>2
  <2>4. e.objs = Plus(m.objs, o) /\ e.left = {} /\ e.status = "loading"
    BY <1>13, <2>1 DEF Added, Grew, Only, MakeFields, DyldFields
  <2>5. IsSeq(<<>>) /\ Len(<<>>) = 0
    <3>1. <<>> \in Seq({})
      OBVIOUS
    <3> QED BY <3>1, SeqIs
  <2>6. IsSeq(e.objs) /\ Len(e.objs) = 1 /\ DOMAIN e.objs = 1..1 /\ e.objs[1] = o
    <3>1. PICK s : s = m.objs
      OBVIOUS
    <3>2. PICK t : t = Plus(s, o)
      OBVIOUS
    <3>3. IsSeq(s)
      BY <1>3, <2>5, <3>1
    <3>4. IsSeq(t) /\ Len(t) = Len(s) + 1 /\ DOMAIN t = 1..(Len(s) + 1) /\ t[Len(t)] = o
      BY ONLY <3>2, <3>3, PlusIs
    <3>5. Len(s) = 0
      BY <1>3, <2>5, <3>1
    <3> QED BY <2>4, <3>1, <3>2, <3>4, <3>5
  <2>7. /\ fr.ph = "needed" /\ fr.start = 1 /\ fr.path = <<>> /\ fr.list = <<>>
    BY <2>2 DEF Frame
  <2>8. o.load = 1 /\ o.visited = FALSE
    BY <1>1, <2>1 DEF Is
  <2>9. \A x \in DOMAIN e.objs : x = 1 /\ e.objs[x] = o
    BY <2>6
  <2>10. LoadsOrd(e)
    BY <2>4, <2>8, <2>9 DEF LoadsOrd
  <2>11. TopOrd(e, fr)
    BY <2>4, <2>7, <2>8, <2>9 DEF TopOrd, Before, Early
  <2>12. DOMAIN fr.list = {} /\ DOMAIN fr.path = {} /\ OnPath(fr) = {} /\ Items(fr) = {}
    BY <2>7 DEF OnPath, Items, Range
  <2>13. FrameOrd(e, rm, fr)
    <3>1. ItemsOk(e, fr)
      BY <2>12 DEF ItemsOk, Range
    <3>2. CalledOk(e, rm, fr)
      BY <2>12 DEF CalledOk
    <3>3. e.objs[fr.start].load = fr.start
      BY <2>6, <2>7, <2>8
    <3> QED BY <2>12, <3>1, <3>2, <3>3 DEF FrameOrd
  <2>14. PICK s : s = <<fr>>
    OBVIOUS
  <2>15. DOMAIN s = {1} /\ s[1] = fr /\ Last(s) = fr
    BY <2>14 DEF Last
  <2>16. InOrder(e, rm, s)
    BY <2>10, <2>11, <2>13, <2>15 DEF InOrder
  <2> QED BY <1>11, <2>3, <2>4, <2>14, <2>16 DEF OrdInv
<1>15. CASE r.err # "ok"
  <2>1. Kept(m, e)
    BY <1>9, <1>12, <1>15 DEF Loaded
  <2>2. Same(m, e) /\ DOMAIN e = DyldFields
    BY <1>3, <2>1, KeptSame DEF Loadable
  <2>3. IsSeq(e.objs) /\ e.left \subseteq DOMAIN e.objs /\ e.status # "new"
    BY <1>13, <2>2 DEF Same
  <2>4. CASE r.err = "assert"
    <3>1. d' = [e EXCEPT !.fault = "assert"]
      BY <1>4, <1>12, <2>4 DEF Die
    <3> QED BY <1>11, <2>2, <2>3, <3>1, FaultOrd
  <2>5. CASE r.err # "assert"
    <3>1. DyldClear(e, "failed")
      BY <1>4, <1>12, <1>15, <2>5
    <3> QED BY <1>11, <2>2, <2>3, <3>1, ClearOrd
  <2> QED BY <2>4, <2>5
<1> QED BY <1>14, <1>15

(* An object that is not the first of its load is found by its key. *)
LEMMA NameIs ==
  ASSUME NEW dd, LoadsOrd(dd), NEW x \in DOMAIN dd.objs, dd.objs[x].load # x
  PROVE  NameOf(dd, dd.objs[x]) = dd.objs[x].key
<1>1. dd.objs[x].name = Fixed(dd.objs[x].key)
  BY DEF LoadsOrd
<1>2. dd.objs[x].name.slot = 0 /\ dd.objs[x].name.fixed = dd.objs[x].key
  BY <1>1 DEF Fixed
<1> QED BY <1>2 DEF NameOf

(* tsort_visit marks an object: the order is about the others as well. *)
LEMMA MarkOrd ==
  ASSUME Orderly, NEW i \in DOMAIN d.objs, NEW e, e = Mark(d, i)
  PROVE  /\ Kin(d, e) /\ LoadsOrd(e) /\ e.status = d.status /\ DOMAIN e.objs = DOMAIN d.objs
         /\ e.left = d.left
         /\ \A x \in DOMAIN d.objs :
              /\ SameOrd(d.objs[x], e.objs[x]) /\ NameOf(e, e.objs[x]) = NameOf(d, d.objs[x])
              /\ e.objs[x].visited <=> (x = i \/ d.objs[x].visited)
<1>1. Loads /\ DInv(world, d) /\ IsSeq(d.objs) /\ SlotsOk(d) /\ LoadsOrd(d)
  BY OrdersAre, LoadsIs
<1>2. Only(d, e, {"objs"}) /\ e.objs = Put(d.objs, i, Visited(d.objs[i]))
  BY <1>1, VisitInv
<1>3. PICK p : p = Visited(d.objs[i])
  OBVIOUS
<1>4. /\ e.left = d.left /\ e.status = d.status /\ e.slots = d.slots /\ e.data = d.data
      /\ e.gen = d.gen
  BY <1>2 DEF Only, DyldFields
<1>5. DOMAIN d.objs[i] = ObjFields
  BY <1>1 DEF DInv, Shape, ObjOk
<1>6. /\ p.file = d.objs[i].file /\ p.key = d.objs[i].key /\ p.load = d.objs[i].load
      /\ p.name = d.objs[i].name /\ p.visited = TRUE
  BY <1>3, <1>5 DEF Visited, ObjFields
<1>7. PICK s : s = e.objs
  OBVIOUS
<1>8. PICK t : t = d.objs
  OBVIOUS
<1>9. /\ IsSeq(s) /\ Len(s) = Len(t) /\ DOMAIN s = DOMAIN t /\ s[i] = p
      /\ \A x \in DOMAIN t : x # i => s[x] = t[x]
  <2>1. IsSeq(t) /\ i \in DOMAIN t /\ s = Put(t, i, p)
    BY <1>1, <1>2, <1>3, <1>7, <1>8
  <2> QED BY ONLY <2>1, SeqExcept
<1>10. ASSUME NEW x \in DOMAIN d.objs
       PROVE  /\ SameOrd(d.objs[x], e.objs[x]) /\ NameOf(e, e.objs[x]) = NameOf(d, d.objs[x])
              /\ e.objs[x].visited <=> (x = i \/ d.objs[x].visited)
  <2>1. CASE x = i
    <3>1. SameOrd(d.objs[x], e.objs[x]) /\ e.objs[x].visited
      BY <1>6, <1>7, <1>8, <1>9, <2>1 DEF SameOrd
    <3> QED BY <1>4, <2>1, <3>1 DEF NameOf, SameOrd
  <2>2. CASE x # i
    <3>1. e.objs[x] = d.objs[x]
      BY <1>7, <1>8, <1>9, <2>2
    <3> QED BY <1>4, <2>2, <3>1 DEF NameOf, SameOrd
  <2> QED BY <2>1, <2>2
<1>11. Len(e.objs) = Len(d.objs) /\ Len(d.objs) \in Nat /\ IsSeq(e.objs)
       /\ DOMAIN e.objs = DOMAIN d.objs /\ d.left \subseteq DOMAIN d.objs
  BY <1>1, <1>7, <1>8, <1>9, SeqLen DEF SlotsOk
<1>12. Len(d.objs) <= Len(e.objs)
  BY <1>11
<1>13. Kin(d, e)
  BY <1>1, <1>4, <1>10, <1>11, <1>12 DEF Kin
<1>14. LoadsOrd(e)
  <2>1. \A x \in DOMAIN d.objs :
          /\ e.objs[x].load = d.objs[x].load /\ e.objs[x].name = d.objs[x].name
          /\ e.objs[x].key = d.objs[x].key /\ e.objs[x].file = d.objs[x].file
    BY <1>10 DEF SameOrd
  <2>2. ASSUME NEW x \in DOMAIN d.objs
        PROVE  LET o == e.objs[x] IN
               /\ o.load \in Nat \ {0} /\ o.load <= x
               /\ \A y \in DOMAIN d.objs : x <= y => o.load <= e.objs[y].load
               /\ o.load # x =>
                    /\ o.name = Fixed(o.key)
                    /\ \E y \in DOMAIN d.objs : /\ y < x /\ e.objs[y].load = o.load
                                                 /\ Contains(e.objs[y].file.needs, o.key)
    <3>1. /\ d.objs[x].load \in Nat \ {0} /\ d.objs[x].load <= x
          /\ \A y \in DOMAIN d.objs : x <= y => d.objs[x].load <= d.objs[y].load
      BY <1>1 DEF LoadsOrd
    <3>2. ASSUME d.objs[x].load # x
          PROVE  /\ e.objs[x].name = Fixed(e.objs[x].key)
                 /\ \E y \in DOMAIN d.objs : /\ y < x /\ e.objs[y].load = e.objs[x].load
                                              /\ Contains(e.objs[y].file.needs, e.objs[x].key)
      <4>1. d.objs[x].name = Fixed(d.objs[x].key)
        BY <1>1, <3>2 DEF LoadsOrd
      <4>2. PICK y \in DOMAIN d.objs : /\ y < x /\ d.objs[y].load = d.objs[x].load
                                       /\ Contains(d.objs[y].file.needs, d.objs[x].key)
        BY <1>1, <3>2 DEF LoadsOrd
      <4>3. Contains(e.objs[y].file.needs, e.objs[x].key)
        BY <2>1, <4>2
      <4> QED BY <2>1, <4>1, <4>2, <4>3
    <3> QED BY <2>1, <3>1, <3>2
  <2>3. \A x \in e.left : \A y \in DOMAIN e.objs : e.objs[y].load = e.objs[x].load => y \in e.left
    BY <1>1, <1>4, <1>11, <2>1 DEF LoadsOrd
  <2> QED BY <1>11, <2>2, <2>3 DEF LoadsOrd
<1> QED BY <1>4, <1>10, <1>11, <1>13, <1>14

\* The frame of a turn of the sort in which the object i is visited, unless
\* it was before: c goes on as g.
Turns(c, g, i) ==
    /\ g.ph = "sort" /\ g.start = c.start /\ g.list = c.list
    /\ g.at \in Nat /\ g.at > g.start
    /\ IsSeq(g.path) /\ DOMAIN g.path = DOMAIN c.path
    /\ \A t \in DOMAIN c.path : g.path[t].obj = c.path[t].obj
    /\ \A x \in DOMAIN d.objs : x >= c.start /\ ~d.objs[x].visited => x >= g.at \/ x = i
    /\ ~d.objs[i].visited =>
         /\ i \in d.left \/ i >= c.start
         /\ DOMAIN c.path # {} => i \in Needed(d, c.path[Len(c.path)].obj) \cup d.left
    /\ \A t \in DOMAIN c.path : \A k \in DOMAIN d.objs[c.path[t].obj].file.needs :
         k < g.path[t].k =>
           \A j \in DOMAIN d.objs :
             j > c.start /\ d.objs[j].key = d.objs[c.path[t].obj].file.needs[k]
               => d.objs[j].visited \/ j = i

(* The object had been visited. *)
LEMMA AgainOrd ==
  ASSUME Orderly, Top.ph = "sort", NEW g, NEW i, Turns(Top, g, i), d.objs[i].visited,
         d' = d, SetTop(g), ran' = ran
  PROVE  OrdInv'
<1>1. PICK c : c = Top
  OBVIOUS
<1>2. /\ TopOrd(d, c) /\ SortOrd(d, c) /\ FrameOrd(d, ran, c) /\ ItemsIn(d, c) /\ ItemsOk(d, c)
      /\ CalledOk(d, ran, c) /\ c.ph = "sort"
  BY <1>1, OrdersAre DEF TopOrd
<1>3. Turns(c, g, i)
  BY <1>1
<1>4. OnPath(g) = OnPath(c)
  BY <1>3 DEF Turns, OnPath, Range
<1>5. Items(g) = Items(c)
  BY <1>3, <1>4 DEF Turns, Items
<1>6. FrameOrd(d, ran, g)
  <2>1. ItemsOk(d, g)
    BY <1>2, <1>3, <1>4, <1>5 DEF Turns, ItemsOk
  <2>2. CalledOk(d, ran, g)
    BY <1>2, <1>3, <1>4 DEF Turns, CalledOk, Todo
  <2> QED BY <1>2, <1>3, <2>1, <2>2 DEF Turns, FrameOrd
<1>7. SortOrd(d, g)
  <2>1. \A x \in DOMAIN d.objs :
          x >= g.start => IF d.objs[x].visited THEN x \in Items(g) ELSE x >= g.at
    BY <1>2, <1>3, <1>5 DEF Turns, SortOrd
  <2>2. \A t \in DOMAIN g.path : t + 1 \in DOMAIN g.path =>
         g.path[t + 1].obj \in Needed(d, g.path[t].obj) \cup d.left
    BY <1>2, <1>3 DEF Turns, SortOrd
  <2>3. \A t \in DOMAIN g.path : \A k \in DOMAIN d.objs[g.path[t].obj].file.needs :
         k < g.path[t].k =>
           \A j \in DOMAIN d.objs :
             j > g.start /\ d.objs[j].key = d.objs[g.path[t].obj].file.needs[k]
               => d.objs[j].visited
    BY <1>3 DEF Turns
  <2>4. \A x \in OnPath(g) : x \in d.left \/ x >= g.start
    BY <1>2, <1>3, <1>4 DEF Turns, SortOrd
  <2>5. g.at >= g.start /\ (DOMAIN g.path # {} => g.at > g.start)
    <3>1. FrameOk(world, d, c)
      BY <1>1, OrdersAre, LoadsIs
    <3>2. c.at \in Nat /\ c.start \in Nat
      BY <3>1 DEF FrameOk, AtOk
    <3> QED BY <1>3, <3>2 DEF Turns
  <2> QED BY <2>1, <2>2, <2>3, <2>4, <2>5 DEF SortOrd
<1>8. TopOrd(d, g)
  <2>1. g.ph \in Before /\ c.ph \in Before /\ g.ph \notin Early /\ g.start = c.start
    BY <1>2, <1>3 DEF Turns, Before, Early
  <2> QED BY <1>2, <1>7, <2>1 DEF TopOrd
<1>9. ItemsIn(d, g)
  BY <1>2, <1>3, <1>4 DEF Turns, ItemsIn
<1> QED BY <1>1, <1>5, <1>6, <1>8, <1>9, SameSelf, TurnOrd

(* tsort_visit is called for an object that is not visited yet. *)
LEMMA EnterOrd ==
  ASSUME Orderly, Top.ph = "sort", NEW g, NEW i \in DOMAIN d.objs, Turns(Top, g, i),
         DOMAIN g = FrameFields,
         ~d.objs[i].visited, d' = Mark(d, i), SetTop(TsortEnter(g, i)), ran' = ran
  PROVE  OrdInv'
<1>1. PICK c : c = Top
  OBVIOUS
<1>2. /\ TopOrd(d, c) /\ SortOrd(d, c) /\ FrameOrd(d, ran, c) /\ ItemsIn(d, c) /\ ItemsOk(d, c)
      /\ CalledOk(d, ran, c) /\ c.ph = "sort" /\ RanOk(d, ran) /\ Once(ran) /\ Loads
  BY <1>1, OrdersAre DEF TopOrd
<1>3. Turns(c, g, i)
  BY <1>1
<1>4. PICK e : e = Mark(d, i)
  OBVIOUS
<1>5. /\ Kin(d, e) /\ LoadsOrd(e) /\ e.status = d.status /\ DOMAIN e.objs = DOMAIN d.objs
      /\ e.left = d.left
      /\ \A x \in DOMAIN d.objs :
           /\ SameOrd(d.objs[x], e.objs[x]) /\ NameOf(e, e.objs[x]) = NameOf(d, d.objs[x])
           /\ e.objs[x].visited <=> (x = i \/ d.objs[x].visited)
  BY <1>4, MarkOrd
<1>6. PICK h : h = TsortEnter(g, i)
  OBVIOUS
<1>7. PICK n : n = Node(i)
  OBVIOUS
<1>8. n.obj = i /\ n.k = 1
  BY <1>7 DEF Node
<1>9. /\ DOMAIN h = FrameFields /\ h.path = Plus(g.path, n)
      /\ \A y \in FrameFields \ {"path"} : h[y] = g[y]
  BY <1>6, <1>7 DEF TsortEnter, Plus, FrameFields
<1>10. h.ph = "sort" /\ h.start = c.start /\ h.at = g.at /\ h.list = c.list
  BY <1>3, <1>9 DEF FrameFields, Turns
<1>11. PICK m : m = Len(g.path) + 1
  OBVIOUS
<1>12. /\ m \in Nat \ {0} /\ DOMAIN c.path = 1..(m - 1) /\ DOMAIN h.path = 1..m
       /\ h.path[m] = n
       /\ \A t \in DOMAIN c.path : h.path[t] = g.path[t] /\ h.path[t].obj = c.path[t].obj
       /\ \A t \in DOMAIN h.path : t \in DOMAIN c.path \/ t = m
  <2>1. PICK q : q = h.path
    OBVIOUS
  <2>2. PICK s : s = g.path
    OBVIOUS
  <2>3. IsSeq(s) /\ q = Plus(s, n)
    BY <1>3, <1>9, <2>1, <2>2 DEF Turns
  <2>4. /\ Len(q) = Len(s) + 1 /\ DOMAIN s = 1..Len(s) /\ DOMAIN q = 1..(Len(s) + 1)
        /\ \A t \in DOMAIN s : t \in DOMAIN q /\ q[t] = s[t]
        /\ q[Len(q)] = n
    BY ONLY <2>3, PlusIs
  <2>5. Len(s) \in Nat
    BY <2>3, SeqLen
  <2>6. DOMAIN s = DOMAIN c.path /\ \A t \in DOMAIN c.path : s[t].obj = c.path[t].obj
    BY <1>3, <2>2 DEF Turns
  <2> QED BY <1>11, <2>1, <2>2, <2>4, <2>5, <2>6
<1>13. OnPath(h) = OnPath(c) \cup {i}
  <2>1. \A x \in OnPath(h) : x \in OnPath(c) \/ x = i
    BY <1>8, <1>12 DEF OnPath, Range
  <2>2. i \in OnPath(h)
    <3>1. m \in DOMAIN h.path
      BY <1>12
    <3> QED BY <1>8, <1>12, <3>1 DEF OnPath, Range
  <2>3. \A x \in OnPath(c) : x \in OnPath(h)
    <3> SUFFICES ASSUME NEW t \in DOMAIN c.path PROVE c.path[t].obj \in OnPath(h)
      BY DEF OnPath, Range
    <3>1. t \in DOMAIN h.path /\ h.path[t].obj = c.path[t].obj
      BY <1>12
    <3> QED BY <3>1 DEF OnPath, Range
  <2> QED BY <2>1, <2>2, <2>3
<1>14. Items(h) = Items(c) \cup {i}
  BY <1>10, <1>13 DEF Items
<1>15. i \notin Items(c) /\ \A x \in Items(c) : x \in DOMAIN d.objs
  BY <1>2 DEF ItemsOk, ItemsIn, Items
<1>16. ItemsOk(e, h)
  <2>1. \A t, u \in DOMAIN h.path : h.path[t].obj = h.path[u].obj => t = u
    <3>1. \A t \in DOMAIN c.path : h.path[t].obj # i
      <4> TAKE t \in DOMAIN c.path
      <4>1. c.path[t].obj \in OnPath(c)
        BY DEF OnPath, Range
      <4> QED BY <1>12, <1>15, <4>1 DEF Items
    <3> QED BY <1>2, <1>8, <1>12, <3>1 DEF ItemsOk
  <2>2. \A x \in Items(h) : e.objs[x].visited
    BY <1>2, <1>5, <1>14, <1>15 DEF ItemsOk
  <2>3. Range(h.list) \cap OnPath(h) = {}
    BY <1>2, <1>10, <1>13, <1>15 DEF ItemsOk, Items
  <2>4. h.ph \notin Early
    BY <1>10 DEF Early
  <2> QED BY <1>2, <1>10, <2>1, <2>2, <2>3, <2>4 DEF ItemsOk
<1>17. PICK rm : rm = ran
  OBVIOUS
<1>18. CalledOk(e, rm, h)
  <2>1. \A k \in Kinds : ~Ran(rm, k, i)
    <3> SUFFICES ASSUME NEW k \in Kinds, NEW p \in DOMAIN rm, rm[p] = <<k, i>> PROVE FALSE
      BY DEF Ran, Range
    <3>1. rm[p][2] = i
      OBVIOUS
    <3> QED BY <1>2, <1>17, <3>1 DEF RanOk
  <2>2. \A k \in Kinds : \A x \in OnPath(c) : ~Ran(rm, k, x)
    BY <1>2, <1>17 DEF CalledOk
  <2>3. \A k \in Kinds : \A p \in DOMAIN c.list : ~Ran(rm, k, c.list[p])
    BY <1>2, <1>17 DEF CalledOk, Todo
  <2> QED BY <1>10, <1>13, <2>1, <2>2, <2>3 DEF CalledOk, Todo
<1>19. FrameOrd(e, rm, h)
  <2>1. \A p \in DOMAIN c.list : NeedsFirst(e, c.list, p)
    <3> SUFFICES ASSUME NEW p \in DOMAIN c.list PROVE NeedsFirst(e, c.list, p)
      OBVIOUS
    <3>1. PICK s : s = c.list
      OBVIOUS
    <3>2. s[p] \in DOMAIN d.objs /\ d.objs[s[p]].visited /\ NeedsFirst(d, s, p)
      BY <1>2, <3>1 DEF FrameOrd, ItemsOk, ItemsIn, Items, Range
    <3>3. PICK dd : dd = d
      OBVIOUS
    <3>4. Kin(dd, e) /\ s[p] \in DOMAIN dd.objs /\ dd.objs[s[p]].visited /\ NeedsFirst(dd, s, p)
      BY <1>5, <3>2, <3>3
    <3>5. NeedsFirst(e, s, p)
      BY ONLY <3>4, NeedsFirstStays
    <3> QED BY <3>1, <3>5
  <2>2. e.objs[h.start].load = h.start
    <3>1. c.start \in DOMAIN d.objs /\ d.objs[c.start].load = c.start
      BY <1>2 DEF FrameOrd, ItemsIn
    <3> QED BY <1>5, <1>10, <3>1 DEF SameOrd
  <2> QED BY <1>10, <1>16, <1>18, <2>1, <2>2 DEF FrameOrd
<1>20. SortOrd(e, h)
  <2>1. \A x \in DOMAIN e.objs :
          x >= h.start => IF e.objs[x].visited THEN x \in Items(h) ELSE x >= h.at
    <3> SUFFICES ASSUME NEW x \in DOMAIN d.objs, x >= c.start
                 PROVE  IF e.objs[x].visited THEN x \in Items(h) ELSE x >= g.at
      BY <1>5, <1>10
    <3>1. CASE e.objs[x].visited
      BY <1>2, <1>5, <1>14, <3>1 DEF SortOrd
    <3>2. CASE ~e.objs[x].visited
      BY <1>3, <1>5, <3>2 DEF Turns
    <3> QED BY <3>1, <3>2
  <2>2. \A x \in OnPath(h) : x \in e.left \/ x >= h.start
    BY <1>2, <1>3, <1>5, <1>10, <1>13 DEF Turns, SortOrd
  <2>3. ASSUME NEW t \in DOMAIN h.path, t + 1 \in DOMAIN h.path
        PROVE  h.path[t + 1].obj \in Needed(e, h.path[t].obj) \cup e.left
    <3>1. t \in Nat /\ t \in DOMAIN c.path
      BY <1>12, <2>3
    <3>2. PICK x : x = h.path[t].obj
      OBVIOUS
    <3>3. PICK j : j = h.path[t + 1].obj
      OBVIOUS
    <3>4. x = c.path[t].obj /\ x \in DOMAIN d.objs
      BY <1>2, <1>12, <3>1, <3>2 DEF ItemsIn, OnPath, Range
    <3>5. j \in Needed(d, x) \cup d.left
      <4>1. CASE t + 1 \in DOMAIN c.path
        BY <1>2, <1>12, <3>1, <3>3, <3>4, <4>1 DEF SortOrd
      <4>2. CASE t + 1 = m
        <5>1. t = Len(c.path)
          <6>1. IsSeq(c.path)
            BY <1>1, <1>2, LoadsIs DEF FrameOk
          <6>2. Len(c.path) \in Nat /\ DOMAIN c.path = 1..Len(c.path)
            BY <6>1, SeqLen
          <6>3. Len(c.path) = m - 1
            BY <1>12, <6>2
          <6> QED BY <1>12, <3>1, <4>2, <6>3
        <5>2. j = i /\ DOMAIN c.path # {}
          BY <1>8, <1>12, <3>1, <3>3, <4>2
        <5> QED BY <1>3, <3>4, <5>1, <5>2 DEF Turns
      <4> QED BY <1>12, <2>3, <4>1, <4>2
    <3>6. CASE j \in Needed(d, x)
      <4>1. j \in DOMAIN d.objs
        BY <1>2, <1>5, <3>6, NeedsIs DEF Kin
      <4>2. j \in Needed(e, x)
        BY <1>5, <3>4, <3>6, <4>1, NeededStays
      <4> QED BY <3>2, <3>3, <4>2
    <3>7. CASE j \in d.left
      BY <1>5, <3>3, <3>7
    <3> QED BY <3>5, <3>6, <3>7
  <2>4. ASSUME NEW t \in DOMAIN h.path, NEW k \in DOMAIN e.objs[h.path[t].obj].file.needs,
               k < h.path[t].k, NEW j \in DOMAIN e.objs, j > h.start,
               e.objs[j].key = e.objs[h.path[t].obj].file.needs[k]
        PROVE  e.objs[j].visited
    <3>1. CASE t \in DOMAIN c.path
      <4>1. PICK x : x = c.path[t].obj
        OBVIOUS
      <4>2. h.path[t].obj = x /\ x \in DOMAIN d.objs /\ h.path[t] = g.path[t]
        BY <1>2, <1>12, <3>1, <4>1 DEF ItemsIn, OnPath, Range
      <4>3. e.objs[x].file = d.objs[x].file /\ e.objs[j].key = d.objs[j].key
        BY <1>5, <4>2 DEF SameOrd
      <4>4. d.objs[j].visited \/ j = i
        <5>1. PICK s : s = d.objs[x].file.needs
          OBVIOUS
        <5>2. k \in DOMAIN s /\ d.objs[j].key = s[k] /\ j \in DOMAIN d.objs
          BY <1>5, <2>4, <4>2, <4>3, <5>1
        <5>3. k < g.path[t].k /\ j > c.start
          BY <1>10, <2>4, <4>2
        <5>4. k < g.path[t].k /\ j > c.start /\ d.objs[j].key = s[k]
                => d.objs[j].visited \/ j = i
          BY <1>3, <3>1, <4>1, <5>1, <5>2 DEF Turns
        <5> QED BY <5>2, <5>3, <5>4
      <4> QED BY <1>5, <4>4
    <3>2. CASE t = m
      <4>1. h.path[t].obj = i /\ h.path[t].k = 1
        BY <1>8, <1>12, <3>2
      <4>2. e.objs[i].file = d.objs[i].file
        BY <1>5 DEF SameOrd
      <4>3. ObjOk(world, d.objs[i])
        BY <1>2, LoadsIs DEF DInv, Shape
      <4>4. PICK s : s = d.objs[i].file.needs
        OBVIOUS
      <4>5. s \in Seq(Range(s))
        BY <4>3, <4>4 DEF ObjOk, WellFormed
      <4>6. DOMAIN s = 1..Len(s) /\ Len(s) \in Nat
        BY <4>5
      <4>7. k \in 1..Len(s) /\ k < 1
        BY <2>4, <4>1, <4>2, <4>4, <4>6
      <4> QED BY <4>6, <4>7
    <3> QED BY <1>12, <3>1, <3>2
  <2>5. h.at >= h.start /\ h.at > h.start
    <3>1. FrameOk(world, d, c)
      BY <1>1, <1>2, LoadsIs
    <3>2. c.start \in Nat
      BY <3>1 DEF FrameOk, AtOk
    <3> QED BY <1>3, <1>10, <3>2 DEF Turns
  <2> QED BY <2>1, <2>2, <2>3, <2>4, <2>5 DEF SortOrd
<1>21. TopOrd(e, h)
  <2>1. h.ph \in Before /\ c.ph \in Before /\ h.ph \notin Early /\ h.start = c.start
    BY <1>2, <1>10 DEF Before, Early
  <2>2. \A x \in DOMAIN e.objs :
         ~e.objs[x].visited => x \in e.left \/ (h.ph \in Before /\ x >= h.start)
    BY <1>2, <1>5, <2>1 DEF TopOrd
  <2>3. \A x \in DOMAIN e.objs : x >= h.start => e.objs[x].load = h.start
    BY <1>2, <1>5, <2>1 DEF TopOrd, SameOrd
  <2>4. \A x \in DOMAIN e.objs : x >= h.start => x \notin e.left
    BY <1>2, <1>5, <2>1 DEF TopOrd
  <2>5. \A x \in DOMAIN e.objs : x > h.start =>
           \A y \in 2..(x - 1) : NameOf(e, e.objs[y]) # e.objs[x].key
    <3> SUFFICES ASSUME NEW x \in DOMAIN d.objs, x > c.start, NEW y \in 2..(x - 1)
                 PROVE  NameOf(e, e.objs[y]) # e.objs[x].key
      BY <1>5, <2>1
    <3>1. y \in DOMAIN d.objs
      <4>1. DOMAIN d.objs = 1..Len(d.objs) /\ Len(d.objs) \in Nat
        BY <1>2, LoadsIs
      <4> QED BY <4>1
    <3>2. NameOf(d, d.objs[y]) # d.objs[x].key
      BY <1>2, <2>1 DEF TopOrd
    <3> QED BY <1>5, <3>1, <3>2 DEF SameOrd
  <2> QED BY <1>20, <2>1, <2>2, <2>3, <2>4, <2>5 DEF TopOrd
<1>22. RanOk(e, rm) /\ CallsOnly(rm, Items(Top))
  <2>1. RanOk(d, rm) /\ Once(rm)
    BY <1>2, <1>17
  <2> QED BY <1>5, <1>17, <2>1, RanStays DEF CallsOnly
<1>23. \A x \in Items(h) : x \in Items(Top) \/ x \notin DOMAIN d.objs \/ ~d.objs[x].visited
  BY <1>1, <1>14
<1>24. d' = e /\ SetTop(h) /\ ran' = rm
  BY <1>4, <1>6, <1>17
<1> QED BY <1>5, <1>19, <1>21, <1>22, <1>23, <1>24, StepOrd

(* The first object of a load needs all the others, by way of others. *)
LEMMA FirstNeeds ==
  ASSUME NEW dd, IsSeq(dd.objs), dd.left \subseteq DOMAIN dd.objs, LoadsOrd(dd),
         NEW s \in DOMAIN dd.objs, dd.objs[s].load = s,
         \A x \in DOMAIN dd.objs : x >= s => dd.objs[x].load = s,
         NEW i \in DOMAIN dd.objs, i > s
  PROVE  i \in Needs(dd, s)
<1>1. DOMAIN dd.objs = 1..Len(dd.objs) /\ Len(dd.objs) \in Nat
  BY SeqLen
<1>2. PICK T : T = {x \in DOMAIN dd.objs : x > s /\ x \notin Needs(dd, s)}
  OBVIOUS
<1>3. T = {}
  <2> SUFFICES ASSUME T # {} PROVE FALSE
    OBVIOUS
  <2>1. T \in SUBSET Nat
    BY <1>1, <1>2
  <2>2. PICK x \in T : \A y \in T : x <= y
    BY <2>1, SmallestElement
  <2>3. x \in DOMAIN dd.objs /\ x > s /\ x \notin Needs(dd, s)
    BY <1>2, <2>2
  <2>4. dd.objs[x].load = s /\ x # s
    BY <1>1, <2>3
  <2>5. PICK y \in DOMAIN dd.objs : /\ y < x /\ dd.objs[y].load = dd.objs[x].load
                                    /\ Contains(dd.objs[y].file.needs, dd.objs[x].key)
    BY <2>3, <2>4 DEF LoadsOrd
  <2>6. x \in Needed(dd, y)
    BY <1>1, <2>3, <2>5 DEF Needed
  <2>7. y >= s
    BY <1>1, <2>4, <2>5 DEF LoadsOrd
  <2>8. CASE y = s
    BY <2>3, <2>6, <2>8, NeedsIs
  <2>9. CASE y > s
    <3>1. y \notin T
      BY <1>1, <2>2, <2>3, <2>5
    <3>2. y \in Needs(dd, s)
      BY <1>2, <2>9, <3>1
    <3> QED BY <2>3, <2>6, <3>2, NeedsIs
  <2> QED BY <1>1, <2>7, <2>8, <2>9
<1> QED BY <1>2, <1>3

(* An object whose visit has not returned needs those visited from it. *)
LEMMA PathNeeds ==
  ASSUME NEW dd, IsSeq(dd.objs), dd.left \subseteq DOMAIN dd.objs, NEW s, IsSeq(s),
         \A t \in DOMAIN s : t + 1 \in DOMAIN s => s[t + 1].obj \in Needed(dd, s[t].obj) \cup dd.left,
         NEW t \in DOMAIN s, NEW u \in DOMAIN s, t < u
  PROVE  s[u].obj \in Needs(dd, s[t].obj)
<1>1. DOMAIN s = 1..Len(s) /\ Len(s) \in Nat
  BY SeqLen
<1>2. PICK j : j = s[t].obj
  OBVIOUS
<1>3. PICK T : T = {v \in DOMAIN s : v > t /\ s[v].obj \notin Needs(dd, j)}
  OBVIOUS
<1>4. T = {}
  <2> SUFFICES ASSUME T # {} PROVE FALSE
    OBVIOUS
  <2>1. T \in SUBSET Nat
    BY <1>1, <1>3
  <2>2. PICK v \in T : \A y \in T : v <= y
    BY <2>1, SmallestElement
  <2>3. v \in DOMAIN s /\ v > t /\ s[v].obj \notin Needs(dd, j)
    BY <1>3, <2>2
  <2>4. PICK y : y = v - 1
    OBVIOUS
  <2>5. y \in DOMAIN s /\ y + 1 = v /\ y >= t /\ y < v /\ y \in Nat
    BY <1>1, <2>3, <2>4
  <2>6. s[v].obj \in Needed(dd, s[y].obj) \cup dd.left
    BY <2>3, <2>5
  <2>7. s[v].obj \notin dd.left
    BY <2>3, NeedsIs
  <2>8. CASE y = t
    BY <1>2, <2>3, <2>6, <2>7, <2>8, NeedsIs
  <2>9. CASE y > t
    <3>1. y \notin T
      BY <1>1, <2>2, <2>3, <2>5
    <3>2. s[y].obj \in Needs(dd, j)
      BY <1>3, <2>5, <2>9, <3>1
    <3> QED BY <2>3, <2>6, <2>7, <3>2, NeedsIs
  <2> QED BY <1>1, <2>5, <2>8, <2>9
<1> QED BY <1>2, <1>3, <1>4

\* The call of tsort_visit that returns has visited what its object needs.
Returns(dd, c, i, m) ==
    /\ IsSeq(c.path) /\ m = Len(c.path) /\ m \in DOMAIN c.path /\ c.path[m].obj = i
    /\ \A k \in DOMAIN dd.objs[i].file.needs : k < c.path[m].k

(* ... and what it needs of its load is in the list, or needs it. *)
LEMMA ReturnNeeds ==
  ASSUME NEW dd, IsSeq(dd.objs), dd.left \subseteq DOMAIN dd.objs, LoadsOrd(dd), NEW c,
         TopOrd(dd, c), c.ph = "sort", c.start \in DOMAIN dd.objs,
         dd.objs[c.start].load = c.start, OnPath(c) \subseteq DOMAIN dd.objs,
         NEW i, NEW m, Returns(dd, c, i, m),
         NEW j \in Needed(dd, i), j \notin dd.left, j # i, dd.objs[j].load = dd.objs[i].load
  PROVE  j \in Range(c.list) \/ i \in Needs(dd, j)
<1>1. DOMAIN dd.objs = 1..Len(dd.objs) /\ Len(dd.objs) \in Nat
  BY SeqLen
<1>2. SortOrd(dd, c) /\ c.ph \in Before
  BY DEF TopOrd, Before
<1>3. j \in DOMAIN dd.objs
  BY NeedsIs
<1>4. i \in OnPath(c) /\ i \in DOMAIN dd.objs
  BY DEF Returns, OnPath, Range
<1>5. i \notin dd.left
  BY <1>3, <1>4 DEF LoadsOrd
<1>6. i >= c.start
  BY <1>2, <1>4, <1>5 DEF SortOrd
<1>7. \A x \in DOMAIN dd.objs : x >= c.start => dd.objs[x].load = c.start
  BY <1>2 DEF TopOrd
<1>8. dd.objs[j].load = c.start /\ j >= c.start
  BY <1>1, <1>3, <1>4, <1>6, <1>7 DEF LoadsOrd
<1>9. CASE j = c.start
  <2>1. i > c.start
    BY <1>1, <1>4, <1>6, <1>9
  <2> QED BY <1>4, <1>7, <1>9, <2>1, FirstNeeds
<1>10. CASE j > c.start
  <2>1. PICK k \in DOMAIN dd.objs[i].file.needs : dd.objs[i].file.needs[k] = dd.objs[j].key
    BY DEF Needed, Contains
  <2>2. dd.objs[j].visited
    <3>1. k < c.path[m].k /\ m \in DOMAIN c.path /\ c.path[m].obj = i
      BY DEF Returns
    <3>2. k \in DOMAIN dd.objs[c.path[m].obj].file.needs
          /\ dd.objs[j].key = dd.objs[c.path[m].obj].file.needs[k]
      BY <2>1, <3>1
    <3> QED BY <1>2, <1>3, <1>10, <3>1, <3>2 DEF SortOrd
  <2>3. j \in Range(c.list) \cup OnPath(c)
    BY <1>2, <1>3, <1>8, <2>2 DEF SortOrd, Items
  <2>4. CASE j \in OnPath(c)
    <3>1. PICK t \in DOMAIN c.path : c.path[t].obj = j
      BY <2>4 DEF OnPath, Range
    <3>2. DOMAIN c.path = 1..m /\ m \in Nat /\ c.path[m].obj = i /\ m \in DOMAIN c.path
      BY SeqLen DEF Returns
    <3>3. t < m
      BY <3>1, <3>2
    <3>4. PICK s : s = c.path
      OBVIOUS
    <3>5. IsSeq(s) /\ t \in DOMAIN s /\ m \in DOMAIN s /\ s[t].obj = j /\ s[m].obj = i
      BY <3>1, <3>2, <3>4 DEF Returns
    <3>6. \A v \in DOMAIN s : v + 1 \in DOMAIN s =>
            s[v + 1].obj \in Needed(dd, s[v].obj) \cup dd.left
      BY <1>2, <3>4 DEF SortOrd
    <3>7. s[m].obj \in Needs(dd, s[t].obj)
      BY <3>3, <3>5, <3>6, PathNeeds
    <3> QED BY <3>5, <3>7
  <2> QED BY <2>3, <2>4
<1> QED BY <1>1, <1>3, <1>8, <1>9, <1>10

(* tsort_visit returns: the object is the last one of the list. *)
LEMMA LeaveOrd ==
  ASSUME Orderly, Top.ph = "sort", NEW i, NEW m, Returns(d, Top, i, m), Top.path # <<>>,
         d' = d, SetTop(TsortLeave(Top)), ran' = ran
  PROVE  OrdInv'
<1>1. PICK c : c = Top
  OBVIOUS
<1>2. /\ TopOrd(d, c) /\ SortOrd(d, c) /\ FrameOrd(d, ran, c) /\ ItemsIn(d, c) /\ ItemsOk(d, c)
      /\ CalledOk(d, ran, c) /\ c.ph = "sort" /\ Loads /\ FrameOk(world, d, c) /\ LoadsOrd(d)
      /\ IsSeq(d.objs) /\ d.left \subseteq DOMAIN d.objs
  BY <1>1, OrdersAre, LoadsIs DEF TopOrd, SlotsOk
<1>3. Returns(d, c, i, m) /\ c.path # <<>>
  BY <1>1
<1>4. PICK g : g = TsortLeave(c)
  OBVIOUS
<1>5. Last(c.path).obj = i
  BY <1>3 DEF Returns, Last
<1>6. /\ DOMAIN g = FrameFields /\ g.path = Front(c.path) /\ g.list = Plus(c.list, i)
      /\ \A y \in FrameFields \ {"path", "list"} : g[y] = c[y]
  BY <1>2, <1>4, <1>5 DEF TsortLeave, Plus, FrameFields, FrameOk
<1>7. g.ph = "sort" /\ g.start = c.start /\ g.at = c.at
  BY <1>2, <1>6 DEF FrameFields
<1>8. PICK l : l = g.list
  OBVIOUS
<1>9. PICK b : b = c.list
  OBVIOUS
<1>10. PICK e : e = Len(b) + 1
  OBVIOUS
<1>11. /\ IsSeq(b) /\ DOMAIN b = 1..Len(b) /\ Len(b) \in Nat /\ DOMAIN l = 1..e /\ l[e] = i /\ e \in Nat
       /\ e \in DOMAIN l
       /\ \A p \in DOMAIN b : p \in DOMAIN l /\ l[p] = b[p] /\ p < e
       /\ \A p \in DOMAIN l : p \in DOMAIN b \/ p = e
  <2>1. IsSeq(b) /\ l = Plus(b, i)
    BY <1>2, <1>6, <1>8, <1>9 DEF FrameOk
  <2>2. /\ Len(l) = Len(b) + 1 /\ Len(b) \in Nat /\ DOMAIN b = 1..Len(b) /\ DOMAIN l = 1..(Len(b) + 1)
        /\ \A p \in DOMAIN b : p \in DOMAIN l /\ l[p] = b[p]
        /\ l[Len(l)] = i
    BY ONLY <2>1, PlusIs
  <2> QED BY <1>10, <2>1, <2>2
<1>12. /\ DOMAIN c.path = 1..m /\ m \in Nat \ {0} /\ DOMAIN g.path = 1..(m - 1)
       /\ \A t \in DOMAIN g.path : g.path[t] = c.path[t] /\ t \in DOMAIN c.path /\ t # m
  <2>1. IsSeq(c.path) /\ m = Len(c.path) /\ c.path # <<>>
    BY <1>3 DEF Returns
  <2>2. DOMAIN c.path = 1..m /\ m \in Nat /\ m # 0
    BY <2>1, SeqLen
  <2>3. PICK s : s = c.path
    OBVIOUS
  <2>4. PICK q : q = Front(s)
    OBVIOUS
  <2>5. DOMAIN q = 1..(Len(s) - 1) /\ \A t \in 1..(Len(s) - 1) : q[t] = s[t]
    BY <2>1, <2>3, <2>4, SeqFront
  <2> QED BY <1>6, <2>1, <2>2, <2>3, <2>4, <2>5
<1>13. i \in OnPath(c) /\ m \in DOMAIN c.path /\ c.path[m].obj = i
  BY <1>3 DEF Returns, OnPath, Range
<1>14. OnPath(g) = OnPath(c) \ {i}
  <2>1. \A t \in DOMAIN g.path : c.path[t].obj # i
    BY <1>2, <1>12, <1>13 DEF ItemsOk
  <2>2. \A x \in OnPath(g) : x \in OnPath(c) /\ x # i
    BY <1>12, <2>1 DEF OnPath, Range
  <2>3. \A t \in DOMAIN c.path : c.path[t].obj # i => c.path[t].obj \in OnPath(g)
    <3> TAKE t \in DOMAIN c.path
    <3> HAVE c.path[t].obj # i
    <3>1. t # m /\ t \in DOMAIN g.path /\ g.path[t] = c.path[t]
      BY <1>12, <1>13
    <3> QED BY <3>1 DEF OnPath, Range
  <2> QED BY <2>2, <2>3 DEF OnPath, Range
<1>15. Range(l) = Range(b) \cup {i}
  BY <1>11 DEF Range
<1>16. Items(g) = Items(c)
  BY <1>8, <1>9, <1>13, <1>14, <1>15 DEF Items
<1>17. i \notin Range(b)
  BY <1>2, <1>9, <1>13 DEF ItemsOk
<1>18. ItemsOk(d, g)
  <2>1. \A p, q \in DOMAIN l : l[p] = l[q] => p = q
    <3>1. \A p \in DOMAIN b : b[p] # i
      BY <1>17 DEF Range
    <3>2. \A p, q \in DOMAIN b : b[p] = b[q] => p = q
      BY <1>2, <1>9 DEF ItemsOk
    <3> QED BY <1>11, <3>1, <3>2
  <2>2. \A t, u \in DOMAIN g.path : g.path[t].obj = g.path[u].obj => t = u
    BY <1>2, <1>12 DEF ItemsOk
  <2>3. Range(l) \cap OnPath(g) = {}
    BY <1>2, <1>9, <1>14, <1>15 DEF ItemsOk
  <2>4. \A x \in Items(g) : d.objs[x].visited
    BY <1>2, <1>16 DEF ItemsOk
  <2>5. g.ph \notin Early
    BY <1>7 DEF Early
  <2> QED BY <1>7, <1>8, <2>1, <2>2, <2>3, <2>4, <2>5 DEF ItemsOk
<1>19. CalledOk(d, ran, g)
  <2>1. \A k \in Kinds : \A x \in OnPath(c) : ~Ran(ran, k, x)
    BY <1>2 DEF CalledOk
  <2>2. \A k \in Kinds : \A p \in DOMAIN b : ~Ran(ran, k, b[p])
    BY <1>2, <1>9 DEF CalledOk, Todo
  <2>3. \A k \in Kinds : \A p \in DOMAIN l : ~Ran(ran, k, l[p])
    BY <1>11, <1>13, <2>1, <2>2
  <2> QED BY <1>7, <1>8, <1>14, <2>1, <2>3 DEF CalledOk, Todo
<1>20. c.start \in DOMAIN d.objs /\ d.objs[c.start].load = c.start
       /\ OnPath(c) \subseteq DOMAIN d.objs
  BY <1>2 DEF FrameOrd, ItemsIn
<1>21. FrameOrd(d, ran, g)
  <2>1. ASSUME NEW p \in DOMAIN l PROVE NeedsFirst(d, l, p)
    <3>1. SUFFICES ASSUME NEW j \in Needed(d, l[p]) \ (d.left \cup {l[p]}),
                          d.objs[j].load = d.objs[l[p]].load
                   PROVE  (\E q \in DOMAIN l : q < p /\ l[q] = j) \/ l[p] \in Needs(d, j)
      BY DEF NeedsFirst
    <3>2. CASE p \in DOMAIN b
      <4>1. l[p] = b[p] /\ NeedsFirst(d, b, p)
        BY <1>2, <1>9, <1>11, <3>2 DEF FrameOrd
      <4>2. (\E q \in DOMAIN b : q < p /\ b[q] = j) \/ b[p] \in Needs(d, j)
        BY <3>1, <4>1 DEF NeedsFirst
      <4> QED BY <1>11, <4>1, <4>2
    <3>3. CASE p = e
      <4>1. j \in Needed(d, i) /\ j \notin d.left /\ j # i /\ d.objs[j].load = d.objs[i].load
        BY <1>11, <3>1, <3>3
      <4>2. j \in Range(c.list) \/ i \in Needs(d, j)
        <5>1. PICK dd : dd = d
          OBVIOUS
        <5>2. /\ IsSeq(dd.objs) /\ dd.left \subseteq DOMAIN dd.objs /\ LoadsOrd(dd)
              /\ TopOrd(dd, c) /\ c.ph = "sort" /\ c.start \in DOMAIN dd.objs
              /\ dd.objs[c.start].load = c.start /\ OnPath(c) \subseteq DOMAIN dd.objs
              /\ Returns(dd, c, i, m)
              /\ j \in Needed(dd, i) /\ j \notin dd.left /\ j # i /\ dd.objs[j].load = dd.objs[i].load
          BY <1>2, <1>3, <1>20, <4>1, <5>1
        <5>3. j \in Range(c.list) \/ i \in Needs(dd, j)
          BY ONLY <5>2, ReturnNeeds
        <5> QED BY <5>1, <5>3
      <4>3. CASE j \in Range(b)
        BY <1>11, <3>3, <4>3 DEF Range
      <4> QED BY <1>9, <1>11, <3>3, <4>2, <4>3
    <3> QED BY <1>11, <3>2, <3>3
  <2> QED BY <1>7, <1>8, <1>18, <1>19, <1>20, <2>1 DEF FrameOrd
<1>22. SortOrd(d, g)
  <2>1. \A x \in DOMAIN d.objs :
          x >= g.start => IF d.objs[x].visited THEN x \in Items(g) ELSE x >= g.at
    BY <1>2, <1>7, <1>16 DEF SortOrd
  <2>2. g.at >= g.start /\ (DOMAIN g.path # {} => g.at > g.start)
    <3>1. DOMAIN g.path # {} => DOMAIN c.path # {}
      BY <1>13
    <3> QED BY <1>2, <1>7, <3>1 DEF SortOrd
  <2>3. \A x \in OnPath(g) : x \in d.left \/ x >= g.start
    BY <1>2, <1>7, <1>14 DEF SortOrd
  <2>4. \A t \in DOMAIN g.path : t + 1 \in DOMAIN g.path =>
         g.path[t + 1].obj \in Needed(d, g.path[t].obj) \cup d.left
    BY <1>2, <1>12 DEF SortOrd
  <2>5. \A t \in DOMAIN g.path : \A k \in DOMAIN d.objs[g.path[t].obj].file.needs :
         k < g.path[t].k =>
           \A j \in DOMAIN d.objs :
             j > g.start /\ d.objs[j].key = d.objs[g.path[t].obj].file.needs[k]
               => d.objs[j].visited
    <3> TAKE t \in DOMAIN g.path
    <3>1. t \in DOMAIN c.path /\ g.path[t] = c.path[t]
      BY <1>12
    <3>2. PICK n : n = c.path[t]
      OBVIOUS
    <3>3. \A k \in DOMAIN d.objs[n.obj].file.needs :
            k < n.k =>
              \A j \in DOMAIN d.objs :
                j > c.start /\ d.objs[j].key = d.objs[n.obj].file.needs[k] => d.objs[j].visited
      BY <1>2, <3>1, <3>2 DEF SortOrd
    <3> QED BY <1>7, <3>1, <3>2, <3>3
  <2> QED BY <2>1, <2>2, <2>3, <2>4, <2>5 DEF SortOrd
<1>23. TopOrd(d, g)
  <2>1. g.ph \in Before /\ c.ph \in Before /\ g.ph \notin Early
    BY <1>2, <1>7 DEF Before, Early
  <2> QED BY <1>2, <1>7, <1>22, <2>1 DEF TopOrd
<1>24. ItemsIn(d, g)
  BY <1>2, <1>7, <1>8, <1>9, <1>13, <1>14, <1>15 DEF ItemsIn
<1>25. SetTop(g) /\ Items(g) = Items(Top)
  BY <1>1, <1>4, <1>16
<1> QED BY <1>21, <1>23, <1>24, <1>25, SameSelf, TurnOrd

(* The search for what an object needs finds the one that was loaded for it,
   if it is of this load. *)
LEMMA SoughtIs ==
  ASSUME Orderly, Top.ph = "sort", DOMAIN Top.path # {}, NEW n, NEW j \in DOMAIN d.objs,
         j = FindObjectByName(d, n), NEW x, Contains(d.objs[x].file.needs, n)
  PROVE  /\ ~d.objs[j].visited => /\ j \in Needed(d, x) \cup d.left
                                  /\ j \in d.left \/ j >= Top.start
         /\ \A y \in DOMAIN d.objs : y > Top.start /\ d.objs[y].key = n => y = j
<1>1. PICK c : c = Top
  OBVIOUS
<1>2. /\ TopOrd(d, c) /\ SortOrd(d, c) /\ LoadsOrd(d) /\ Loads /\ FrameOk(world, d, c)
      /\ IsSeq(d.objs) /\ DOMAIN d.objs = 1..Len(d.objs) /\ Len(d.objs) \in Nat
      /\ c.ph = "sort" /\ c.ph \in Before
  BY <1>1, OrdersAre, LoadsIs DEF TopOrd, Before
<1>3. c.start \in Nat \ {0} /\ c.at \in Nat /\ c.at > c.start
  BY <1>1, <1>2 DEF FrameOk, AtOk, SortOrd
<1>4. /\ j \in 2..Len(d.objs) /\ NameOf(d, d.objs[j]) = n
      /\ \A y \in 2..(j - 1) : NameOf(d, d.objs[y]) # n
  <2>1. j # 0 /\ j # Unset
    BY <1>2 DEF Unset
  <2> QED BY <1>2, <2>1, FoundIs
<1>5. \A y \in DOMAIN d.objs : y > c.start => NameOf(d, d.objs[y]) = d.objs[y].key
  <2> TAKE y \in DOMAIN d.objs
  <2> HAVE y > c.start
  <2>1. d.objs[y].load = c.start
    BY <1>2, <1>3 DEF TopOrd
  <2>2. d.objs[y].load # y
    BY <1>2, <1>3, <2>1
  <2> QED BY <1>2, <2>2, NameIs
<1>6. ASSUME ~d.objs[j].visited
      PROVE  /\ j \in Needed(d, x) \cup d.left
             /\ j \in d.left \/ j >= c.start
  <2>1. j \in d.left \/ j >= c.start
    BY <1>2, <1>6 DEF TopOrd
  <2>2. CASE j >= c.start
    <3>1. j > c.start
      BY <1>2, <1>3, <1>6, <2>2 DEF SortOrd
    <3>2. d.objs[j].key = n
      BY <1>4, <1>5, <3>1
    <3> QED BY <1>4, <2>1, <3>2 DEF Needed
  <2> QED BY <2>1, <2>2
<1>7. ASSUME NEW y \in DOMAIN d.objs, y > c.start, d.objs[y].key = n
      PROVE  y = j
  <2>1. NameOf(d, d.objs[y]) = n
    BY <1>5, <1>7
  <2>2. ~(y < j)
    <3> SUFFICES ASSUME y < j PROVE FALSE
      OBVIOUS
    <3>1. y \in 2..(j - 1)
      BY <1>2, <1>3, <1>7
    <3> QED BY <1>4, <2>1, <3>1
  <2>3. ~(j < y)
    <3> SUFFICES ASSUME j < y PROVE FALSE
      OBVIOUS
    <3>1. j \in 2..(y - 1)
      BY <1>2, <1>4
    <3>2. NameOf(d, d.objs[j]) # d.objs[y].key
      BY <1>2, <1>7, <3>1 DEF TopOrd
    <3> QED BY <1>4, <1>7, <3>2
  <2> QED BY <1>2, <2>2, <2>3
<1> QED BY <1>1, <1>6, <1>7

(* A visit, of an object that may have been visited. *)
LEMMA VisitOrd ==
  ASSUME Orderly, Top.ph = "sort", NEW g, DOMAIN g = FrameFields, NEW i \in DOMAIN d.objs,
         Turns(Top, g, i), VisitFrom(g, i), ran' = ran
  PROVE  OrdInv'
<1>1. CASE d.objs[i].visited
  <2>1. d' = d /\ SetTop(g)
    BY <1>1 DEF VisitFrom
  <2> QED BY <1>1, <2>1, AgainOrd
<1>2. CASE ~d.objs[i].visited
  <2>1. d' = Mark(d, i) /\ SetTop(TsortEnter(g, i))
    BY <1>2 DEF VisitFrom, Mark
  <2> QED BY <1>2, <2>1, EnterOrd
<1> QED BY <1>1, <1>2

(* All objects have been visited. *)
LEMMA SortedOrd ==
  ASSUME Orderly, Top.ph = "sort", DOMAIN Top = FrameFields, DOMAIN Top.path = {},
         Top.at > Len(d.objs), d' = d, SetTop([Top EXCEPT !.ph = "reloc", !.at = 1]), ran' = ran
  PROVE  OrdInv'
<1>1. PICK c : c = Top
  OBVIOUS
<1>2. /\ TopOrd(d, c) /\ SortOrd(d, c) /\ FrameOrd(d, ran, c) /\ ItemsIn(d, c) /\ ItemsOk(d, c)
      /\ c.ph = "sort" /\ c.ph \in Before /\ Loads /\ FrameOk(world, d, c)
      /\ DOMAIN d.objs = 1..Len(d.objs) /\ Len(d.objs) \in Nat
  BY <1>1, OrdersAre, LoadsIs DEF TopOrd, Before
<1>3. PICK g : g = [c EXCEPT !.ph = "reloc", !.at = 1]
  OBVIOUS
<1>4. /\ g.ph = "reloc" /\ g.at = 1 /\ g.start = c.start /\ g.list = c.list /\ g.path = c.path
  BY <1>1, <1>3 DEF FrameFields
<1>5. \A p \in DOMAIN c.list : p \in Nat \ {0}
  <2>1. IsSeq(c.list)
    BY <1>2 DEF FrameOk
  <2>2. DOMAIN c.list = 1..Len(c.list)
    BY <2>1, SeqLen
  <2> QED BY <2>2
<1>6. \A k \in Kinds : \A p \in DOMAIN c.list : Todo(g, k, p) <=> Todo(c, k, p)
  BY <1>2, <1>4, <1>5 DEF Todo
<1>7. g.ph \notin Before /\ g.ph \notin Early /\ g.ph # "sort"
  BY <1>4 DEF Before, Early
<1>8. FrameOrd(d, ran, g) /\ Items(g) = Items(c)
  <2>1. PICK rn : rn = ran
    OBVIOUS
  <2>2. FrameOrd(d, rn, c) /\ c.ph # "open" /\ DOMAIN c.path = {}
    BY <1>1, <1>2, <2>1
  <2>3. FrameOrd(d, rn, g) /\ Items(g) = Items(c)
    BY <1>4, <1>6, <1>7, <2>2, FrameTurned
  <2> QED BY <2>1, <2>3
<1>9. TopOrd(d, g)
  <2>1. \A x \in DOMAIN d.objs : ~d.objs[x].visited => x \in d.left
    <3> SUFFICES ASSUME NEW x \in DOMAIN d.objs, ~d.objs[x].visited PROVE x \in d.left
      OBVIOUS
    <3>1. x \in d.left \/ x >= c.start
      BY <1>2 DEF TopOrd
    <3>2. x >= c.start => x >= c.at
      BY <1>2 DEF SortOrd
    <3>3. c.at \in Nat
      BY <1>2 DEF FrameOk, AtOk
    <3> QED BY <1>1, <1>2, <3>1, <3>2, <3>3
  <2>2. \A x \in DOMAIN d.objs : x >= g.start => d.objs[x].load = g.start
    BY <1>2, <1>4 DEF TopOrd
  <2> QED BY <1>7, <2>1, <2>2 DEF TopOrd
<1>10. ItemsIn(d, g)
  <2>1. OnPath(g) = OnPath(c)
    BY <1>4 DEF OnPath
  <2> QED BY <1>2, <1>4, <2>1 DEF ItemsIn
<1>11. SetTop(g) /\ Items(g) = Items(Top)
  BY <1>1, <1>3, <1>8
<1> QED BY <1>8, <1>9, <1>10, <1>11, SameSelf, TurnOrd

(* One turn of the sort *)
LEMMA TsortOrd ==
  ASSUME Inv, OrdInv, Tsort
  PROVE  OrdInv'
<1>1. Orderly /\ Top.ph = "sort" /\ DOMAIN Top = FrameFields /\ Loads /\ ran' = ran
  BY InOrderly DEF Tsort
<1>2. PICK fr : fr = Top
  OBVIOUS
<1>3. /\ FrameOk(world, d, fr) /\ DInv(world, d) /\ IsSeq(d.objs)
      /\ DOMAIN d.objs = 1..Len(d.objs) /\ Len(d.objs) \in Nat \ {0}
      /\ TopOrd(d, fr) /\ SortOrd(d, fr) /\ ItemsIn(d, fr)
  BY <1>1, <1>2, OrdersAre, LoadsIs DEF TopOrd
<1>4. /\ DOMAIN fr = FrameFields /\ fr.ph = "sort" /\ IsSeq(fr.path)
      /\ fr.start \in Nat \ {0} /\ fr.at \in Nat \ {0}
  BY <1>1, <1>2, <1>3 DEF FrameOk, AtOk
<1>5. PICK top : top = Last(fr.path)
  OBVIOUS
<1>6. PICK needs : needs = d.objs[top.obj].file.needs
  OBVIOUS
<1>7. PICK n : n = needs[top.k]
  OBVIOUS
<1>8. PICK j : j = FindObjectByName(d, n)
  OBVIOUS
<1>9. PICK next : next = [fr EXCEPT !.path[Len(fr.path)].k = @ + 1]
  OBVIOUS
<1>10. CASE fr.path = <<>> /\ fr.at > Len(d.objs)
  <2>1. PICK g : g = [fr EXCEPT !.ph = "reloc", !.at = 1]
    OBVIOUS
  <2>2. d' = d /\ SetTop(g)
    <3>1. fr.path = <<>> /\ ~(fr.at <= Len(d.objs)) /\ fr.at > Len(d.objs)
      BY <1>3, <1>4, <1>10
    <3> QED BY <1>2, <2>1, <3>1 DEF Tsort
  <2>3. DOMAIN fr.path = {}
    BY <1>10
  <2>4. DOMAIN Top.path = {} /\ Top.at > Len(d.objs) /\ SetTop([Top EXCEPT !.ph = "reloc", !.at = 1])
    BY <1>2, <1>10, <2>1, <2>2, <2>3
  <2> QED BY <1>1, <2>2, <2>4, SortedOrd
<1>11. CASE fr.path = <<>> /\ fr.at <= Len(d.objs)
  <2>1. PICK g : g = [fr EXCEPT !.at = @ + 1]
    OBVIOUS
  <2>2. PICK i : i = fr.at
    OBVIOUS
  <2>3. VisitFrom(g, i)
    BY <1>2, <1>3, <1>4, <1>11, <2>1, <2>2 DEF Tsort, VisitFrom
  <2>4. /\ DOMAIN g = FrameFields /\ g.at = fr.at + 1 /\ g.ph = fr.ph /\ g.start = fr.start
        /\ g.list = fr.list /\ g.path = fr.path
    BY <1>4, <2>1 DEF FrameFields
  <2>5. i \in DOMAIN d.objs /\ i >= fr.start
    BY <1>3, <1>4, <1>11, <2>2 DEF SortOrd
  <2>6. DOMAIN fr.path = {}
    BY <1>11
  <2>7. \A x \in DOMAIN d.objs : x >= fr.start /\ ~d.objs[x].visited => x >= g.at \/ x = i
    <3> TAKE x \in DOMAIN d.objs
    <3> HAVE x >= fr.start /\ ~d.objs[x].visited
    <3>1. x >= fr.at
      BY <1>3 DEF SortOrd
    <3> QED BY <1>3, <1>4, <2>2, <2>4, <3>1
  <2>8. g.at \in Nat /\ g.at > g.start
    BY <1>4, <2>2, <2>4, <2>5
  <2>9. Turns(fr, g, i)
    BY <1>4, <2>4, <2>5, <2>6, <2>7, <2>8 DEF Turns
  <2> QED BY <1>1, <1>2, <2>3, <2>4, <2>5, <2>9, VisitOrd
<1>12. CASE fr.path # <<>>
  <2>1. PICK m : m = Len(fr.path)
    OBVIOUS
  <2>2. top \in Range(fr.path) /\ m \in DOMAIN fr.path /\ top = fr.path[m]
        /\ DOMAIN fr.path = 1..m /\ m \in Nat
    BY <1>4, <1>5, <1>12, <2>1, LastIs, SeqLen
  <2>3. top.obj \in DOMAIN d.objs /\ top.k \in Nat \ {0} /\ DOMAIN top = {"obj", "k"}
    BY <1>3, <2>2 DEF FrameOk, NodeOk
  <2>4. needs \in Seq(Range(needs))
    BY <1>3, <1>6, <2>3 DEF DInv, Shape, ObjOk, WellFormed
  <2>5. Len(needs) \in Nat /\ DOMAIN needs = 1..Len(needs)
    BY <2>4
  <2>6. \/ top.k > Len(needs) /\ d' = d /\ SetTop(TsortLeave(fr))
        \/ ~(top.k > Len(needs)) /\ j > 0 /\ VisitFrom(next, j)
        \/ Die(d, "assert")
        \/ Die(d, "stale")
    BY <1>2, <1>5, <1>6, <1>7, <1>8, <1>9, <1>12 DEF Tsort, VisitFrom
  <2>7. CASE top.k > Len(needs) /\ d' = d /\ SetTop(TsortLeave(fr))
    <3>1. PICK i : i = top.obj
      OBVIOUS
    <3>2. \A k \in DOMAIN d.objs[i].file.needs : k < fr.path[m].k
      <4>1. \A k \in DOMAIN needs : k < top.k
        BY <2>3, <2>5, <2>7
      <4> QED BY <1>6, <2>2, <3>1, <4>1
    <3>3. Returns(d, fr, i, m)
      BY <1>4, <2>1, <2>2, <3>1, <3>2 DEF Returns
    <3> QED BY <1>1, <1>2, <1>12, <2>7, <3>3, LeaveOrd
  <2>8. CASE ~(top.k > Len(needs)) /\ j > 0 /\ VisitFrom(next, j)
    <3>1. j \in DOMAIN d.objs
      <4>1. j = 0 \/ j = Unset \/ (j \in DOMAIN d.objs /\ j \in Nat /\ j > 1)
        BY <1>3, <1>8, FindIs
      <4> QED BY <2>8, <4>1 DEF Unset
    <3>2. top.k \in DOMAIN needs /\ Contains(needs, n)
      <4>1. top.k \in DOMAIN needs
        BY <2>3, <2>5, <2>8
      <4> QED BY <1>7, <4>1 DEF Contains
    <3>3. DOMAIN fr.path # {}
      BY <2>2
    <3>4. PICK x : x = top.obj
      OBVIOUS
    <3>5. /\ ~d.objs[j].visited => /\ j \in Needed(d, x) \cup d.left
                                   /\ j \in d.left \/ j >= fr.start
          /\ \A y \in DOMAIN d.objs : y > fr.start /\ d.objs[y].key = n => y = j
      <4>1. Contains(d.objs[x].file.needs, n) /\ DOMAIN Top.path # {}
        BY <1>2, <1>6, <3>2, <3>3, <3>4
      <4> QED BY <1>1, <1>2, <1>8, <3>1, <4>1, SoughtIs
    <3>6. PICK w : w = [top EXCEPT !.k = @ + 1]
      OBVIOUS
    <3>7. w.obj = x /\ w.k = top.k + 1
      BY <2>3, <3>4, <3>6
    <3>8. PICK q : q = Put(fr.path, m, w)
      OBVIOUS
    <3>9. /\ IsSeq(q) /\ DOMAIN q = DOMAIN fr.path /\ q[m] = w
          /\ \A t \in DOMAIN fr.path : t # m => q[t] = fr.path[t]
      BY <1>4, <2>2, <3>8, SeqExcept
    <3>10. /\ DOMAIN next = FrameFields /\ next.path = q
           /\ \A y \in FrameFields \ {"path"} : next[y] = fr[y]
      BY <1>4, <1>9, <2>1, <2>2, <3>6, <3>8 DEF Put, FrameFields
    <3>11. next.ph = fr.ph /\ next.start = fr.start /\ next.at = fr.at /\ next.list = fr.list
      BY <3>10 DEF FrameFields
    <3>12. \A t \in DOMAIN fr.path : q[t].obj = fr.path[t].obj
      BY <2>2, <3>4, <3>7, <3>9
    <3>13. \A y \in DOMAIN d.objs : y >= fr.start /\ ~d.objs[y].visited => y >= next.at
      BY <1>3, <3>11 DEF SortOrd
    <3>14. next.at \in Nat /\ next.at > next.start
      BY <1>3, <1>4, <3>3, <3>11 DEF SortOrd
    <3>15. ASSUME NEW t \in DOMAIN fr.path, NEW k \in DOMAIN d.objs[fr.path[t].obj].file.needs,
                  k < q[t].k, NEW y \in DOMAIN d.objs, y > fr.start,
                  d.objs[y].key = d.objs[fr.path[t].obj].file.needs[k]
           PROVE  d.objs[y].visited \/ y = j
      <4>1. PICK f : f = d.objs[fr.path[t].obj].file.needs
        OBVIOUS
      <4>2. k < fr.path[t].k => d.objs[y].visited
        <5>1. PICK z : z = fr.path[t]
          OBVIOUS
        <5>2. \A v \in DOMAIN d.objs[z.obj].file.needs : v < z.k =>
                \A u \in DOMAIN d.objs :
                  u > fr.start /\ d.objs[u].key = d.objs[z.obj].file.needs[v] => d.objs[u].visited
          BY <1>3, <5>1 DEF SortOrd
        <5> QED BY <3>15, <5>1, <5>2
      <4>3. CASE t # m
        BY <3>9, <3>15, <4>2, <4>3
      <4>4. CASE t = m
        <5>1. f = needs /\ k \in DOMAIN needs /\ k \in Nat /\ fr.path[t].k = top.k
          <6>1. f = needs /\ fr.path[t].k = top.k
            BY <1>6, <2>2, <4>1, <4>4
          <6>2. k \in DOMAIN f
            BY <3>15, <4>1
          <6>3. k \in DOMAIN needs
            BY <6>1, <6>2
          <6> QED BY <2>5, <6>1, <6>3
        <5>2. k < top.k + 1
          BY <3>7, <3>9, <3>15, <4>4
        <5>3. k < top.k \/ k = top.k
          BY <2>3, <5>1, <5>2
        <5>4. k = top.k => d.objs[y].key = n
          BY <1>7, <3>15, <4>1, <5>1
        <5> QED BY <3>5, <3>15, <4>2, <5>1, <5>3, <5>4
      <4> QED BY <4>3, <4>4
    <3>16. Turns(fr, next, j)
      <4>1. ~d.objs[j].visited =>
              /\ j \in d.left \/ j >= fr.start
              /\ DOMAIN fr.path # {} => j \in Needed(d, fr.path[Len(fr.path)].obj) \cup d.left
        BY <2>1, <2>2, <3>4, <3>5
      <4>2. \A t \in DOMAIN fr.path : \A k \in DOMAIN d.objs[fr.path[t].obj].file.needs :
              k < next.path[t].k =>
                \A y \in DOMAIN d.objs :
                  y > fr.start /\ d.objs[y].key = d.objs[fr.path[t].obj].file.needs[k]
                    => d.objs[y].visited \/ y = j
        BY <3>10, <3>15
      <4> QED BY <1>4, <3>9, <3>10, <3>11, <3>12, <3>13, <3>14, <4>1, <4>2 DEF Turns
    <3> QED BY <1>1, <1>2, <2>8, <3>1, <3>10, <3>16, VisitOrd
  <2>9. CASE Die(d, "assert") \/ Die(d, "stale")
    BY <1>1, <2>9, DieOrd
  <2> QED BY <2>6, <2>7, <2>8, <2>9
<1> QED BY <1>3, <1>4, <1>10, <1>11, <1>12

Late == {"reloc", "ctor", "main"}

(* The innermost load goes on among the init functions. *)
LEMMA LateTurn ==
  ASSUME Orderly, NEW e, Same(d, e), NEW g, Moved(Top, g, RunFields), Top.ph \in Late,
         g.ph \in Late, g.ph = "reloc" => Top.ph = "reloc"
  PROVE  /\ TopOrd(e, g) /\ ItemsIn(d, g) /\ Items(g) = Items(Top)
         /\ g.start = Top.start /\ g.list = Top.list /\ g.path = Top.path
<1>1. PICK c : c = Top
  OBVIOUS
<1>2. g.start = c.start /\ g.list = c.list /\ g.path = c.path
  BY <1>1 DEF Moved, RunFields, FrameFields
<1>3. TopOrd(d, c) /\ ItemsIn(d, c) /\ IsSeq(d.objs)
  BY <1>1, OrdersAre, LoadsIs
<1>4. /\ c.ph \notin Before /\ g.ph \notin Before /\ g.ph # "sort" /\ g.ph \notin Early
      /\ g.ph = "reloc" => c.ph = "reloc"
      /\ g.ph # "open" /\ c.ph # "open"
  BY <1>1 DEF Late, Before, Early
<1>5. TopOrd(e, g)
  BY <1>2, <1>3, <1>4, TopTurned
<1>6. Items(g) = Items(c) /\ ItemsIn(d, g)
  BY <1>2, <1>3, <1>4 DEF Items, OnPath, ItemsIn
<1> QED BY <1>1, <1>2, <1>5, <1>6

(* ... and nothing is called. *)
LEMMA LateOrd ==
  ASSUME Orderly, NEW e, Same(d, e), NEW g, Moved(Top, g, RunFields), Top.ph \in Late,
         g.ph \in Late, g.ph = "reloc" => Top.ph = "reloc", d' = e, SetTop(g), ran' = ran,
         \A k \in Kinds : \A p \in DOMAIN Top.list : Todo(g, k, p) <=> Todo(Top, k, p)
  PROVE  OrdInv'
<1>1. PICK c : c = Top
  OBVIOUS
<1>2. /\ TopOrd(e, g) /\ ItemsIn(d, g) /\ Items(g) = Items(Top)
      /\ g.start = c.start /\ g.list = c.list /\ g.path = c.path
  BY <1>1, LateTurn
<1>3. PICK rn : rn = ran
  OBVIOUS
<1>4. FrameOrd(d, rn, c)
  BY <1>1, <1>3, OrdersAre
<1>5. c.ph # "open" /\ c.ph # "sort" /\ g.ph \notin Early
  BY <1>1 DEF Late, Early, Before
<1>6. \A k \in Kinds : \A p \in DOMAIN c.list : Todo(g, k, p) <=> Todo(c, k, p)
  BY <1>1
<1>7. FrameOrd(d, rn, g)
  BY <1>2, <1>4, <1>5, <1>6, FrameTurned
<1>8. FrameOrd(d, ran, g)
  BY <1>3, <1>7
<1> QED BY <1>2, <1>8, TurnOrd

(* The next init function: all that its object waits for has been called. *)
LEMMA CalledNext ==
  ASSUME Orderly, NEW k \in Kinds, Top.ph = k, ~Top.run, Top.at \in DOMAIN Top.list,
         NEW i, i = Top.list[Top.at], NEW rm, rm = Plus(ran, <<k, i>>),
         Wants(d.objs[i].file, k)
  PROVE  /\ CallsOnly(rm, {i}) /\ RanOk(d, rm)
         /\ \A l \in Kinds : \A j : Ran(rm, l, j) <=> Ran(ran, l, j) \/ (l = k /\ j = i)
<1>1. PICK rn : rn = ran
  OBVIOUS
<1>2. PICK c : c = Top
  OBVIOUS
<1>3. /\ Once(rn) /\ RanOk(d, rn) /\ FrameOrd(d, rn, c) /\ ItemsIn(d, c) /\ ItemsOk(d, c)
      /\ CalledOk(d, rn, c) /\ FrameOk(world, d, c)
  BY <1>1, <1>2, OrdersAre, LoadsIs
<1>4. IsSeq(rn) /\ rm = Plus(rn, <<k, i>>)
  BY <1>1, <1>3 DEF Once
<1>5. PICK v : v = <<k, i>>
  OBVIOUS
<1>6. rm = Plus(rn, v)
  BY <1>4, <1>5
<1>7. /\ IsSeq(rm) /\ Len(rn) \in Nat /\ Len(rm) = Len(rn) + 1
      /\ DOMAIN rn = 1..Len(rn) /\ DOMAIN rm = 1..(Len(rn) + 1)
      /\ \A x \in DOMAIN rn : x \in DOMAIN rm /\ rm[x] = rn[x] /\ x < Len(rm)
      /\ rm[Len(rm)] = v /\ Len(rm) \in DOMAIN rm
      /\ \A x \in DOMAIN rm : x \in DOMAIN rn \/ x = Len(rm)
  BY ONLY <1>4, <1>6, PlusIs
<1>8. v[1] = k /\ v[2] = i
  BY <1>5
<1>9. PICK at : at = Top.at
  OBVIOUS
<1>10. /\ at \in DOMAIN c.list /\ i = c.list[at] /\ c.at = at /\ c.ph = k /\ ~c.run
       /\ IsSeq(c.list) /\ at \in Nat \ {0}
  BY <1>2, <1>3, <1>9 DEF FrameOk, AtOk
<1>11. Todo(c, k, at)
  BY <1>10 DEF Todo, Kinds
<1>12. ~Ran(rn, k, i)
  BY <1>3, <1>10, <1>11 DEF CalledOk
<1>13. i \in DOMAIN d.objs /\ d.objs[i].visited
  <2>1. i \in Items(c) /\ i \in Range(c.list)
    BY <1>10 DEF Items, Range
  <2> QED BY <1>3, <2>1 DEF ItemsOk, ItemsIn
<1>14. \A l, j : Ran(rm, l, j) <=> Ran(rn, l, j) \/ (l = k /\ j = i)
  <2> TAKE l, j
  <2>1. ASSUME Ran(rm, l, j) PROVE Ran(rn, l, j) \/ (l = k /\ j = i)
    <3>1. PICK x \in DOMAIN rm : rm[x] = <<l, j>>
      BY <2>1 DEF Ran, Range
    <3>2. CASE x \in DOMAIN rn
      BY <1>7, <3>1, <3>2 DEF Ran, Range
    <3>3. CASE x = Len(rm)
      <4>1. <<l, j>> = <<k, i>>
        BY <1>5, <1>7, <3>1, <3>3
      <4> QED BY <4>1
    <3> QED BY <1>7, <3>2, <3>3
  <2>2. ASSUME Ran(rn, l, j) PROVE Ran(rm, l, j)
    <3>1. PICK x \in DOMAIN rn : rn[x] = <<l, j>>
      BY <2>2 DEF Ran, Range
    <3>2. x \in DOMAIN rm /\ rm[x] = <<l, j>>
      BY <1>7, <3>1
    <3> QED BY <3>2 DEF Ran, Range
  <2>3. ASSUME l = k, j = i PROVE Ran(rm, l, j)
    <3>1. Len(rm) \in DOMAIN rm /\ rm[Len(rm)] = <<l, j>>
      BY <1>5, <1>7, <2>3
    <3> QED BY <3>1 DEF Ran, Range
  <2> QED BY <2>1, <2>2, <2>3
<1>15. Once(rm)
  <2>1. ASSUME NEW p \in DOMAIN rn
        PROVE  rm[p] # v
    <3>1. rn[p] # <<k, i>>
      BY <1>12 DEF Ran, Range
    <3> QED BY <1>5, <1>7, <3>1
  <2>2. \A p, q \in DOMAIN rn : rm[p] = rm[q] => p = q
    BY <1>3, <1>7 DEF Once
  <2>3. \A p, q \in DOMAIN rm : rm[p] = rm[q] => p = q
    BY <1>7, <2>1, <2>2
  <2> QED BY <1>7, <2>3 DEF Once
<1>16. CallsOnly(rm, {i})
  BY <1>1, <1>14, <1>15 DEF CallsOnly
<1>17. \A p \in DOMAIN rn : \A q \in 1..p : rm[q] = rn[q]
  <2> TAKE p \in DOMAIN rn
  <2> TAKE q \in 1..p
  <2>1. p \in 1..Len(rn)
    BY <1>7
  <2>2. q \in 1..Len(rn)
    BY <1>7, <2>1
  <2> QED BY <1>7, <2>2
<1>18. PICK n : n = Len(rm)
  OBVIOUS
<1>19. n \in DOMAIN rm /\ rm[n] = v /\ \A x \in DOMAIN rn : x \in 1..n /\ rm[x] = rn[x]
  BY <1>7, <1>18
<1>20. ASSUME k = "ctor"
       PROVE  /\ d.objs[i].file.reloc # "none" => \E q \in 1..n : rm[q] = <<"reloc", i>>
              /\ \A j \in Needed(d, i) \ (d.left \cup {i}) :
                   d.objs[j].load = d.objs[i].load /\ d.objs[j].file.ctor =>
                     (\E q \in 1..n : rm[q] = <<"ctor", j>>) \/ i \in Needs(d, j)
  <2>1. ASSUME d.objs[i].file.reloc # "none"
        PROVE  \E q \in 1..n : rm[q] = <<"reloc", i>>
    <3>1. ~Todo(c, "reloc", at) /\ Wants(d.objs[i].file, "reloc") /\ "reloc" \in Kinds
      BY <1>10, <1>20, <2>1 DEF Todo, Wants, Kinds
    <3>2. Ran(rn, "reloc", i)
      BY <1>3, <1>10, <3>1 DEF CalledOk
    <3>3. PICK q \in DOMAIN rn : rn[q] = <<"reloc", i>>
      BY <3>2 DEF Ran, Range
    <3> QED BY <1>19, <3>3
  <2>2. ASSUME NEW j \in Needed(d, i) \ (d.left \cup {i}), d.objs[j].load = d.objs[i].load,
               d.objs[j].file.ctor
        PROVE  (\E q \in 1..n : rm[q] = <<"ctor", j>>) \/ i \in Needs(d, j)
    <3>1. PICK s : s = c.list
      OBVIOUS
    <3>2. NeedsFirst(d, s, at) /\ s[at] = i
      BY <1>3, <1>10, <3>1 DEF FrameOrd
    <3>3. (\E q \in DOMAIN s : q < at /\ s[q] = j) \/ i \in Needs(d, j)
      BY <2>2, <3>2 DEF NeedsFirst
    <3>4. ASSUME NEW q \in DOMAIN s, q < at, s[q] = j
          PROVE  \E x \in 1..n : rm[x] = <<"ctor", j>>
      <4>1. q \in Nat /\ ~(q > at) /\ q # at
        <5>1. IsSeq(s)
          BY <1>10, <3>1
        <5>2. q \in Nat
          BY <3>4, <5>1, SeqLen
        <5> QED BY <1>10, <3>4, <5>2
      <4>2. ~Todo(c, "ctor", q) /\ "ctor" \in Kinds
        BY <1>10, <1>20, <4>1 DEF Todo, Kinds
      <4>3. Wants(d.objs[j].file, "ctor")
        BY <2>2 DEF Wants
      <4>4. Ran(rn, "ctor", j)
        BY <1>3, <3>1, <3>4, <4>2, <4>3 DEF CalledOk
      <4>5. PICK x \in DOMAIN rn : rn[x] = <<"ctor", j>>
        BY <4>4 DEF Ran, Range
      <4> QED BY <1>19, <4>5
    <3> QED BY <3>3, <3>4
  <2> QED BY <2>1, <2>2
<1>21. RanOk(d, rm)
  <2>1. ASSUME NEW p \in DOMAIN rm, NEW x, x = rm[p][2]
        PROVE  /\ x \in DOMAIN d.objs /\ d.objs[x].visited
               /\ rm[p][1] = "ctor" =>
                    /\ d.objs[x].file.reloc # "none" => \E q \in 1..p : rm[q] = <<"reloc", x>>
                    /\ \A j \in Needed(d, x) \ (d.left \cup {x}) :
                         d.objs[j].load = d.objs[x].load /\ d.objs[j].file.ctor =>
                           (\E q \in 1..p : rm[q] = <<"ctor", j>>) \/ x \in Needs(d, j)
    <3>1. CASE p = n
      <4>1. rm[p] = v
        BY <1>19, <3>1
      <4>2. x = i /\ rm[p][1] = k
        BY <1>8, <2>1, <4>1
      <4> QED BY <1>13, <1>20, <3>1, <4>2
    <3>2. CASE p \in DOMAIN rn
      <4>1. rn[p] = rm[p] /\ \A q \in 1..p : rm[q] = rn[q]
        BY <1>17, <1>19, <3>2
      <4>2. /\ x \in DOMAIN d.objs /\ d.objs[x].visited
            /\ rn[p][1] = "ctor" =>
                 /\ d.objs[x].file.reloc # "none" => \E q \in 1..p : rn[q] = <<"reloc", x>>
                 /\ \A j \in Needed(d, x) \ (d.left \cup {x}) :
                      d.objs[j].load = d.objs[x].load /\ d.objs[j].file.ctor =>
                        (\E q \in 1..p : rn[q] = <<"ctor", j>>) \/ x \in Needs(d, j)
        BY <1>3, <2>1, <3>2, <4>1 DEF RanOk
      <4> QED BY <4>1, <4>2
    <3> QED BY <1>7, <1>18, <3>1, <3>2
  <2>2. ASSUME NEW p \in DOMAIN rm
        PROVE  LET x == rm[p][2] IN
               /\ x \in DOMAIN d.objs /\ d.objs[x].visited
               /\ rm[p][1] = "ctor" =>
                    /\ d.objs[x].file.reloc # "none" => \E q \in 1..p : rm[q] = <<"reloc", x>>
                    /\ \A j \in Needed(d, x) \ (d.left \cup {x}) :
                         d.objs[j].load = d.objs[x].load /\ d.objs[j].file.ctor =>
                           (\E q \in 1..p : rm[q] = <<"ctor", j>>) \/ x \in Needs(d, j)
    <3>1. PICK x : x = rm[p][2]
      OBVIOUS
    <3> QED BY <2>1, <3>1
  <2> QED BY <2>2 DEF RanOk
<1> QED BY <1>1, <1>14, <1>16, <1>21

\* The calls with that of an init function of an object, if it has one
Called(k, i) == IF Wants(d.objs[i].file, k) THEN Plus(ran, <<k, i>>) ELSE ran

(* They are in order. *)
LEMMA CalledIs ==
  ASSUME Orderly, NEW k \in Kinds, Top.ph = k, ~Top.run, Top.at \in DOMAIN Top.list,
         NEW i, i = Top.list[Top.at], NEW rm, rm = Called(k, i)
  PROVE  /\ CallsOnly(rm, Items(Top)) /\ RanOk(d, rm)
         /\ \A l \in Kinds : \A j :
              Ran(rm, l, j) <=> Ran(ran, l, j) \/ (l = k /\ j = i /\ Wants(d.objs[i].file, k))
<1>1. i \in Items(Top)
  BY DEF Items, Range
<1>2. CASE Wants(d.objs[i].file, k)
  <2>1. rm = Plus(ran, <<k, i>>)
    BY <1>2 DEF Called
  <2>2. /\ CallsOnly(rm, {i}) /\ RanOk(d, rm)
        /\ \A l \in Kinds : \A j : Ran(rm, l, j) <=> Ran(ran, l, j) \/ (l = k /\ j = i)
    BY <1>2, <2>1, CalledNext
  <2>3. CallsOnly(rm, Items(Top))
    BY <1>1, <2>2 DEF CallsOnly
  <2> QED BY <1>2, <2>2, <2>3
<1>3. CASE ~Wants(d.objs[i].file, k)
  <2>1. rm = ran
    BY <1>3 DEF Called
  <2>2. CallsOnly(rm, Items(Top)) /\ RanOk(d, rm)
    BY <2>1, OrdersAre DEF CallsOnly
  <2> QED BY <1>3, <2>1, <2>2
<1> QED BY <1>2, <1>3

(* The load goes on behind that init function. *)
LEMMA CalledOrd ==
  ASSUME Orderly, NEW k \in Kinds, Top.ph = k, ~Top.run, Top.at \in DOMAIN Top.list,
         NEW i, i = Top.list[Top.at], NEW rm, rm = Called(k, i), ran' = rm,
         NEW g, Moved(Top, g, RunFields), g.ph = k, d' = d, SetTop(g),
         \A l \in Kinds : \A p \in DOMAIN Top.list :
           Todo(g, l, p) <=> Todo(Top, l, p) /\ ~(l = k /\ p = Top.at)
  PROVE  OrdInv'
<1>1. PICK c : c = Top
  OBVIOUS
<1>2. PICK rn : rn = ran
  OBVIOUS
<1>3. Top.ph \in Late /\ g.ph \in Late /\ (g.ph = "reloc" => Top.ph = "reloc")
  BY DEF Late, Kinds
<1>4. Same(d, d) /\ Kin(d, d) /\ d.status = d.status /\ LoadsOrd(d)
  BY SameSelf, SameStep
<1>5. /\ TopOrd(d, g) /\ Items(g) = Items(Top)
      /\ g.start = c.start /\ g.list = c.list /\ g.path = c.path
  BY <1>1, <1>3, <1>4, LateTurn
<1>6. /\ CallsOnly(rm, Items(Top)) /\ RanOk(d, rm)
      /\ \A l \in Kinds : \A j :
           Ran(rm, l, j) <=> Ran(rn, l, j) \/ (l = k /\ j = i /\ Wants(d.objs[i].file, k))
  BY <1>2, CalledIs
<1>7. FrameOrd(d, rn, c) /\ ItemsOk(d, c) /\ CalledOk(d, rn, c)
  BY <1>1, <1>2, OrdersAre
<1>8. c.ph # "open" /\ c.ph # "sort" /\ g.ph \notin Early /\ g.ph # "sort"
  BY <1>1, <1>3 DEF Late, Early, Before
<1>9. DOMAIN c.path = {} /\ OnPath(g) = {}
  <2>1. DOMAIN c.path = {}
    BY <1>7, <1>8 DEF ItemsOk
  <2> QED BY <1>5, <2>1 DEF OnPath, Range
<1>10. ItemsOk(d, g)
  BY <1>1, <1>5, <1>7, <1>8, <1>9 DEF ItemsOk
<1>11. CalledOk(d, rm, g)
  <2> SUFFICES ASSUME NEW l \in Kinds, NEW p \in DOMAIN c.list
               PROVE  /\ Todo(g, l, p) => ~Ran(rm, l, c.list[p])
                      /\ ~Todo(g, l, p) /\ Wants(d.objs[c.list[p]].file, l)
                           => Ran(rm, l, c.list[p])
    BY <1>5, <1>9 DEF CalledOk
  <2>1. PICK j : j = c.list[p]
    OBVIOUS
  <2>2. /\ Todo(c, l, p) => ~Ran(rn, l, j)
        /\ ~Todo(c, l, p) /\ Wants(d.objs[j].file, l) => Ran(rn, l, j)
    BY <1>7, <2>1 DEF CalledOk
  <2>3. j = i => p = Top.at
    BY <1>1, <1>7, <2>1 DEF ItemsOk
  <2>4. p = Top.at => j = i
    BY <1>1, <2>1
  <2>5. Todo(g, l, p) <=> Todo(c, l, p) /\ ~(l = k /\ p = Top.at)
    BY <1>1
  <2>6. Ran(rm, l, j) <=> Ran(rn, l, j) \/ (l = k /\ j = i /\ Wants(d.objs[i].file, k))
    BY <1>6
  <2> QED BY <2>1, <2>2, <2>3, <2>4, <2>5, <2>6
<1>12. FrameOrd(d, rm, g)
  BY <1>5, <1>7, <1>8, <1>10, <1>11 DEF FrameOrd
<1>13. \A j \in Items(g) : j \in Items(Top)
  BY <1>5
<1> QED BY <1>4, <1>5, <1>6, <1>12, <1>13, StepOrd

(* __wasm_apply_data_relocs *)
LEMMA ExecuteRelocOrd ==
  ASSUME Inv, OrdInv, ExecuteReloc
  PROVE  OrdInv'
<1>1. Orderly /\ Top.ph = "reloc" /\ ~Top.run /\ DOMAIN Top = FrameFields /\ Loads
  BY InOrderly DEF ExecuteReloc
<1>2. FrameOk(world, d, Top)
  BY <1>1, LoadsIs
<1>3. /\ Top.at \in Nat \ {0} /\ IsSeq(Top.list)
      /\ DOMAIN Top.list = 1..Len(Top.list) /\ Len(Top.list) \in Nat
  BY <1>2, SeqLen DEF FrameOk, AtOk
<1>4. PICK i : i = Top.list[Top.at]
  OBVIOUS
<1>5. PICK g : g = [Top EXCEPT !.ph = "ctor", !.at = 1]
  OBVIOUS
<1>6. PICK h : h = [Top EXCEPT !.at = @ + 1]
  OBVIOUS
<1>7. PICK r : r = Result(d, 0, IF d.objs[i].file.reloc = "bad" THEN "EINVAL" ELSE "ok")
  OBVIOUS
<1>8. PICK rm : rm = Called("reloc", i)
  OBVIOUS
<1>9. \/ Top.at > Len(Top.list) /\ d' = d /\ ran' = ran /\ SetTop(g)
      \/ ~(Top.at > Len(Top.list)) /\ Outcome(r, h) /\ ran' = rm
  BY <1>4, <1>5, <1>6, <1>7, <1>8 DEF ExecuteReloc, Called, Wants, Plus
<1>10. CASE Top.at > Len(Top.list) /\ d' = d /\ ran' = ran /\ SetTop(g)
  <2>1. DOMAIN g = FrameFields /\ g.ph = "ctor" /\ g.at = 1
        /\ \A y \in FrameFields \ {"ph", "at"} : g[y] = Top[y]
    BY <1>1, <1>5 DEF FrameFields
  <2>2. Moved(Top, g, RunFields)
    BY <1>1, <2>1 DEF Moved, RunFields
  <2>3. g.run = Top.run
    BY <2>1 DEF FrameFields
  <2>4. \A k \in Kinds : \A p \in DOMAIN Top.list : Todo(g, k, p) <=> Todo(Top, k, p)
    <3> TAKE k \in Kinds
    <3> TAKE p \in DOMAIN Top.list
    <3>1. p \in Nat \ {0} /\ ~(p >= Top.at)
      BY <1>3, <1>10
    <3>2. CASE k = "reloc"
      <4>1. ~Todo(g, k, p) /\ ~Todo(Top, k, p)
        BY <1>1, <2>1, <3>1, <3>2 DEF Todo
      <4> QED BY <4>1
    <3>3. CASE k = "ctor"
      <4>1. Todo(Top, k, p)
        BY <1>1, <3>3 DEF Todo
      <4>2. p > g.at \/ (p = g.at /\ ~g.run)
        BY <1>1, <2>1, <2>3, <3>1
      <4>3. Todo(g, k, p)
        BY <2>1, <3>3, <4>2 DEF Todo
      <4> QED BY <4>1, <4>3
    <3> QED BY <3>2, <3>3 DEF Kinds
  <2>5. Top.ph \in Late /\ g.ph \in Late /\ g.ph # "reloc" /\ Same(d, d)
    BY <1>1, <2>1, SameSelf DEF Late
  <2> QED BY <1>1, <1>10, <2>2, <2>4, <2>5, LateOrd
<1>11. CASE ~(Top.at > Len(Top.list)) /\ Outcome(r, h) /\ ran' = rm
  <2>1. DOMAIN h = FrameFields /\ h.at = Top.at + 1
        /\ \A y \in FrameFields \ {"at"} : h[y] = Top[y]
    BY <1>1, <1>6 DEF FrameFields
  <2>2. Moved(Top, h, RunFields) /\ h.ph = "reloc"
    BY <1>1, <2>1 DEF Moved, RunFields, FrameFields
  <2>3. Top.at \in DOMAIN Top.list /\ "reloc" \in Kinds
    BY <1>3, <1>11 DEF Kinds
  <2>4. r.d = d /\ r.err \in {"ok", "EINVAL"}
    BY <1>7 DEF Result
  <2>5. CASE r.err = "ok"
    <3>1. d' = d /\ SetTop(h)
      BY <1>11, <2>4, <2>5 DEF Outcome
    <3>2. \A l \in Kinds : \A p \in DOMAIN Top.list :
            Todo(h, l, p) <=> Todo(Top, l, p) /\ ~(l = "reloc" /\ p = Top.at)
      <4> TAKE l \in Kinds
      <4> TAKE p \in DOMAIN Top.list
      <4>1. p \in Nat /\ (p >= Top.at + 1 <=> p >= Top.at /\ p # Top.at)
        BY <1>3
      <4> QED BY <1>1, <2>1, <2>2, <4>1 DEF Todo
    <3> QED BY <1>1, <1>4, <1>8, <1>11, <2>2, <2>3, <3>1, <3>2, CalledOrd
  <2>6. CASE r.err = "EINVAL"
    <3>1. Abandon(d)
      BY <1>11, <2>4, <2>6 DEF Outcome
    <3>2. CallsOnly(rm, Items(Top)) /\ RanOk(d, rm)
      BY <1>1, <1>4, <1>8, <2>3, CalledIs
    <3> QED BY <1>1, <1>11, <3>1, <3>2, SameSelf, AbandonOrd
  <2> QED BY <2>4, <2>5, <2>6
<1> QED BY <1>9, <1>10, <1>11

(* _initialize or __wasm_call_ctors *)
LEMMA ExecuteCtorOrd ==
  ASSUME Inv, OrdInv, ExecuteCtor
  PROVE  OrdInv'
<1>1. /\ Orderly /\ Top.ph = "ctor" /\ ~Top.run /\ DOMAIN Top = FrameFields /\ Loads
      /\ Top.at <= Len(Top.list) /\ d' = d
  BY InOrderly DEF ExecuteCtor
<1>2. FrameOk(world, d, Top)
  BY <1>1, LoadsIs
<1>3. /\ Top.at \in Nat \ {0} /\ IsSeq(Top.list)
      /\ DOMAIN Top.list = 1..Len(Top.list) /\ Len(Top.list) \in Nat
  BY <1>2, SeqLen DEF FrameOk, AtOk
<1>4. Top.at \in DOMAIN Top.list /\ "ctor" \in Kinds
  BY <1>1, <1>3 DEF Kinds
<1>5. PICK i : i = Top.list[Top.at]
  OBVIOUS
<1>6. PICK g : g = [Top EXCEPT !.run = TRUE, !.entered = {i}]
  OBVIOUS
<1>7. PICK h : h = [Top EXCEPT !.at = @ + 1]
  OBVIOUS
<1>8. PICK rm : rm = Called("ctor", i)
  OBVIOUS
<1>9. ran' = rm /\ (SetTop(g) \/ SetTop(h))
  BY <1>5, <1>6, <1>7, <1>8 DEF ExecuteCtor, Called, Wants, Plus
<1>10. CASE SetTop(g)
  <2>1. DOMAIN g = FrameFields /\ \A y \in FrameFields \ {"run", "entered"} : g[y] = Top[y]
    BY <1>1, <1>6 DEF FrameFields
  <2>2. g.run = TRUE
    BY <1>1, <1>6 DEF FrameFields
  <2>3. Moved(Top, g, RunFields) /\ g.ph = "ctor" /\ g.at = Top.at
    BY <1>1, <2>1 DEF Moved, RunFields, FrameFields
  <2>4. \A l \in Kinds : \A p \in DOMAIN Top.list :
          Todo(g, l, p) <=> Todo(Top, l, p) /\ ~(l = "ctor" /\ p = Top.at)
    <3> TAKE l \in Kinds
    <3> TAKE p \in DOMAIN Top.list
    <3>1. p \in Nat /\ (p > Top.at => p # Top.at)
      BY <1>3
    <3> QED BY <1>1, <2>2, <2>3, <3>1 DEF Todo
  <2> QED BY <1>1, <1>4, <1>5, <1>8, <1>9, <1>10, <2>3, <2>4, CalledOrd
<1>11. CASE SetTop(h)
  <2>1. DOMAIN h = FrameFields /\ h.at = Top.at + 1
        /\ \A y \in FrameFields \ {"at"} : h[y] = Top[y]
    BY <1>1, <1>7 DEF FrameFields
  <2>2. Moved(Top, h, RunFields) /\ h.ph = "ctor" /\ h.run = Top.run
    BY <1>1, <2>1 DEF Moved, RunFields, FrameFields
  <2>3. \A l \in Kinds : \A p \in DOMAIN Top.list :
          Todo(h, l, p) <=> Todo(Top, l, p) /\ ~(l = "ctor" /\ p = Top.at)
    <3> TAKE l \in Kinds
    <3> TAKE p \in DOMAIN Top.list
    <3>1. p \in Nat /\ (p > Top.at + 1 \/ p = Top.at + 1 <=> p > Top.at)
          /\ (p > Top.at => p # Top.at)
      BY <1>3
    <3> QED BY <1>1, <2>1, <2>2, <3>1 DEF Todo
  <2> QED BY <1>1, <1>4, <1>5, <1>8, <1>9, <1>11, <2>2, <2>3, CalledOrd
<1> QED BY <1>9, <1>10, <1>11

(* The code of a load runs: what can be said of the order. *)
LEMMA RunsOrderly ==
  ASSUME Inv, OrdInv, Running
  PROVE  /\ Orderly /\ Top.ph \in {"ctor", "main"} /\ Top.ph \in Late /\ Top.ph # "reloc"
         /\ DOMAIN Top = FrameFields
<1>1. Loads /\ Top.ph \in {"ctor", "main"} /\ DOMAIN Top = FrameFields
  BY RunsIs
<1> QED BY <1>1, OrderlyIs DEF Late

(* It enters other objects, or none: no init function is called. *)
LEMMA CodeOrd ==
  ASSUME Inv, OrdInv, Running, NEW e, Same(d, e), NEW S, NEW g, g = [Top EXCEPT !.entered = S],
         d' = e, SetTop(g), ran' = ran
  PROVE  OrdInv'
<1>1. Orderly /\ Top.ph \in Late /\ Top.ph # "reloc" /\ DOMAIN Top = FrameFields
  BY RunsOrderly
<1>2. DOMAIN g = FrameFields /\ \A y \in FrameFields \ {"entered"} : g[y] = Top[y]
  BY <1>1 DEF FrameFields
<1>3. Moved(Top, g, RunFields)
  BY <1>1, <1>2 DEF Moved, RunFields
<1>4. g.ph = Top.ph /\ g.at = Top.at /\ g.run = Top.run
  BY <1>2 DEF FrameFields
<1>5. \A k \in Kinds : \A p \in DOMAIN Top.list : Todo(g, k, p) <=> Todo(Top, k, p)
  BY <1>4 DEF Todo
<1> QED BY <1>1, <1>3, <1>4, <1>5, LateOrd

(* The code returns to the linker: its init function has been called. *)
LEMMA ReturnFromCodeOrd ==
  ASSUME Inv, OrdInv, ReturnFromCode
  PROVE  OrdInv'
<1>1. Running /\ ran' = ran
  BY DEF ReturnFromCode
<1>2. /\ Orderly /\ Top.ph \in {"ctor", "main"} /\ Top.ph \in Late /\ Top.ph # "reloc"
      /\ DOMAIN Top = FrameFields
  BY <1>1, RunsOrderly
<1>3. /\ Loads /\ FrameOk(world, d, Top) /\ DInv(world, d) /\ DOMAIN d = DyldFields
      /\ d.status = "loading" /\ IsSeq(d.objs) /\ Top.run /\ d.left \subseteq DOMAIN d.objs
  BY <1>1, <1>2, OrdersAre, LoadsIs, RunsIs, SameSelf, SameStep
<1>4. CASE Top.ph = "main"
  <2>1. DyldClear(d, "done") /\ d.status # "new"
    BY <1>3, <1>4 DEF ReturnFromCode
  <2>2. PICK rm : rm = ran
    OBVIOUS
  <2>3. ran' = rm /\ Once(rm) /\ RanOk(d, rm)
    BY <1>1, <1>2, <2>2, OrdersAre
  <2> QED BY <1>3, <2>1, <2>3, ClearOrd
<1>5. CASE Top.ph # "main"
  <2>1. PICK g : g = [Top EXCEPT !.run = FALSE, !.entered = {}, !.at = @ + 1]
    OBVIOUS
  <2>2. d' = d /\ SetTop(g)
    BY <1>5, <2>1 DEF ReturnFromCode
  <2>3. /\ DOMAIN g = FrameFields /\ g.at = Top.at + 1
        /\ \A y \in FrameFields \ RunFields : g[y] = Top[y]
    BY <1>2, <2>1 DEF FrameFields, RunFields
  <2>4. g.ph = Top.ph
    BY <1>2, <2>1 DEF FrameFields
  <2>5. g.run = FALSE
    BY <1>2, <2>1 DEF FrameFields
  <2>6. Moved(Top, g, RunFields)
    BY <1>2, <2>3 DEF Moved
  <2>7. \A k \in Kinds : \A p \in DOMAIN Top.list : Todo(g, k, p) <=> Todo(Top, k, p)
    <3> TAKE k \in Kinds
    <3> TAKE p \in DOMAIN Top.list
    <3>1. p \in Nat /\ Top.at \in Nat
      <4>1. DOMAIN Top.list = 1..Len(Top.list) /\ Top.at \in Nat
        BY <1>3, SeqLen DEF FrameOk, AtOk
      <4> QED BY <4>1
    <3>2. p > Top.at + 1 \/ p = Top.at + 1 <=> p > Top.at
      BY <3>1
    <3> QED BY <1>2, <1>3, <2>3, <2>4, <2>5, <3>2 DEF Todo
  <2>8. Same(d, d)
    BY <1>2, SameSelf
  <2> QED BY <1>1, <1>2, <2>2, <2>4, <2>6, <2>7, <2>8, LateOrd
<1> QED BY <1>4, <1>5

(* memory.grow by the program *)
LEMMA MemoryGrowOrd ==
  ASSUME Inv, OrdInv, MemoryGrow
  PROVE  OrdInv'
<1>1. Running /\ calls' = calls /\ ran' = ran
  BY DEF MemoryGrow, ProgramStep
<1>2. Orderly /\ Top.ph \in Late /\ Top.ph # "reloc" /\ DOMAIN Top = FrameFields
  BY <1>1, RunsOrderly
<1>3. DInv(world, d) /\ IsSeq(d.objs)
  BY <1>1, <1>2, RunsIs, OrdersAre, LoadsIs
<1>4. PICK e : e = [d EXCEPT !.pages = @ + 1, !.grown = @ \cup {d.pages}]
  OBVIOUS
<1>5. d' = e /\ Only(d, e, {"pages", "grown"})
  BY <1>3, <1>4, GrowInv DEF MemoryGrow
<1>6. Only(d, e, PlaceFields)
  BY <1>5 DEF Only, PlaceFields
<1>7. Same(d, e)
  BY <1>3, <1>6, PlacesSame
<1>8. SetTop(Top)
  <2>1. IsSeq(calls) /\ Len(calls) \in DOMAIN calls /\ Top = calls[Len(calls)]
    BY <1>2, OrdersAre, LoadsIs
  <2>2. calls = [calls EXCEPT ![Len(calls)] = Top]
    BY <2>1 DEF IsSeq
  <2> QED BY <1>1, <2>2 DEF SetTop
<1>9. Moved(Top, Top, RunFields)
  BY <1>2 DEF Moved
<1> QED BY <1>1, <1>2, <1>5, <1>7, <1>8, <1>9, LateOrd

(* dyld_dlfcn_resolve_symbol *)
LEMMA DlResolveSymbolOrd ==
  ASSUME Inv, OrdInv, NEW h \in Nat \ {0}, NEW k \in {"func", "data"}, NEW sym,
         DlResolveSymbol(h, k, sym)
  PROVE  OrdInv'
<1>1. Running /\ ran' = ran
  BY DEF DlResolveSymbol, ProgramStep
<1>2. /\ Orderly /\ DInv(world, d) /\ SlotsOk(d) /\ DOMAIN d.objs = 1..Len(d.objs)
      /\ Len(d.objs) \in Nat \ {0} /\ IsSeq(d.objs)
  BY <1>1, RunsIs, RunsOrderly, LoadsIs
<1>3. PICK x : x = d.slots[h].obj
  OBVIOUS
<1>4. PICK o : o = d.objs[x]
  OBVIOUS
<1>5. PICK r : r = ResolveSymbolInObj(d, o, k, sym)
  OBVIOUS
<1>6. PICK S : S = Top.entered \cup (IF k = "func" THEN {x} ELSE {})
  OBVIOUS
<1>7. PICK g : g = [Top EXCEPT !.entered = S]
  OBVIOUS
<1>8. \/ Die(d, "stale")
      \/ ~(h > Len(d.slots)) /\ x # 0 /\ d' = r.d /\ SetTop(g)
  BY <1>3, <1>4, <1>5, <1>6, <1>7 DEF DlResolveSymbol
<1>9. CASE Die(d, "stale")
  BY <1>1, <1>2, <1>9, DieOrd
<1>10. CASE ~(h > Len(d.slots)) /\ x # 0 /\ d' = r.d /\ SetTop(g)
  <2>1. x \in DOMAIN d.objs
    <3>1. IsSeq(d.slots)
      BY <1>2 DEF SlotsOk
    <3>2. DOMAIN d.slots = 1..Len(d.slots) /\ Len(d.slots) \in Nat
      BY <3>1, SeqLen
    <3>3. h \in DOMAIN d.slots
      BY <1>10, <3>2
    <3>4. x \in 0..Len(d.objs)
      BY <1>2, <1>3, <3>3 DEF SlotsOk
    <3> QED BY <1>2, <1>10, <3>4
  <2>2. Only(d, r.d, {"table"})
    BY <1>2, <1>4, <1>5, <2>1, ResolveInObjIs DEF ResolvedIn
  <2>3. Only(d, r.d, PlaceFields)
    BY <2>2 DEF Only, PlaceFields
  <2>4. PICK e : e = r.d
    OBVIOUS
  <2>5. Same(d, e)
    BY <1>2, <2>3, <2>4, PlacesSame
  <2>6. d' = e
    BY <1>10, <2>4
  <2> QED BY <1>1, <1>7, <1>10, <2>5, <2>6, CodeOrd
<1> QED BY <1>8, <1>9, <1>10

(* dyld_plt *)
LEMMA CallPltOrd ==
  ASSUME Inv, OrdInv, CallPlt
  PROVE  OrdInv'
<1>1. Running /\ ran' = ran
  BY DEF CallPlt, ProgramStep
<1>2. Orderly /\ Top.entered \subseteq DOMAIN d.objs /\ DInv(world, d)
  BY <1>1, RunsIs, RunsOrderly
<1>3. PICK o \in Top.entered : \E i \in DOMAIN d.objs[o].plt :
         \E r \in {IF d.objs[o].plt[i] # Null THEN Result(d, 0, "ok")
                  ELSE ResolvePlt(d, o, i)} :
           LET to == CHOOSE j \in DOMAIN r.d.objs :
                       r.d.objs[j].id = r.d.objs[o].plt[i].o
           IN  Outcome(r, [Top EXCEPT !.entered = @ \cup {to}])
  BY DEF CallPlt
<1>4. PICK i \in DOMAIN d.objs[o].plt :
         \E r \in {IF d.objs[o].plt[i] # Null THEN Result(d, 0, "ok")
                  ELSE ResolvePlt(d, o, i)} :
           LET to == CHOOSE j \in DOMAIN r.d.objs :
                       r.d.objs[j].id = r.d.objs[o].plt[i].o
           IN  Outcome(r, [Top EXCEPT !.entered = @ \cup {to}])
  BY <1>3
<1>5. PICK r : /\ r = IF d.objs[o].plt[i] # Null THEN Result(d, 0, "ok") ELSE ResolvePlt(d, o, i)
               /\ LET to == CHOOSE j \in DOMAIN r.d.objs :
                           r.d.objs[j].id = r.d.objs[o].plt[i].o
                  IN  Outcome(r, [Top EXCEPT !.entered = @ \cup {to}])
  BY <1>4
<1>6. PICK to : to = CHOOSE j \in DOMAIN r.d.objs : r.d.objs[j].id = r.d.objs[o].plt[i].o
  OBVIOUS
<1>7. PICK S : S = Top.entered \cup {to}
  OBVIOUS
<1>8. PICK g : g = [Top EXCEPT !.entered = S]
  OBVIOUS
<1>9. Outcome(r, g)
  <2>1. g = [Top EXCEPT !.entered = @ \cup {to}]
    BY <1>7, <1>8
  <2> QED BY <1>5, <1>6, <2>1
<1>10. Same(d, r.d) /\ DOMAIN r.d = DyldFields
  <2>1. CASE d.objs[o].plt[i] # Null
    <3>1. r = Result(d, 0, "ok")
      BY <1>5, <2>1
    <3>2. r.d = d
      BY <3>1 DEF Result
    <3> QED BY <1>2, <3>2, SameSelf
  <2>2. CASE d.objs[o].plt[i] = Null
    <3>1. r = ResolvePlt(d, o, i) /\ o \in DOMAIN d.objs
      BY <1>2, <1>5, <2>2
    <3> QED BY <1>2, <1>4, <3>1, PltSame
  <2> QED BY <2>1, <2>2
<1>11. PICK e : e = r.d
  OBVIOUS
<1>12. ASSUME d' = r.d, SetTop(g)
       PROVE  OrdInv'
  BY <1>1, <1>8, <1>10, <1>11, <1>12, CodeOrd
<1> QED BY <1>1, <1>2, <1>9, <1>10, <1>12, OutcomeOrd

(* What is written besides the objects changes no order. *)
LEMMA BesideKin ==
  ASSUME Orderly, NEW e, e.objs = d.objs, e.left = d.left
  PROVE  Kin(d, e) /\ LoadsOrd(e) /\ RanOk(e, ran)
<1>1. /\ IsSeq(d.objs) /\ d.left \subseteq DOMAIN d.objs /\ LoadsOrd(d) /\ RanOk(d, ran)
      /\ Len(d.objs) \in Nat
  <2>1. Same(d, d) /\ Loads /\ RanOk(d, ran) /\ LoadsOrd(d)
    BY SameSelf, OrdersAre
  <2> QED BY <2>1, SameStep, SeqLen
<1>2. Kin(d, e)
  BY <1>1 DEF Kin, SameOrd
<1>3. LoadsOrd(e)
  BY <1>1 DEF LoadsOrd
<1>4. PICK rn : rn = ran
  OBVIOUS
<1>5. RanOk(e, rn)
  BY <1>1, <1>2, <1>4, RanStays
<1> QED BY <1>2, <1>3, <1>4, <1>5

(* The main program starts, or load_object returns. *)
LEMMA LoadEndOrd ==
  ASSUME Inv, OrdInv, LoadEnd
  PROVE  OrdInv'
<1>1. /\ Orderly /\ Top.ph = "ctor" /\ ~Top.run /\ DOMAIN Top = FrameFields /\ Loads
      /\ ran' = ran /\ Top.at > Len(Top.list)
  BY InOrderly DEF LoadEnd
<1>2. /\ FrameOk(world, d, Top) /\ DOMAIN d = DyldFields
  BY <1>1, LoadsIs
<1>3. /\ Top.at \in Nat \ {0} /\ IsSeq(Top.list)
      /\ DOMAIN Top.list = 1..Len(Top.list) /\ Len(Top.list) \in Nat
  BY <1>2, SeqLen DEF FrameOk, AtOk
<1>4. PICK g : g = [Top EXCEPT !.ph = "main", !.run = TRUE, !.entered = {1}]
  OBVIOUS
<1>5. PICK e : e = [d EXCEPT !.slots[Top.slot].obj = Top.start, !.lsize = @ + 1,
                             !.handles = @ \cup {<<Top.slot, Top.start>>}]
  OBVIOUS
<1>6. \/ d' = d /\ SetTop(g)
      \/ Die(d, "stale")
      \/ d' = e /\ calls' = Front(calls)
  BY <1>4, <1>5 DEF LoadEnd
<1>7. CASE d' = d /\ SetTop(g)
  <2>1. /\ DOMAIN g = FrameFields /\ g.ph = "main"
        /\ \A y \in FrameFields \ RunFields : g[y] = Top[y]
    BY <1>1, <1>4 DEF FrameFields, RunFields
  <2>2. Moved(Top, g, RunFields)
    BY <1>1, <2>1 DEF Moved
  <2>3. \A k \in Kinds : \A p \in DOMAIN Top.list : Todo(g, k, p) <=> Todo(Top, k, p)
    <3> TAKE k \in Kinds
    <3> TAKE p \in DOMAIN Top.list
    <3>1. ~(p > Top.at) /\ p # Top.at
      BY <1>1, <1>3
    <3> QED BY <1>1, <2>1, <3>1 DEF Todo
  <2>4. Top.ph \in Late /\ g.ph \in Late /\ g.ph # "reloc" /\ Same(d, d)
    BY <1>1, <2>1, SameSelf DEF Late
  <2> QED BY <1>1, <1>7, <2>2, <2>3, <2>4, LateOrd
<1>8. CASE Die(d, "stale")
  BY <1>1, <1>8, DieOrd
<1>9. CASE d' = e /\ calls' = Front(calls)
  <2>1. e.objs = d.objs /\ e.left = d.left /\ e.status = d.status
    BY <1>2, <1>5 DEF DyldFields
  <2>2. PICK rm : rm = ran
    OBVIOUS
  <2>3. Kin(d, e) /\ LoadsOrd(e) /\ RanOk(e, rm)
    BY <1>1, <2>1, <2>2, BesideKin
  <2>4. CallsOnly(rm, Items(Top))
    BY <1>1, <2>2, OrdersAre DEF CallsOnly
  <2>5. \A x \in DOMAIN e.objs : ~e.objs[x].visited => x \in e.left
    <3>1. TopOrd(d, Top) /\ Top.ph \notin Before
      BY <1>1, OrdersAre DEF Before
    <3> QED BY <2>1, <3>1 DEF TopOrd
  <2> QED BY <1>1, <1>9, <2>1, <2>2, <2>3, <2>4, <2>5, PopOrd
<1> QED BY <1>6, <1>7, <1>8, <1>9

(* dyld_dlfcn_load_object, up to the object: the load has none yet. *)
LEMMA LoadObjectOrd ==
  ASSUME Inv, OrdInv, NEW n \in world.open, NEW moved, LoadObject(n, moved)
  PROVE  OrdInv'
<1>1. Running /\ ran' = ran
  BY DEF LoadObject, ProgramStep
<1>2. /\ Orderly /\ Top.ph \in {"ctor", "main"} /\ Loads /\ Top.run /\ DOMAIN d = DyldFields
      /\ IsSeq(d.objs) /\ DOMAIN d.objs = 1..Len(d.objs) /\ Len(d.objs) \in Nat
  BY <1>1, RunsOrderly, RunsIs, LoadsIs
<1>3. PICK slot : slot = d.lsize + 1
  OBVIOUS
<1>4. PICK data : data = Len(d.data) + 1
  OBVIOUS
<1>5. PICK gen : gen = IF slot > Len(d.slots) /\ moved THEN d.gen + 1 ELSE d.gen
  OBVIOUS
<1>6. PICK u : u = IF slot > Len(d.slots) THEN Longer(d.slots, slot - Len(d.slots)) ELSE d.slots
  OBVIOUS
<1>7. PICK t : t = [u EXCEPT ![slot] = Slot(data)]
  OBVIOUS
<1>8. PICK e : e = [d EXCEPT !.slots = t, !.gen = gen, !.data = Append(@, [n |-> n, live |-> TRUE])]
  OBVIOUS
<1>9. PICK fr : fr = Frame("open", Len(d.objs) + 1, n, slot, data, gen)
  OBVIOUS
<1>10. d' = e /\ calls' = Plus(calls, fr)
  BY <1>3, <1>4, <1>5, <1>6, <1>7, <1>8, <1>9 DEF LoadObject, Plus, Longer, Slot
<1>11. e.objs = d.objs /\ e.left = d.left /\ e.status = d.status
  BY <1>2, <1>8 DEF DyldFields
<1>12. PICK start : start = Len(d.objs) + 1
  OBVIOUS
<1>13. fr.ph = "open" /\ fr.start = start /\ fr.path = <<>> /\ fr.list = <<>>
  BY <1>9, <1>12 DEF Frame
<1>14. DOMAIN fr.path = {} /\ DOMAIN fr.list = {}
  BY <1>13
<1>15. Items(fr) = {} /\ OnPath(fr) = {}
  BY <1>14 DEF Items, OnPath, Range
<1>16. Kin(d, e) /\ LoadsOrd(e)
  BY <1>2, <1>11, BesideKin
<1>17. FrameOrd(e, ran, fr)
  <2>1. ItemsOk(e, fr)
    BY <1>13, <1>14, <1>15 DEF ItemsOk, Range
  <2>2. CalledOk(e, ran, fr)
    BY <1>14, <1>15 DEF CalledOk
  <2> QED BY <1>13, <1>14, <2>1, <2>2 DEF FrameOrd
<1>18. TopOrd(e, fr)
  <2>1. \A x \in DOMAIN d.objs : x \in Nat /\ x < start /\ ~(x >= start) /\ ~(x > start)
    BY <1>2, <1>12
  <2>2. \A x \in DOMAIN d.objs : ~d.objs[x].visited => x \in d.left
    <3>1. TopOrd(d, Top) /\ Top.ph \notin Before
      BY <1>2, OrdersAre DEF Before
    <3> QED BY <3>1 DEF TopOrd
  <2>3. fr.ph # "sort"
    BY <1>13
  <2> QED BY <1>11, <1>13, <2>1, <2>2, <2>3 DEF TopOrd
<1> QED BY <1>1, <1>2, <1>10, <1>11, <1>15, <1>16, <1>17, <1>18, PushOrd

(* A step of the linker, or of the code of the program *)
LEMMA NextOrd ==
  ASSUME Inv, OrdInv, [Next]_vars
  PROVE  OrdInv'
<1>1. CASE LinkerStep
  BY <1>1, DyldLoadOrd, OpenObjectOrd, LoadNeededOrd, ResolveAllGotOrd, ResolveAllPltOrd,
     LayoutOrd, ExecuteInitFuncsOrd, TsortOrd, ExecuteRelocOrd, ExecuteCtorOrd, LoadEndOrd
     DEF LinkerStep
<1>2. CASE ReturnFromCode \/ CallPlt \/ MemoryGrow
  BY <1>2, ReturnFromCodeOrd, CallPltOrd, MemoryGrowOrd
<1>3. CASE \E n \in world.open, moved \in BOOLEAN : LoadObject(n, moved)
  BY <1>3, LoadObjectOrd
<1>4. CASE \E h \in 1..MaxOps, k \in {"func", "data"}, sym \in Symbols : DlResolveSymbol(h, k, sym)
  <2>1. PICK h \in 1..MaxOps, k \in {"func", "data"}, sym \in Symbols : DlResolveSymbol(h, k, sym)
    BY <1>4
  <2>2. h \in Nat \ {0}
    BY DyldAssumption
  <2> QED BY <2>1, <2>2, DlResolveSymbolOrd
<1>5. CASE UNCHANGED vars
  <2>1. d' = d /\ calls' = calls /\ ran' = ran
    BY <1>5 DEF vars
  <2> QED BY <2>1 DEF OrdInv
<1> QED BY <1>1, <1>2, <1>3, <1>4, <1>5 DEF Next

(* No init function has been called. *)
LEMMA InitOrd ==
  ASSUME Init
  PROVE  OrdInv
<1>1. ran = <<>> /\ calls = <<>> /\ d = EmptyDyld
  BY DEF Init
<1>2. d.objs = <<>>
  BY <1>1 DEF EmptyDyld
<1>3. IsSeq(<<>>) /\ DOMAIN <<>> = {}
  <2>1. <<>> \in Seq({})
    OBVIOUS
  <2>2. IsSeq(<<>>)
    BY <2>1, SeqIs
  <2>3. DOMAIN <<>> = {}
    OBVIOUS
  <2> QED BY <2>2, <2>3
<1> QED BY <1>1, <1>2, <1>3 DEF OrdInv, Once

(* The loads in progress have visited each object once, what an object needs *)
(* before it, and have called the init functions up to where they are.       *)
THEOREM OrderInvariance == Spec => []OrdInv
<1>1. Init => OrdInv
  BY InitOrd
<1>2. Inv /\ OrdInv /\ [Next]_vars => OrdInv'
  BY NextOrd
<1> QED BY <1>1, <1>2, Invariance, PTL DEF Spec

(* Init functions run once, relocations before constructors, and the         *)
(* constructors of what an object needs before its own, unless by a cycle    *)
(* that needs the object.                                                    *)
THEOREM InitOrderHolds == Spec => []InitOrder
<1>1. ASSUME OrdInv
      PROVE  InitOrder
  <2>1. Once(ran) /\ (d.objs # <<>> => RanOk(d, ran))
    BY <1>1 DEF OrdInv
  <2>2. ASSUME NEW p \in DOMAIN ran, NEW i, i = ran[p][2]
        PROVE  /\ \A q \in DOMAIN ran : ran[q] = ran[p] => q = p
               /\ ran[p][1] = "ctor" /\ d.objs # <<>> =>
                    /\ d.objs[i].file.reloc # "none" => \E q \in 1..p : ran[q] = <<"reloc", i>>
                    /\ \A j \in Needed(d, i) \ (d.left \cup {i}) :
                         d.objs[j].load = d.objs[i].load /\ d.objs[j].file.ctor =>
                           (\E q \in 1..p : ran[q] = <<"ctor", j>>) \/ i \in Needs(d, j)
    BY <2>1, <2>2 DEF Once, RanOk
  <2>3. ASSUME NEW p \in DOMAIN ran
        PROVE  LET i == ran[p][2] IN
               /\ \A q \in DOMAIN ran : ran[q] = ran[p] => q = p
               /\ ran[p][1] = "ctor" /\ d.objs # <<>> =>
                    /\ d.objs[i].file.reloc # "none" => \E q \in 1..p : ran[q] = <<"reloc", i>>
                    /\ \A j \in Needed(d, i) \ (d.left \cup {i}) :
                         d.objs[j].load = d.objs[i].load /\ d.objs[j].file.ctor =>
                           (\E q \in 1..p : ran[q] = <<"ctor", j>>) \/ i \in Needs(d, j)
    <3>1. PICK i : i = ran[p][2]
      OBVIOUS
    <3> QED BY <2>2, <3>1
  <2> QED BY <2>3 DEF InitOrder
<1> QED BY <1>1, OrderInvariance, PTL

=============================================================================
