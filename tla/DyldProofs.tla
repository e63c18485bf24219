----------------------------- MODULE DyldProofs -----------------------------
(***************************************************************************)
(* Proofs about the dynamic linker: its areas do not overlap, all objects  *)
(* agree on the symbols, and no code runs before its object is linked, for *)
(* every set of files, any number of objects and of loads in progress.     *)
(*                                                                         *)
(* The three hold together.  DInv is about struct dyld alone: the areas of *)
(* the objects follow one another in the order of the list, below membase  *)
(* and tabbase, because what is allocated starts where the last allocation *)
(* ended (AllocateMemoryIs, AllocateTableIs) and a sum that wraps around   *)
(* fails an assertion (Aligned); the entries made for the exports of an    *)
(* object fill its area from the left, which is why a search for a         *)
(* function ends and finds the entry it has (RegisterIs); and a binding    *)
(* that holds goes on to hold while objects are added behind the others    *)
(* (GotStays, PltStays).  CallsOk and GotState are about the loads in      *)
(* progress: each but the innermost runs code, and objects that are not    *)
(* linked yet belong to the innermost one, are behind where it has come,   *)
(* and are not in the list when a load begins - except those that a failed *)
(* load left (PassiveGots).  That is why code that runs never enters an    *)
(* object with an unset GOT entry, through dlsym and the PLT included.     *)
(***************************************************************************)
EXTENDS Dyld, Induction, SequenceTheorems, TLAPS

-----------------------------------------------------------------------------
(* The invariant of struct dyld: a predicate of the record, so that it can *)
(* be followed through the operations, which take and return records.      *)

IsSeq(s) == s \in Seq(Range(s))

DyldFields == {"objs", "pie", "shared", "membase", "pages", "tabbase", "table",
               "stack", "heap", "ids", "data", "slots", "lsize", "gen", "grown",
               "left", "handles", "fault", "status"}
ObjFields == {"id", "name", "file", "mem", "tab", "exp", "got", "plt", "seen",
              "visited", "key", "load"}
FrameFields == {"ph", "start", "at", "k", "dir", "path", "list", "name", "slot",
                "data", "gen", "run", "entered"}

\* The files are what the assumption says.
WorldOk(w) ==
    /\ IsSeq(w.dirs)
    /\ \A f \in FilesOf(w) : f = NoFile \/ (f # NoFile /\ (f.valid /\ f.dylink => WellFormed(w, f)))

ObjOk(w, o) ==
    /\ DOMAIN o = ObjFields /\ WellFormed(w, o.file)
    /\ o.id \in Nat \ {0} /\ o.mem \in Nat /\ o.tab \in Nat /\ o.exp \in Nat \ {0}
    /\ DOMAIN o.got = Gots(o.file) /\ DOMAIN o.plt = Plts(o.file)
    /\ o.mem % 2^o.file.align = 0

Shape(w, dd) ==
    /\ DOMAIN dd = DyldFields /\ IsSeq(dd.objs) /\ dd.ids \in Nat
    /\ \A x \in DOMAIN dd.objs : ObjOk(w, dd.objs[x])

\* What is reserved of the memory and of the table is there.
Pages(v) == HowMany(v, PageSize)
MemoryOk(dd) ==
    /\ dd.membase \in Nat /\ dd.pages \in Nat
    /\ dd.membase + PageSize <= Space /\ Pages(dd.membase) <= dd.pages
    /\ \A g \in dd.grown : g \in Nat /\ Pages(dd.membase) <= g /\ g < dd.pages
TableOk(dd) ==
    /\ dd.tabbase \in Nat /\ dd.tabbase < Space
    /\ IsSeq(dd.table) /\ Len(dd.table) = dd.tabbase
Rooms(dd) ==
    /\ MemoryOk(dd) /\ TableOk(dd)
    /\ dd.objs # <<>> => dd.tabbase > 0 /\ dd.table[1] = Null

\* Two areas, given by their bounds, are apart.
Beside(a, b, c, e) == b <= c \/ e <= a

StackHeap(dd) ==
    /\ dd.stack = <<dd.stack[1], dd.stack[2]>> /\ dd.heap = <<dd.heap[1], dd.heap[2]>>
    /\ dd.stack[1] \in Nat /\ dd.stack[2] \in Nat /\ dd.heap[1] \in Nat /\ dd.heap[2] \in Nat
    /\ dd.stack[1] <= dd.stack[2] /\ dd.stack[2] <= dd.membase
    /\ dd.heap[1] <= dd.heap[2] /\ dd.heap[2] <= dd.membase
    /\ Beside(dd.stack[1], dd.stack[2], dd.heap[1], dd.heap[2])
    /\ \A x \in DOMAIN dd.objs :
         LET o == dd.objs[x] IN
         /\ Beside(dd.stack[1], dd.stack[2], o.mem, o.mem + o.file.size)
         /\ Beside(dd.heap[1], dd.heap[2], o.mem, o.mem + o.file.size)

\* The areas of the objects follow one another in the order of the list.
Ordered(dd) ==
    \A x \in DOMAIN dd.objs :
      LET o == dd.objs[x] IN
      /\ o.mem + o.file.size <= dd.membase
      /\ o.tab + o.file.tsize <= o.exp
      /\ o.exp + NExports(o.file) <= dd.tabbase
      /\ \A y \in DOMAIN dd.objs :
           x < y => /\ o.mem + o.file.size <= dd.objs[y].mem
                    /\ o.exp + NExports(o.file) <= dd.objs[y].tab

\* The entries made for exports are functions of the object, each at one
\* place, and fill its area from the left.
FuncsOf(o) == {Func(o, e) : e \in {e \in Range(o.file.exports) : e.k = "func"}}
Entries(dd) ==
    \A x \in DOMAIN dd.objs :
      LET o    == dd.objs[x]
          mine == Area(o.exp, NExports(o.file))
      IN  /\ \A a \in mine : dd.table[a + 1] = Null \/ dd.table[a + 1] \in FuncsOf(o)
          /\ \A a, b \in mine :
               a < b => /\ dd.table[a + 1] = Null => dd.table[b + 1] = Null
                        /\ dd.table[a + 1] = dd.table[b + 1] => dd.table[a + 1] = Null

GotOk(dd, o, i) ==
    /\ o.got[i] \in Nat /\ GotIsFor(dd, o, i)
    /\ SymType(o.file.imports[i]) # "data" => o.got[i] < dd.tabbase
Bindings(dd) ==
    \A x \in DOMAIN dd.objs :
      LET o == dd.objs[x] IN
      /\ o.seen \in Nat /\ o.seen <= Len(dd.objs)
      /\ \A i \in DOMAIN o.got : o.got[i] = Unset \/ GotOk(dd, o, i)
      /\ \A i \in DOMAIN o.plt : o.plt[i] = Null \/ PltIsFor(dd, o, i)

DInv(w, dd) ==
    /\ Shape(w, dd) /\ Rooms(dd) /\ StackHeap(dd) /\ Ordered(dd)
    /\ Entries(dd) /\ Bindings(dd)

-----------------------------------------------------------------------------
(* The loads in progress.                                                  *)

Before == {"open", "needed", "got", "plt", "layout", "init", "sort"}

AtOk(w, dd, c) ==
    /\ c.start \in Nat \ {0} /\ c.at \in Nat \ {0} /\ c.k \in Nat \ {0} /\ c.dir \in Nat \ {0}
    /\ c.ph \in Before \cup {"reloc", "ctor", "main"} /\ c.run \in BOOLEAN
    /\ c.run => c.ph \in {"ctor", "main"}
    /\ c.start <= Len(dd.objs) + 1
    /\ c.ph = "open" => c.start = Len(dd.objs) + 1 /\ c.name \in w.open /\ c.slot # 0
    /\ c.ph # "open" => c.start <= Len(dd.objs)
    /\ c.ph \in {"open", "needed", "got"} => c.at >= c.start
    /\ c.ph \in {"plt", "layout"} => c.slot = 0
NodeOk(dd, n) == DOMAIN n = {"obj", "k"} /\ n.obj \in DOMAIN dd.objs /\ n.k \in Nat \ {0}
FrameOk(w, dd, c) ==
    /\ DOMAIN c = FrameFields /\ AtOk(w, dd, c) /\ c.entered \subseteq DOMAIN dd.objs
    /\ IsSeq(c.list) /\ Range(c.list) \subseteq DOMAIN dd.objs
    /\ IsSeq(c.path) /\ \A n \in Range(c.path) : NodeOk(dd, n)

CallsOk ==
    /\ IsSeq(calls) /\ \A x \in DOMAIN calls : FrameOk(world, d, calls[x])
    /\ \A x \in DOMAIN calls : x < Len(calls) => calls[x].run
    /\ calls # <<>> => d.objs # <<>> /\ d.status = "loading"
    /\ d.status = "new" => d = EmptyDyld /\ calls = <<>>

\* The objects that load_object returned, and that failed loads left
SlotsOk(dd) ==
    /\ IsSeq(dd.slots) /\ dd.lsize \in Nat
    /\ \A h \in DOMAIN dd.slots : DOMAIN dd.slots[h] = {"data", "obj"}
                                    /\ dd.slots[h].obj \in 0..Len(dd.objs)
    /\ dd.left \subseteq DOMAIN dd.objs

\* What is not linked yet belongs to the innermost load, which resolves its
\* objects one after the other; the list does not change meanwhile.
Fresh(o) == \A i \in DOMAIN o.got : o.got[i] = Unset
Pending(c, x) == \/ c.ph \in {"open", "needed"} /\ x >= c.start
                 \/ c.ph = "got" /\ x >= c.at
Settled(dd, x) == x \in dd.left \/ Linked(dd.objs[x])
GotsAt(dd, c) ==
    /\ \A x \in DOMAIN dd.objs : Settled(dd, x) \/ Pending(c, x)
    /\ c.ph = "needed" => \A x \in DOMAIN dd.objs : x >= c.start => Fresh(dd.objs[x])
    /\ c.ph = "got" =>
         \A x \in DOMAIN dd.objs :
           /\ x > c.at => Fresh(dd.objs[x])
           /\ x = c.at => \A i \in DOMAIN dd.objs[x].got :
                /\ i >= c.k => dd.objs[x].got[i] = Unset
                /\ i < c.k => dd.objs[x].got[i] # Unset /\ dd.objs[x].seen = Len(dd.objs)
GotState == IF calls = <<>> THEN \A x \in DOMAIN d.objs : Settled(d, x) ELSE GotsAt(d, Top)

Inv ==
    /\ WorldOk(world) /\ DInv(world, d)
    /\ d.fault = "none" => CallsOk /\ SlotsOk(d) /\ GotState
    /\ CodeRunsLinked

-----------------------------------------------------------------------------
(* Sequences.                                                              *)

(* What a sequence over some set is, it is over its own elements. *)
LEMMA SeqIs ==
  ASSUME NEW T, NEW s \in Seq(T)
  PROVE  IsSeq(s) /\ Len(s) \in Nat /\ DOMAIN s = 1..Len(s)
<1>1. Len(s) \in Nat /\ DOMAIN s = 1..Len(s)
  OBVIOUS
<1>2. \A i \in 1..Len(s) : s[i] \in Range(s)
  BY <1>1 DEF Range
<1>3. s = [i \in 1..Len(s) |-> s[i]]
  BY <1>1
<1> QED BY <1>1, <1>2, <1>3 DEF IsSeq

(* The length and the domain of a sequence. *)
LEMMA SeqLen ==
  ASSUME NEW s, IsSeq(s)
  PROVE  Len(s) \in Nat /\ DOMAIN s = 1..Len(s) /\ (s = <<>> <=> Len(s) = 0)
BY DEF IsSeq

(* A function of an interval is a sequence. *)
LEMMA SeqFcn ==
  ASSUME NEW n \in Nat, NEW s, DOMAIN s = 1..n, s = [i \in 1..n |-> s[i]]
  PROVE  IsSeq(s) /\ Len(s) = n
<1>1. \A i \in 1..n : s[i] \in Range(s)
  BY DEF Range
<1>2. s \in Seq(Range(s))
  BY <1>1
<1> QED BY <1>2 DEF IsSeq

(* A sequence with one more element. *)
LEMMA SeqAppend ==
  ASSUME NEW s, NEW x, IsSeq(s)
  PROVE  /\ IsSeq(Append(s, x)) /\ Len(Append(s, x)) = Len(s) + 1
         /\ DOMAIN Append(s, x) = 1..(Len(s) + 1)
         /\ \A i \in DOMAIN s : i \in DOMAIN Append(s, x) /\ Append(s, x)[i] = s[i]
         /\ Append(s, x)[Len(s) + 1] = x
<1>1. s \in Seq(Range(s) \cup {x})
  BY DEF IsSeq
<1>2. Append(s, x) \in Seq(Range(s) \cup {x})
  BY <1>1
<1>3. IsSeq(Append(s, x))
  BY <1>2, SeqIs
<1> QED BY <1>1, <1>3, SeqLen

(* Dropping what was appended gives the sequence again. *)
LEMMA SeqFrontAppend ==
  ASSUME NEW s, NEW x, IsSeq(s)
  PROVE  Front(Append(s, x)) = s
<1> DEFINE a == Append(s, x)
<1>1. s \in Seq(Range(s) \cup {x}) /\ a \in Seq(Range(s) \cup {x})
  BY DEF IsSeq
<1>2. Len(a) = Len(s) + 1 /\ Len(s) \in Nat
  BY <1>1
<1>3. Front(a) = SubSeq(a, 1, Len(s))
  BY <1>2 DEF Front
<1>4. Len(SubSeq(a, 1, Len(s))) = Len(s)
  BY <1>1, <1>2
<1>5. \A i \in 1..Len(s) : SubSeq(a, 1, Len(s))[i] = s[i]
  BY <1>1, <1>2
<1>6. SubSeq(a, 1, Len(s)) \in Seq(Range(s) \cup {x})
  BY <1>1, <1>2
<1> QED BY <1>1, <1>3, <1>4, <1>5, <1>6, SeqEqual

Put(s, i, x) == [s EXCEPT ![i] = x]

(* A sequence in which one element was replaced. *)
LEMMA SeqExcept ==
  ASSUME NEW s, NEW i, NEW x, NEW t, IsSeq(s), t = Put(s, i, x)
  PROVE  /\ IsSeq(t) /\ Len(t) = Len(s) /\ DOMAIN t = DOMAIN s
         /\ i \in DOMAIN s => t[i] = x
         /\ \A j \in DOMAIN s : j # i => t[j] = s[j]
<1>1. Len(s) \in Nat /\ DOMAIN s = 1..Len(s)
  BY SeqLen
<1>2. PICK u : u = t
  OBVIOUS
<1>3. DOMAIN u = 1..Len(s) /\ u = [j \in 1..Len(s) |-> u[j]]
  BY <1>1, <1>2 DEF Put
<1>4. IsSeq(u) /\ Len(u) = Len(s)
  BY <1>1, <1>3, SeqFcn
<1> QED BY <1>1, <1>2, <1>3, <1>4 DEF Put

(* All but the last element of a sequence. *)
LEMMA SeqFront ==
  ASSUME NEW s, IsSeq(s), s # <<>>
  PROVE  /\ IsSeq(Front(s)) /\ Len(Front(s)) = Len(s) - 1
         /\ DOMAIN Front(s) = 1..(Len(s) - 1)
         /\ \A i \in 1..(Len(s) - 1) : Front(s)[i] = s[i] /\ i \in DOMAIN s
<1>1. Len(s) \in Nat /\ DOMAIN s = 1..Len(s) /\ Len(s) # 0
  BY SeqLen
<1>2. s \in Seq(Range(s))
  BY DEF IsSeq
<1>3. Front(s) = SubSeq(s, 1, Len(s) - 1)
  BY DEF Front
<1>4. Front(s) \in Seq(Range(s)) /\ Len(Front(s)) = Len(s) - 1
  BY <1>1, <1>2, <1>3
<1>5. IsSeq(Front(s)) /\ DOMAIN Front(s) = 1..(Len(s) - 1)
  BY <1>4, SeqIs
<1> QED BY <1>1, <1>2, <1>3, <1>4, <1>5

-----------------------------------------------------------------------------
(* Arithmetic of the allocators.                                           *)

(* The parameters of the program. *)
LEMMA Sizes ==
  /\ PageSize \in Nat \ {0} /\ Space \in Nat \ {0} /\ PageSize < Space
  /\ StackSize \in Nat
  /\ Fits(StackSize, 0, PageSize) /\ Fits(0, 0, PageSize)
  /\ Fits(0, 4, PageSize) /\ Fits(0, PageShift, PageSize)
BY DyldAssumption DEF Fits

(* Rounding up to a multiple does not go below the number. *)
LEMMA RoundUp ==
  ASSUME NEW a \in Nat, NEW b \in Nat \ {0}
  PROVE  LET u == ((a + b - 1) \div b) * b
         IN  u \in Nat /\ a <= u /\ u <= a + b - 1
OBVIOUS

(* ... rounding down does not go above. *)
LEMMA RoundDown ==
  ASSUME NEW a \in Nat, NEW b \in Nat \ {0}
  PROVE  LET u == (a \div b) * b IN u \in Nat /\ u <= a /\ u % b = 0
OBVIOUS

(* A sum that wraps around loses the size of the address space. *)
LEMMA Wrap ==
  ASSUME NEW a \in Nat, a < 2 * Space
  PROVE  a % Space = IF a < Space THEN a ELSE a - Space
BY Sizes

(* The two roundings and wraps of an allocation: its area is above the base,
   or the assertion sees the new base below the old one. *)
LEMMA Aligned ==
  ASSUME NEW base \in Nat, NEW palign, NEW sz \in Nat, NEW room \in Nat,
         base < Space, Fits(sz, palign, room)
  PROVE  LET at == AlignUpLog(base, palign)
             nb == (at + sz) % Space
         IN  /\ at \in Nat /\ nb \in Nat /\ nb < Space /\ at % 2^palign = 0
             /\ nb >= base => base <= at /\ nb = at + sz
             /\ base = 0 => at = 0 /\ nb = sz
<1> DEFINE b == 2^palign
           s == base + b - 1
           at == ((s % Space) \div b) * b
           nb == (at + sz) % Space
<1>1. b \in Nat \ {0} /\ sz + b <= Space /\ Space \in Nat \ {0}
  BY Sizes DEF Fits
<1> HIDE DEF b
<1>2. s \in Nat /\ s < 2 * Space
  BY <1>1
<1>3. s % Space = IF s < Space THEN s ELSE s - Space
  BY <1>2, Wrap
<1>4. s % Space \in Nat
  BY <1>1, <1>2
<1> DEFINE m == s % Space
<1> HIDE DEF m
<1>5. at = (m \div b) * b
  BY DEF m
<1> HIDE DEF at
<1>6. at \in Nat /\ at <= m /\ at % b = 0
  BY <1>1, <1>4, <1>5, RoundDown DEF m
<1>7. s < Space => base <= at
  <2> SUFFICES ASSUME s < Space PROVE base <= at
    OBVIOUS
  <2>1. at = ((base + b - 1) \div b) * b
    BY <1>3, <1>5 DEF m
  <2> QED BY <2>1, <1>1, RoundUp
<1>8. at + sz < 2 * Space
  BY <1>1, <1>2, <1>3, <1>6 DEF m
<1>9. nb = IF at + sz < Space THEN at + sz ELSE at + sz - Space
  <2>1. PICK t : t = at + sz
    OBVIOUS
  <2>2. t \in Nat /\ t < 2 * Space /\ nb = t % Space
    BY <1>6, <1>8, <2>1
  <2>3. t % Space = IF t < Space THEN t ELSE t - Space
    BY <2>2, Wrap
  <2> HIDE DEF nb
  <2> QED BY <1>1, <1>6, <2>1, <2>2, <2>3
<1>10. nb \in Nat /\ nb < Space
  BY <1>9, <1>8, <1>6, <1>1
<1>11. nb >= base => base <= at /\ nb = at + sz
  BY <1>1, <1>2, <1>3, <1>6, <1>7, <1>9 DEF m
<1>12. base = 0 => at = 0 /\ nb = sz
  <2> SUFFICES ASSUME base = 0 PROVE at = 0 /\ nb = sz
    OBVIOUS
  <2>1. s = b - 1 /\ s < Space
    BY <1>1
  <2>2. m = b - 1
    BY <2>1, <1>3 DEF m
  <2>3. (b - 1) \div b = 0
    BY <1>1
  <2>4. at = 0
    BY <2>2, <2>3, <1>5, <1>1
  <2> QED BY <2>4, <1>9, <1>1
<1> HIDE DEF nb
<1>13. at = AlignUpLog(base, palign)
  BY DEF AlignUpLog, at, s, b
<1>14. nb = (at + sz) % Space
  BY DEF nb
<1> QED BY <1>6, <1>10, <1>11, <1>12, <1>13, <1>14 DEF b

(* The pages that hold an area from 0. *)
LEMMA PagesOf ==
  ASSUME NEW v \in Nat, v < Space
  PROVE  /\ Pages(v) \in Nat
         /\ v + PageSize <= Space => v <= Pages(v) * PageSize
         /\ v + PageSize > Space => Pages(v) = 0
<1> DEFINE b == PageSize
           s == v + b - 1
<1>1. b \in Nat \ {0} /\ Space \in Nat \ {0} /\ b < Space
  BY Sizes
<1> HIDE DEF b
<1>2. s \in Nat /\ s < 2 * Space
  BY <1>1
<1>3. s % Space = IF s < Space THEN s ELSE s - Space
  BY <1>2, Wrap
<1>4. Pages(v) = (s % Space) \div b
  BY DEF Pages, HowMany, b
<1>5. s % Space \in Nat
  BY <1>1, <1>2
<1>6. Pages(v) \in Nat
  BY <1>1, <1>4, <1>5
<1>7. v + b <= Space => v <= Pages(v) * b
  <2> SUFFICES ASSUME v + b <= Space PROVE v <= Pages(v) * b
    OBVIOUS
  <2>1. Pages(v) = (v + b - 1) \div b
    BY <1>1, <1>3, <1>4
  <2> QED BY <2>1, <1>1, RoundUp
<1>8. v + b > Space => Pages(v) = 0
  <2> SUFFICES ASSUME v + b > Space PROVE Pages(v) = 0
    OBVIOUS
  <2>1. s % Space = s - Space
    BY <1>1, <1>3
  <2>2. PICK m \in Nat : m = s - Space /\ m < b
    BY <1>1, <1>2
  <2>3. m \div b = 0
    BY <1>1, <2>2
  <2> QED BY <2>1, <2>2, <2>3, <1>4
<1> QED BY <1>6, <1>7, <1>8 DEF b

\* A record in which only the fields F may have changed
Only(dd, e, F) ==
    /\ DOMAIN dd = DyldFields /\ DOMAIN e = DyldFields
    /\ \A x \in DyldFields \ F : e[x] = dd[x]

(* dyld_allocate_memory: an area at the alignment, above what was reserved
   before and inside of the memory, or an error that changes nothing. *)
LEMMA AllocateMemoryIs ==
  ASSUME NEW dd, NEW palign, NEW sz, NEW r, r = AllocateMemory(dd, palign, sz),
         DOMAIN dd = DyldFields, MemoryOk(dd), Fits(sz, palign, PageSize)
  PROVE  /\ r.err \in {"ok", "assert", "ENOMEM"} /\ Only(dd, r.d, {"membase", "pages"})
         /\ MemoryOk(r.d) /\ DOMAIN r = {"d", "at", "err"}
         /\ r.err # "ok" => r.d = dd
         /\ r.err = "ok" => /\ r.at \in Nat /\ r.at % 2^palign = 0
                          /\ dd.membase <= r.at /\ r.d.membase = r.at + sz
<1> DEFINE M == dd.membase
           at == AlignUpLog(M, palign)
           nb == (at + sz) % Space
           old == Pages(M)
           new == Pages(nb)
           grow == new - old
           ok == [dd EXCEPT !.membase = nb, !.pages = @ + grow]
<1>1. M \in Nat /\ M < Space /\ M + PageSize <= Space /\ sz \in Nat /\ sz + PageSize < Space
      /\ PageSize \in Nat \ {0}
  BY Sizes DEF MemoryOk, Fits
<1>2. /\ at \in Nat /\ nb \in Nat /\ nb < Space /\ at % 2^palign = 0
      /\ nb >= M => M <= at /\ nb = at + sz
      /\ M = 0 => at = 0 /\ nb = sz
  BY <1>1, Aligned
<1>3. old \in Nat /\ M <= old * PageSize
  BY <1>1, PagesOf
<1>4. new \in Nat /\ (nb + PageSize > Space => new = 0)
  BY <1>2, PagesOf
<1>5. r = IF nb < M \/ grow < 0 THEN Result(dd, 0, "assert")
          ELSE IF grow > 0 /\ dd.pages + grow > Space \div PageSize THEN Result(dd, 0, "ENOMEM")
          ELSE IF grow > 0 /\ dd.pages # old THEN Result(dd, 0, "assert")
          ELSE Result(ok, at, "ok")
  BY DEF AllocateMemory, Pages
<1> HIDE DEF M, at, nb, old, new
<1>0. M = dd.membase /\ old = Pages(M) /\ new = Pages(nb)
  BY DEF M, old, new
<1>6. CASE r = Result(dd, 0, "assert") \/ r = Result(dd, 0, "ENOMEM")
  BY <1>6 DEF Result, Only
<1>7. CASE r = Result(ok, at, "ok") /\ nb >= M /\ grow >= 0 /\ (grow > 0 => dd.pages = old)
  <2>1. nb + PageSize <= Space
    <3> SUFFICES ASSUME nb + PageSize > Space PROVE FALSE
      BY <1>1, <1>2, Sizes
    <3>1. new = 0 /\ old = 0
      BY <1>3, <1>4, <1>7
    <3>2. M = 0
      BY <1>1, <1>3, <3>1
    <3> QED BY <3>2, <1>1, <1>2, Sizes
  <2>2. Only(dd, ok, {"membase", "pages"}) /\ ok.membase = nb /\ ok.pages = dd.pages + grow
        /\ ok.grown = dd.grown
    BY DEF Only, DyldFields
  <2>3. new <= dd.pages + grow /\ dd.pages + grow \in Nat
    BY <1>0, <1>3, <1>4, <1>7 DEF MemoryOk
  <2>4. \A g \in dd.grown : g \in Nat /\ new <= g /\ g < dd.pages + grow
    BY <1>0, <1>3, <1>4, <1>7 DEF MemoryOk
  <2> HIDE DEF ok, grow
  <2>5. MemoryOk(ok)
    BY <1>0, <2>1, <2>2, <2>3, <2>4, <1>2 DEF MemoryOk
  <2>6. r.d = ok /\ r.at = at /\ r.err = "ok" /\ DOMAIN r = {"d", "at", "err"}
    BY <1>7 DEF Result
  <2> QED BY <1>0, <2>2, <2>5, <2>6, <1>2, <1>7
<1>8. \/ r = Result(dd, 0, "assert") \/ r = Result(dd, 0, "ENOMEM")
      \/ r = Result(ok, at, "ok") /\ nb >= M /\ grow >= 0 /\ (grow > 0 => dd.pages = old)
  <2>1. grow \in Int
    BY <1>3, <1>4
  <2> HIDE DEF ok, grow
  <2> QED BY <1>1, <1>2, <1>5, <2>1
<1> QED BY <1>6, <1>7, <1>8

AddNulls(s, g) == s \o [i \in 1..g |-> Null]

(* A sequence and what an allocation of the table adds to it. *)
LEMMA SeqNulls ==
  ASSUME NEW s, NEW g \in Nat, NEW t, IsSeq(s), t = AddNulls(s, g)
  PROVE  /\ IsSeq(t) /\ Len(t) = Len(s) + g /\ DOMAIN t = 1..(Len(s) + g)
         /\ \A a \in 1..Len(s) : t[a] = s[a]
         /\ \A a \in DOMAIN t : a > Len(s) => t[a] = Null
<1> DEFINE z == [i \in 1..g |-> Null]
           T == Range(s) \cup {Null}
<1>1. z \in Seq(T) /\ Len(z) = g /\ \A i \in 1..g : z[i] = Null
  OBVIOUS
<1>2. s \in Seq(T)
  BY DEF IsSeq
<1>3. s \o z \in Seq(T) /\ Len(s \o z) = Len(s) + g
  BY <1>1, <1>2
<1>4. IsSeq(s \o z) /\ DOMAIN (s \o z) = 1..(Len(s) + g)
  BY <1>3, SeqIs
<1>5. Len(s) \in Nat
  BY SeqLen
<1>6. \A a \in 1..Len(s) : (s \o z)[a] = s[a]
  BY <1>1, <1>2, <1>5
<1>7. \A a \in 1..(Len(s) + g) : a > Len(s) => (s \o z)[a] = z[a - Len(s)]
  BY <1>1, <1>2, <1>5
<1>8. \A a \in 1..(Len(s) + g) : a > Len(s) => (s \o z)[a] = Null
  <2> TAKE a \in 1..(Len(s) + g)
  <2> HAVE a > Len(s)
  <2>1. a - Len(s) \in 1..g
    BY <1>5
  <2> QED BY <2>1, <1>1, <1>7
<1> QED BY <1>3, <1>4, <1>6, <1>8 DEF AddNulls

(* dyld_allocate_table: elements above what was reserved before, which are
   null, or an error that changes nothing. *)
LEMMA AllocateTableIs ==
  ASSUME NEW dd, NEW palign, NEW sz, NEW r, r = AllocateTable(dd, palign, sz),
         DOMAIN dd = DyldFields, TableOk(dd), Fits(sz, palign, 0)
  PROVE  /\ r.err \in {"ok", "assert", "ENOMEM"} /\ Only(dd, r.d, {"tabbase", "table"})
         /\ TableOk(r.d) /\ DOMAIN r = {"d", "at", "err"}
         /\ r.err # "ok" => r.d = dd
         /\ r.err = "ok" => r.at \in Nat /\ dd.tabbase <= r.at /\ r.d.tabbase = r.at + sz
         /\ dd.tabbase <= r.d.tabbase
         /\ \A a \in DOMAIN dd.table : r.d.table[a] = dd.table[a]
         /\ \A a \in DOMAIN r.d.table : a > dd.tabbase => r.d.table[a] = Null
<1> DEFINE T == dd.tabbase
           at == AlignUpLog(T, palign)
           nb == (at + sz) % Space
           grow == nb - T
           ok == [dd EXCEPT !.tabbase = nb, !.table = @ \o [i \in 1..grow |-> Null]]
<1>1. T \in Nat /\ T < Space /\ sz \in Nat
  BY DEF TableOk, Fits
<1>2. /\ at \in Nat /\ nb \in Nat /\ nb < Space
      /\ nb >= T => T <= at /\ nb = at + sz
  BY <1>1, Aligned
<1>3. r = IF grow < 0 THEN Result(dd, 0, "assert")
          ELSE IF grow > 0 /\ Len(dd.table) + grow > TableMax THEN Result(dd, 0, "ENOMEM")
          ELSE IF grow > 0 /\ Len(dd.table) # T THEN Result(dd, 0, "assert")
          ELSE Result(ok, at, "ok")
  BY DEF AllocateTable
<1> HIDE DEF T, at, nb
<1>0. T = dd.tabbase /\ DOMAIN dd.table = 1..T /\ Len(dd.table) = T
  BY SeqLen DEF T, TableOk
<1>4. CASE r = Result(dd, 0, "assert") \/ r = Result(dd, 0, "ENOMEM")
  <2>1. r.d = dd /\ r.err \in {"assert", "ENOMEM"} /\ DOMAIN r = {"d", "at", "err"}
    BY <1>4 DEF Result
  <2> QED BY <2>1, <1>0, <1>1 DEF Only
<1>5. CASE r = Result(ok, at, "ok") /\ grow >= 0
  <2>1. grow \in Nat /\ nb = T + grow
    BY <1>1, <1>2, <1>5
  <2>2. Only(dd, ok, {"tabbase", "table"}) /\ ok.tabbase = nb
        /\ ok.table = AddNulls(dd.table, grow)
    BY DEF Only, DyldFields, AddNulls
  <2> HIDE DEF ok, grow
  <2>3. r.d = ok /\ r.at = at /\ r.err = "ok" /\ DOMAIN r = {"d", "at", "err"}
    BY <1>5 DEF Result
  <2>4. /\ IsSeq(ok.table) /\ Len(ok.table) = T + grow
        /\ \A a \in DOMAIN dd.table : ok.table[a] = dd.table[a]
        /\ \A a \in DOMAIN ok.table : a > T => ok.table[a] = Null
    BY <1>0, <2>1, <2>2, SeqNulls DEF TableOk
  <2>5. TableOk(ok)
    BY <1>2, <2>1, <2>2, <2>4 DEF TableOk
  <2>6. at \in Nat /\ dd.tabbase <= at /\ ok.tabbase = at + sz /\ dd.tabbase <= ok.tabbase
    BY <1>0, <1>1, <1>2, <2>1, <2>2
  <2> QED BY <1>0, <2>2, <2>3, <2>4, <2>5, <2>6
<1>6. \/ r = Result(dd, 0, "assert") \/ r = Result(dd, 0, "ENOMEM")
      \/ r = Result(ok, at, "ok") /\ grow >= 0
  <2>1. grow \in Int
    BY <1>1, <1>2
  <2> HIDE DEF ok, grow
  <2> QED BY <1>3, <2>1
<1> QED BY <1>4, <1>5, <1>6

-----------------------------------------------------------------------------
(* An object is made.                                                      *)

\* An object that differs in its areas only
OnlyAreas(n, o) ==
    /\ DOMAIN o = ObjFields
    /\ \A x \in ObjFields \ {"mem", "tab", "exp"} : o[x] = n[x]

Plus(s, x) == Append(s, x)
SetMem(e, s, v) == [e EXCEPT !.objs[Len(s) + 1].mem = v]
SetTab(e, s, v) == [e EXCEPT !.objs[Len(s) + 1].tab = v]
SetExp(e, s, v) == [e EXCEPT !.objs[Len(s) + 1].exp = v]
AtMem(o, v) == [o EXCEPT !.mem = v]
AtTab(o, v) == [o EXCEPT !.tab = v]
AtExp(o, v) == [o EXCEPT !.exp = v]

(* The last of the objects gets an area. *)
LEMMA SetArea ==
  ASSUME NEW s, NEW e, NEW o, NEW v,
         IsSeq(s), DOMAIN e = DyldFields, e.objs = Plus(s, o), DOMAIN o = ObjFields
  PROVE  /\ Only(e, SetMem(e, s, v), {"objs"})
         /\ SetMem(e, s, v).objs = Plus(s, AtMem(o, v))
         /\ Only(e, SetTab(e, s, v), {"objs"})
         /\ SetTab(e, s, v).objs = Plus(s, AtTab(o, v))
         /\ Only(e, SetExp(e, s, v), {"objs"})
         /\ SetExp(e, s, v).objs = Plus(s, AtExp(o, v))
<1>0. PICK n : n = Len(s) + 1
  OBVIOUS
<1>1. \A p : [Append(s, o) EXCEPT ![n] = p] = Append(s, p)
  <2> TAKE p
  <2> DEFINE t == [Append(s, o) EXCEPT ![n] = p]
             u == Append(s, p)
             a == Append(s, o)
  <2>1. IsSeq(a) /\ Len(a) = n /\ DOMAIN a = 1..n /\ \A i \in DOMAIN s : a[i] = s[i]
    BY <1>0, SeqAppend
  <2>2. IsSeq(u) /\ Len(u) = n /\ DOMAIN u = 1..n /\ (\A i \in DOMAIN s : u[i] = s[i]) /\ u[n] = p
    BY <1>0, SeqAppend
  <2>3. DOMAIN s = 1..(n - 1) /\ n \in Nat \ {0}
    BY <1>0, SeqLen
  <2> HIDE DEF a, u
  <2>4. t = Put(a, n, p)
    BY DEF a, Put
  <2>5. IsSeq(t) /\ Len(t) = n /\ DOMAIN t = 1..n /\ t[n] = p
        /\ \A i \in DOMAIN a : i # n => t[i] = a[i]
    BY <2>1, <2>3, <2>4, SeqExcept
  <2> HIDE DEF t
  <2>6. \A i \in 1..n : t[i] = u[i]
    BY <2>1, <2>2, <2>3, <2>5
  <2>7. t = [i \in 1..n |-> t[i]] /\ u = [i \in 1..n |-> u[i]]
    BY <2>2, <2>5 DEF IsSeq
  <2>8. t = u
    BY <2>6, <2>7
  <2> QED BY <2>8 DEF t, u
<1>2. Append(s, o)[n] = o
  BY <1>0, SeqAppend
<1>3. SetMem(e, s, v) = [e EXCEPT !.objs = Plus(s, AtMem(o, v))]
  BY <1>0, <1>1, <1>2 DEF SetMem, AtMem, Plus
<1>4. SetTab(e, s, v) = [e EXCEPT !.objs = Plus(s, AtTab(o, v))]
  BY <1>0, <1>1, <1>2 DEF SetTab, AtTab, Plus
<1>5. SetExp(e, s, v) = [e EXCEPT !.objs = Plus(s, AtExp(o, v))]
  BY <1>0, <1>1, <1>2 DEF SetExp, AtExp, Plus
<1>6. \A q : Only(e, [e EXCEPT !.objs = q], {"objs"}) /\ [e EXCEPT !.objs = q].objs = q
  BY DEF Only, DyldFields
<1> QED BY <1>0, <1>3, <1>4, <1>5, <1>6

\* What has become of b while the object, n at first, is made; s are the
\* objects before it.
Stage(b, e, s, n, o) ==
    /\ Only(b, e, {"objs", "membase", "pages", "tabbase", "table"})
    /\ MemoryOk(e) /\ TableOk(e) /\ b.membase <= e.membase /\ b.tabbase <= e.tabbase
    /\ \A a \in DOMAIN b.table : a \in DOMAIN e.table /\ e.table[a] = b.table[a]
    /\ IsSeq(s) /\ e.objs = Plus(s, o) /\ OnlyAreas(n, o)
HasMemory(b, e, o) ==
    /\ o.mem \in Nat /\ o.mem % 2^o.file.align = 0
    /\ b.membase <= o.mem /\ o.mem + o.file.size <= e.membase
HasTable(b, e, o) ==
    o.tab \in Nat /\ b.tabbase <= o.tab /\ o.tab + o.file.tsize <= e.tabbase
HasExports(e, o) ==
    /\ o.exp \in Nat /\ o.tab + o.file.tsize <= o.exp
    /\ o.exp + NExports(o.file) <= e.tabbase
    /\ \A a \in Area(o.exp, NExports(o.file)) : e.table[a + 1] = Null
IsResult(r) == DOMAIN r = {"d", "at", "err"}

(* The elements of a table are counted by its base. *)
LEMMA TableDomain ==
  ASSUME NEW e, TableOk(e)
  PROVE  DOMAIN e.table = 1..e.tabbase /\ e.tabbase \in Nat /\ e.tabbase < Space
BY SeqLen DEF TableOk

(* dyld_allocate_memory_for_obj *)
LEMMA MemoryStage ==
  ASSUME NEW b, NEW e, NEW s, NEW n, NEW o, NEW r, Stage(b, e, s, n, o),
         b.membase \in Nat, Fits(o.file.size, o.file.align, PageSize),
         r = AllocateMemoryForObj(e, Len(s) + 1)
  PROVE  /\ IsResult(r) /\ r.err \in {"ok", "assert", "ENOMEM"}
         /\ \E p : /\ Stage(b, r.d, s, n, p)
                   /\ r.err = "ok" => HasMemory(b, r.d, p)
<1>1. DOMAIN e = DyldFields /\ MemoryOk(e) /\ TableOk(e) /\ IsSeq(s) /\ e.objs = Plus(s, o)
      /\ DOMAIN o = ObjFields /\ b.membase <= e.membase /\ e.membase \in Nat
  BY DEF Stage, Only, OnlyAreas, MemoryOk
<1>2. e.objs[Len(s) + 1] = o
  BY <1>1, SeqAppend DEF Plus
<1>3. PICK v : v = AllocateMemory(e, o.file.align, o.file.size)
  OBVIOUS
<1>4. r = IF v.err # "ok" THEN v ELSE Result(SetMem(v.d, s, v.at), 0, "ok")
  BY <1>2, <1>3 DEF AllocateMemoryForObj, SetMem
<1>5. /\ v.err \in {"ok", "assert", "ENOMEM"} /\ Only(e, v.d, {"membase", "pages"})
      /\ MemoryOk(v.d) /\ DOMAIN v = {"d", "at", "err"}
      /\ v.err # "ok" => v.d = e
      /\ v.err = "ok" => /\ v.at \in Nat /\ v.at % 2^o.file.align = 0
                         /\ e.membase <= v.at /\ v.d.membase = v.at + o.file.size
  BY <1>1, <1>3, AllocateMemoryIs
<1>6. CASE v.err # "ok"
  BY <1>4, <1>5, <1>6 DEF IsResult
<1>7. CASE v.err = "ok"
  <2> DEFINE g == SetMem(v.d, s, v.at)
             p == AtMem(o, v.at)
  <2>1. v.d.objs = Plus(s, o) /\ DOMAIN v.d = DyldFields
    BY <1>1, <1>5 DEF Only, DyldFields
  <2>2. Only(v.d, g, {"objs"}) /\ g.objs = Plus(s, p)
    BY <1>1, <2>1, SetArea
  <2> HIDE DEF g
  <2>3. r.d = g /\ r.err = "ok" /\ IsResult(r)
    BY <1>4, <1>7 DEF Result, IsResult, g
  <2>4. OnlyAreas(n, p) /\ p.mem = v.at /\ p.file = o.file
    BY <1>1 DEF OnlyAreas, ObjFields, Stage, AtMem
  <2> HIDE DEF p
  <2>5. /\ g.membase = v.at + o.file.size /\ g.pages = v.d.pages /\ g.grown = v.d.grown
        /\ g.table = e.table /\ g.tabbase = e.tabbase
    BY <1>5, <1>7, <2>2 DEF Only, DyldFields
  <2>6. Only(b, g, {"objs", "membase", "pages", "tabbase", "table"})
    BY <1>5, <2>2 DEF Only, Stage
  <2>7. MemoryOk(g) /\ TableOk(g)
    BY <1>1, <1>5, <1>7, <2>5 DEF MemoryOk, TableOk
  <2>8. b.membase <= v.at /\ v.at + o.file.size \in Nat /\ v.at <= v.at + o.file.size
    BY <1>1, <1>5, <1>7 DEF Fits
  <2>9. Stage(b, g, s, n, p)
    BY <1>1, <2>2, <2>4, <2>5, <2>6, <2>7, <2>8, <1>5, <1>7 DEF Stage
  <2>10. HasMemory(b, g, p)
    BY <1>5, <1>7, <2>4, <2>5, <2>8 DEF HasMemory
  <2> QED BY <2>3, <2>9, <2>10
<1> QED BY <1>6, <1>7

(* dyld_allocate_table_for_obj *)
LEMMA TableStage ==
  ASSUME NEW b, NEW e, NEW s, NEW n, NEW o, NEW r, Stage(b, e, s, n, o),
         b.tabbase \in Nat, HasMemory(b, e, o), Fits(o.file.tsize, o.file.talign, 0),
         r = AllocateTableForObj(e, Len(s) + 1)
  PROVE  /\ IsResult(r) /\ r.err \in {"ok", "assert", "ENOMEM"}
         /\ \E p : /\ Stage(b, r.d, s, n, p)
                   /\ r.err = "ok" => HasMemory(b, r.d, p) /\ HasTable(b, r.d, p)
<1>1. DOMAIN e = DyldFields /\ MemoryOk(e) /\ TableOk(e) /\ IsSeq(s) /\ e.objs = Plus(s, o)
      /\ DOMAIN o = ObjFields /\ b.tabbase <= e.tabbase /\ e.tabbase \in Nat
  BY DEF Stage, Only, OnlyAreas, TableOk
<1>2. e.objs[Len(s) + 1] = o
  BY <1>1, SeqAppend DEF Plus
<1>3. PICK v : v = AllocateTable(e, o.file.talign, o.file.tsize)
  OBVIOUS
<1>4. r = IF v.err # "ok" THEN v ELSE Result(SetTab(v.d, s, v.at), 0, "ok")
  BY <1>2, <1>3 DEF AllocateTableForObj, SetTab
<1>5. /\ v.err \in {"ok", "assert", "ENOMEM"} /\ Only(e, v.d, {"tabbase", "table"})
      /\ TableOk(v.d) /\ DOMAIN v = {"d", "at", "err"}
      /\ v.err # "ok" => v.d = e
      /\ v.err = "ok" => v.at \in Nat /\ e.tabbase <= v.at /\ v.d.tabbase = v.at + o.file.tsize
      /\ e.tabbase <= v.d.tabbase
      /\ \A a \in DOMAIN e.table : v.d.table[a] = e.table[a]
  BY <1>1, <1>3, AllocateTableIs
<1>6. CASE v.err # "ok"
  BY <1>4, <1>5, <1>6 DEF IsResult
<1>7. CASE v.err = "ok"
  <2> DEFINE g == SetTab(v.d, s, v.at)
             p == AtTab(o, v.at)
  <2>1. v.d.objs = Plus(s, o) /\ DOMAIN v.d = DyldFields
    BY <1>1, <1>5 DEF Only, DyldFields
  <2>2. Only(v.d, g, {"objs"}) /\ g.objs = Plus(s, p)
    BY <1>1, <2>1, SetArea
  <2> HIDE DEF g
  <2>3. r.d = g /\ r.err = "ok" /\ IsResult(r)
    BY <1>4, <1>7 DEF Result, IsResult, g
  <2>4. OnlyAreas(n, p) /\ p.tab = v.at /\ p.file = o.file /\ p.mem = o.mem
    BY <1>1 DEF OnlyAreas, ObjFields, Stage, AtTab
  <2> HIDE DEF p
  <2>5. /\ g.tabbase = v.at + o.file.tsize /\ g.table = v.d.table
        /\ g.membase = e.membase /\ g.pages = e.pages /\ g.grown = e.grown
    BY <1>5, <1>7, <2>2 DEF Only, DyldFields
  <2>6. Only(b, g, {"objs", "membase", "pages", "tabbase", "table"})
    BY <1>5, <2>2 DEF Only, Stage
  <2>7. MemoryOk(g) /\ TableOk(g)
    BY <1>1, <1>5, <1>7, <2>5 DEF MemoryOk, TableOk
  <2>8. b.tabbase <= v.at /\ v.at + o.file.tsize \in Nat /\ v.at <= v.at + o.file.tsize
    BY <1>1, <1>5, <1>7 DEF Fits
  <2>9. \A a \in DOMAIN e.table : a \in DOMAIN g.table
    BY <1>1, <1>5, <2>5, <2>7, TableDomain
  <2>10. \A a \in DOMAIN b.table : a \in DOMAIN g.table /\ g.table[a] = b.table[a]
    BY <1>5, <2>5, <2>9 DEF Stage
  <2>11. Stage(b, g, s, n, p)
    BY <1>1, <2>2, <2>4, <2>5, <2>6, <2>7, <2>8, <2>10, <1>5, <1>7 DEF Stage
  <2>12. HasMemory(b, g, p)
    BY <2>4, <2>5 DEF HasMemory
  <2>13. HasTable(b, g, p)
    BY <1>5, <1>7, <2>4, <2>5, <2>8 DEF HasTable
  <2> QED BY <2>3, <2>11, <2>12, <2>13
<1> QED BY <1>6, <1>7

\* The table with the functions of an object's segments
Filled(t, o) ==
    [i \in DOMAIN t |-> IF i - 1 \in o.tab..(o.tab + o.file.tsize - 1)
                        THEN [o |-> o.id, f |-> -i] ELSE t[i]]

(* instance_create writes to the area of the object only. *)
LEMMA CreateStage ==
  ASSUME NEW b, NEW e, NEW s, NEW n, NEW o, NEW r, Stage(b, e, s, n, o), TableOk(b),
         HasMemory(b, e, o), HasTable(b, e, o), o.file.tsize \in Nat,
         r = InstanceCreate(e, e.objs[Len(s) + 1])
  PROVE  /\ IsResult(r) /\ r.err \in {"ok", "ENOENT", "EFAULT"}
         /\ Stage(b, r.d, s, n, o) /\ HasMemory(b, r.d, o) /\ HasTable(b, r.d, o)
<1>1. DOMAIN e = DyldFields /\ IsSeq(s) /\ e.objs = Plus(s, o) /\ TableOk(e)
  BY DEF Stage, Only
<1>2. e.objs[Len(s) + 1] = o
  BY <1>1, SeqAppend DEF Plus
<1>3. CASE o.file.inst = "noimport"
  <2>1. r = Result(e, 0, "ENOENT")
    BY <1>2, <1>3 DEF InstanceCreate
  <2> QED BY <2>1 DEF Result, IsResult
<1>4. CASE o.file.inst # "noimport"
  <2>1. PICK t : t = Filled(e.table, o)
    OBVIOUS
  <2>2. PICK g : g = [e EXCEPT !.table = t]
    OBVIOUS
  <2>3. r = Result(g, 0, IF o.file.inst = "trap" THEN "EFAULT" ELSE "ok")
    BY <1>2, <1>4, <2>1, <2>2 DEF InstanceCreate, Filled
  <2>4. r.d = g /\ IsResult(r) /\ r.err \in {"EFAULT", "ok"}
    BY <2>3 DEF Result, IsResult
  <2>5. /\ Only(e, g, {"table"}) /\ g.table = t /\ g.objs = e.objs /\ g.tabbase = e.tabbase
        /\ g.membase = e.membase /\ g.pages = e.pages /\ g.grown = e.grown
    BY <1>1, <2>2 DEF Only, DyldFields
  <2>6. DOMAIN e.table = 1..e.tabbase /\ e.tabbase \in Nat /\ e.tabbase < Space
    BY <1>1, TableDomain
  <2>7. DOMAIN t = 1..e.tabbase /\ t = [i \in 1..e.tabbase |-> t[i]]
        /\ \A i \in 1..e.tabbase : i <= o.tab => t[i] = e.table[i]
    BY <2>1, <2>6 DEF Filled, HasTable
  <2>8. IsSeq(t) /\ Len(t) = e.tabbase
    BY <2>6, <2>7, SeqFcn
  <2>9. TableOk(g)
    BY <2>5, <2>6, <2>8 DEF TableOk
  <2>10. MemoryOk(g)
    BY <2>5 DEF MemoryOk, Stage
  <2>11. DOMAIN b.table = 1..b.tabbase /\ b.tabbase \in Nat
    BY TableDomain
  <2>12. \A a \in DOMAIN b.table : a \in DOMAIN g.table /\ g.table[a] = b.table[a]
    <3> TAKE a \in DOMAIN b.table
    <3>1. a \in DOMAIN e.table /\ e.table[a] = b.table[a]
      BY DEF Stage
    <3>2. a <= o.tab
      BY <2>11 DEF HasTable
    <3> QED BY <2>5, <2>6, <2>7, <3>1, <3>2
  <2>13. Only(b, g, {"objs", "membase", "pages", "tabbase", "table"})
    BY <2>5 DEF Only, Stage
  <2>14. Stage(b, g, s, n, o)
    BY <2>5, <2>9, <2>10, <2>12, <2>13 DEF Stage
  <2>15. HasMemory(b, g, o) /\ HasTable(b, g, o)
    BY <2>5 DEF HasMemory, HasTable
  <2> QED BY <2>4, <2>14, <2>15
<1> QED BY <1>3, <1>4

(* The exported functions can be counted. *)
LEMMA NExportsIs ==
  ASSUME NEW f, f.exports \in Seq(Range(f.exports)), Fits(Len(f.exports), 0, 0)
  PROVE  NExports(f) \in Nat /\ Fits(NExports(f), 0, 0)
<1> DEFINE S == {i \in DOMAIN f.exports : f.exports[i].k = "func"}
<1>1. Len(f.exports) \in Nat /\ DOMAIN f.exports = 1..Len(f.exports)
  OBVIOUS
<1>2. IsFiniteSet(1..Len(f.exports)) /\ Cardinality(1..Len(f.exports)) = Len(f.exports)
  BY <1>1, FS_Interval
<1>3. IsFiniteSet(S) /\ Cardinality(S) <= Len(f.exports)
  BY <1>1, <1>2, FS_Subset
<1>4. Cardinality(S) \in Nat
  BY <1>3, FS_CardinalityType
<1>5. NExports(f) = Cardinality(S)
  BY DEF NExports
<1> HIDE DEF S
<1> QED BY <1>1, <1>3, <1>4, <1>5, Sizes DEF Fits

(* dyld_allocate_table_for_obj_exports *)
LEMMA ExportsStage ==
  ASSUME NEW b, NEW e, NEW s, NEW n, NEW o, NEW r, Stage(b, e, s, n, o),
         TableOk(b), HasMemory(b, e, o), HasTable(b, e, o), o.file.tsize \in Nat,
         NExports(o.file) \in Nat, Fits(NExports(o.file), 0, 0),
         r = AllocateTableForObjExports(e, Len(s) + 1)
  PROVE  /\ IsResult(r) /\ r.err \in {"ok", "assert", "ENOMEM"}
         /\ \A a \in DOMAIN e.table : a \in DOMAIN r.d.table /\ r.d.table[a] = e.table[a]
         /\ \E p : /\ Stage(b, r.d, s, n, p)
                   /\ r.err = "ok" => /\ HasMemory(b, r.d, p) /\ HasTable(b, r.d, p)
                                      /\ HasExports(r.d, p)
<1>1. DOMAIN e = DyldFields /\ MemoryOk(e) /\ TableOk(e) /\ IsSeq(s) /\ e.objs = Plus(s, o)
      /\ DOMAIN o = ObjFields /\ b.tabbase <= e.tabbase /\ e.tabbase \in Nat
  BY DEF Stage, Only, OnlyAreas, TableOk
<1>2. e.objs[Len(s) + 1] = o
  BY <1>1, SeqAppend DEF Plus
<1> DEFINE N == NExports(o.file)
<1>3. PICK v : v = AllocateTable(e, 0, N)
  OBVIOUS
<1>4. r = IF v.err # "ok" THEN v ELSE Result(SetExp(v.d, s, v.at), 0, "ok")
  BY <1>2, <1>3 DEF AllocateTableForObjExports, SetExp
<1>5. /\ v.err \in {"ok", "assert", "ENOMEM"} /\ Only(e, v.d, {"tabbase", "table"})
      /\ TableOk(v.d) /\ DOMAIN v = {"d", "at", "err"}
      /\ v.err # "ok" => v.d = e
      /\ v.err = "ok" => v.at \in Nat /\ e.tabbase <= v.at /\ v.d.tabbase = v.at + N
      /\ e.tabbase <= v.d.tabbase
      /\ \A a \in DOMAIN e.table : v.d.table[a] = e.table[a]
      /\ \A a \in DOMAIN v.d.table : a > e.tabbase => v.d.table[a] = Null
  BY <1>1, <1>3, AllocateTableIs
<1>6. CASE v.err # "ok"
  BY <1>4, <1>5, <1>6 DEF IsResult
<1>7. CASE v.err = "ok"
  <2> DEFINE g == SetExp(v.d, s, v.at)
             p == AtExp(o, v.at)
  <2>1. v.d.objs = Plus(s, o) /\ DOMAIN v.d = DyldFields
    BY <1>1, <1>5 DEF Only, DyldFields
  <2>a. PICK y : y = v.d
    OBVIOUS
  <2>b. PICK z : z = v.at
    OBVIOUS
  <2>d. IsSeq(s) /\ DOMAIN y = DyldFields /\ y.objs = Plus(s, o) /\ DOMAIN o = ObjFields
    BY <1>1, <2>1, <2>a
  <2>c. Only(y, SetExp(y, s, z), {"objs"}) /\ SetExp(y, s, z).objs = Plus(s, AtExp(o, z))
    BY ONLY <2>d, SetArea
  <2>2. Only(v.d, g, {"objs"}) /\ g.objs = Plus(s, p)
    BY <2>a, <2>b, <2>c
  <2> HIDE DEF g
  <2>3. r.d = g /\ r.err = "ok" /\ IsResult(r)
    BY <1>4, <1>7 DEF Result, IsResult, g
  <2>4. OnlyAreas(n, p) /\ p.exp = v.at /\ p.file = o.file /\ p.mem = o.mem /\ p.tab = o.tab
    BY <1>1 DEF OnlyAreas, ObjFields, Stage, AtExp
  <2> HIDE DEF p
  <2>5. /\ g.tabbase = v.at + N /\ g.table = v.d.table
        /\ g.membase = e.membase /\ g.pages = e.pages /\ g.grown = e.grown
    BY <1>5, <1>7, <2>2 DEF Only, DyldFields
  <2>6. Only(b, g, {"objs", "membase", "pages", "tabbase", "table"})
    BY <1>5, <2>2 DEF Only, Stage
  <2>7. MemoryOk(g) /\ TableOk(g)
    BY <1>1, <1>5, <1>7, <2>5 DEF MemoryOk, TableOk
  <2>8. e.tabbase <= v.at /\ v.at + N \in Nat /\ v.at <= v.at + N /\ v.at \in Nat
    BY <1>1, <1>5, <1>7
  <2>9. \A a \in DOMAIN e.table : a \in DOMAIN g.table
    BY <1>1, <1>5, <2>5, <2>7, TableDomain
  <2>10. \A a \in DOMAIN b.table : a \in DOMAIN g.table /\ g.table[a] = b.table[a]
    BY <1>5, <2>5, <2>9 DEF Stage
  <2>11. b.tabbase <= v.at + N /\ b.tabbase \in Nat
    BY <1>1, <2>8 DEF TableOk
  <2>12. Stage(b, g, s, n, p)
    BY <1>1, <2>2, <2>4, <2>5, <2>6, <2>7, <2>8, <2>10, <2>11, <1>5, <1>7 DEF Stage
  <2>13. HasMemory(b, g, p)
    BY <2>4, <2>5 DEF HasMemory
  <2>14. HasTable(b, g, p)
    BY <1>1, <2>4, <2>5, <2>8, <2>11 DEF HasTable
  <2>15. DOMAIN g.table = 1..(v.at + N)
    BY <2>5, <2>7, TableDomain
  <2>16. \A a \in Area(v.at, N) : g.table[a + 1] = Null
    <3> TAKE a \in Area(v.at, N)
    <3>1. a + 1 \in 1..(v.at + N) /\ a + 1 > e.tabbase
      BY <1>1, <2>8 DEF Area
    <3> QED BY <1>5, <2>5, <2>15, <3>1
  <2>17. HasExports(g, p)
    BY <1>1, <2>4, <2>5, <2>8, <2>16 DEF HasExports, HasTable
  <2>18. \A a \in DOMAIN e.table : a \in DOMAIN g.table /\ g.table[a] = e.table[a]
    BY <1>5, <2>5, <2>9
  <2> QED BY <2>3, <2>12, <2>13, <2>14, <2>17, <2>18
<1> QED BY <1>6, <1>7

\* The results of the steps of dyld_load_object_from_file
IsLib(dd, f) == dd.objs # <<>> \/ f.pie
Steps(dd, b, f, n, r1, r2, r3, r4, r5) ==
    /\ r1 = IF IsLib(dd, f) THEN AllocateMemoryForObj(b, n) ELSE Result(b, 0, "ok")
    /\ r2 = IF r1.err = "ok" /\ IsLib(dd, f) THEN AllocateTableForObj(r1.d, n) ELSE r1
    /\ r3 = IF r2.err = "ok"
            THEN IF ~(r2.d.shared \/ world.base) THEN Result(r2.d, 0, "assert")
                 ELSE InstanceCreate(r2.d, r2.d.objs[n])
            ELSE r2
    /\ r4 = IF r3.err = "ok" /\ ~IsLib(dd, f)
            THEN AdoptSharedResources(r3.d, dd.ids + 1, f) ELSE r3
    /\ r5 = IF r4.err = "ok" THEN AllocateTableForObjExports(r4.d, n) ELSE r4

(* The results of dyld_load_object_from_file come from its steps. *)
LEMMA LoadSteps ==
  ASSUME NEW dd, NEW key, NEW name, NEW f, NEW r,
         r \in LoadObjectFromFile(dd, key, name, f), f # NoFile, f.valid, f.dylink
  PROVE  \E r1, r2, r3, r4, r5 :
           /\ Steps(dd, StartObject(dd, key, name, f), f, Len(dd.objs) + 1, r1, r2, r3, r4, r5)
           /\ r = IF r5.err = "ok" THEN r5 ELSE ObjectDestroy(r5)
<1> DEFINE n         == Len(dd.objs) + 1
           lib       == dd.objs # <<>> \/ f.pie
           b         == StartObject(dd, key, name, f)
           Memory(q) == IF lib THEN AllocateMemoryForObj(q.d, n) ELSE q
           Table(q)  == IF lib THEN AllocateTableForObj(q.d, n) ELSE q
           Create(q) == IF ~(q.d.shared \/ world.base) THEN Result(q.d, 0, "assert")
                        ELSE InstanceCreate(q.d, q.d.objs[n])
           Adopt(q)  == IF lib THEN q ELSE AdoptSharedResources(q.d, dd.ids + 1, f)
           Exports(q) == AllocateTableForObjExports(q.d, n)
           R1 == {IF q.err = "ok" THEN Memory(q) ELSE q : q \in {Result(b, 0, "ok")}}
           R2 == {IF q.err = "ok" THEN Table(q) ELSE q : q \in R1}
           R3 == {IF q.err = "ok" THEN Create(q) ELSE q : q \in R2}
           R4 == {IF q.err = "ok" THEN Adopt(q) ELSE q : q \in R3}
           R5 == {IF q.err = "ok" THEN Exports(q) ELSE q : q \in R4}
<1>1. r \in {IF q.err = "ok" THEN q ELSE ObjectDestroy(q) : q \in R5}
  BY DEF LoadObjectFromFile, After
<1> HIDE DEF R5
<1>2. PICK r5 \in R5 : r = IF r5.err = "ok" THEN r5 ELSE ObjectDestroy(r5)
  BY <1>1
<1> HIDE DEF R4
<1>3. PICK r4 \in R4 : r5 = IF r4.err = "ok" THEN Exports(r4) ELSE r4
  BY <1>2 DEF R5
<1> HIDE DEF R3
<1>4. PICK r3 \in R3 : r4 = IF r3.err = "ok" THEN Adopt(r3) ELSE r3
  BY <1>3 DEF R4
<1> HIDE DEF R2
<1>5. PICK r2 \in R2 : r3 = IF r2.err = "ok" THEN Create(r2) ELSE r2
  BY <1>4 DEF R3
<1> HIDE DEF R1
<1>6. PICK r1 \in R1 : r2 = IF r1.err = "ok" THEN Table(r1) ELSE r1
  BY <1>5 DEF R2
<1> HIDE DEF b
<1>7. r1 = IF lib THEN AllocateMemoryForObj(b, n) ELSE Result(b, 0, "ok")
  <2>1. PICK q : q = Result(b, 0, "ok")
    OBVIOUS
  <2>2. q.err = "ok" /\ q.d = b
    BY <2>1 DEF Result
  <2>3. r1 = IF q.err = "ok" THEN Memory(q) ELSE q
    BY <1>6, <2>1 DEF R1
  <2> QED BY <2>1, <2>2, <2>3
<1>8. r4 = IF r3.err = "ok" /\ ~lib THEN AdoptSharedResources(r3.d, dd.ids + 1, f) ELSE r3
  BY <1>4
<1>9. r2 = IF r1.err = "ok" /\ lib THEN AllocateTableForObj(r1.d, n) ELSE r1
  BY <1>6
<1>10. lib = IsLib(dd, f)
  BY DEF IsLib
<1> HIDE DEF n, lib
<1>11. Steps(dd, b, f, n, r1, r2, r3, r4, r5)
  BY <1>3, <1>5, <1>7, <1>8, <1>9, <1>10 DEF Steps
<1> QED BY <1>2, <1>11 DEF b, n

MakeFields == {"objs", "pie", "shared", "ids", "membase", "pages", "tabbase", "table"}
\* More was reserved.
Grew(dd, e) ==
    /\ Only(dd, e, MakeFields) /\ MemoryOk(e) /\ TableOk(e) /\ e.ids \in Nat
    /\ dd.membase <= e.membase /\ dd.tabbase <= e.tabbase
    /\ \A a \in DOMAIN dd.table : a \in DOMAIN e.table /\ e.table[a] = dd.table[a]
\* The object could not be made,
Kept(dd, e) == Grew(dd, e) /\ e.objs = dd.objs
\* ... or it is the last one now, with areas above all others.
Unbound(o) == \A i \in DOMAIN o.plt : o.plt[i] = Null
Added(w, dd, e, o) ==
    /\ Grew(dd, e) /\ e.objs = Plus(dd.objs, o)
    /\ ObjOk(w, o) /\ o.seen = 0 /\ Fresh(o) /\ Unbound(o)
    /\ dd.membase <= o.mem /\ dd.tabbase <= o.tab
    /\ o.mem + o.file.size <= e.membase /\ HasExports(e, o)
    /\ e.tabbase > 0 /\ e.table[1] = Null
\* Nothing is reserved before the first object.
Blank(dd) == dd.membase = 0 /\ dd.tabbase = 0 /\ dd.grown = {} /\ dd.table = <<>>
\* What is given of a new object
Made(n, id, key, name, f) ==
    /\ DOMAIN n = ObjFields /\ n.id = id /\ n.file = f /\ n.seen = 0 /\ Fresh(n) /\ Unbound(n)
    /\ n.key = key /\ n.name = name /\ n.visited = FALSE
    /\ DOMAIN n.got = Gots(f) /\ DOMAIN n.plt = Plts(f)
    /\ n.mem = 0 /\ n.tab = 0 /\ n.exp = 0
    /\ n.load = IF calls = <<>> THEN 1 ELSE Top.start

(* dyld_create_got and the object around it. *)
LEMMA NewObjectIs ==
  ASSUME NEW id, NEW key, NEW name, NEW f, NEW n, n = NewObject(id, key, name, f)
  PROVE  Made(n, id, key, name, f)
BY DEF NewObject, Made, ObjFields, Fresh, Unbound, Top

\* dyld_load_object_from_file has begun.
Began(dd, b, n, f) ==
    /\ Only(dd, b, {"objs", "pie", "shared", "ids", "pages", "tabbase", "table"})
    /\ MemoryOk(b) /\ TableOk(b) /\ b.ids \in Nat
    /\ dd.membase = b.membase /\ dd.tabbase <= b.tabbase
    /\ \A a \in DOMAIN dd.table : a \in DOMAIN b.table /\ b.table[a] = dd.table[a]
    /\ IsSeq(dd.objs) /\ b.objs = Plus(dd.objs, n)
    /\ IsLib(dd, f) => b.tabbase > 0 /\ b.table[1] = Null

(* The shared resources and the object in its first state. *)
LEMMA StartObjectIs ==
  ASSUME NEW dd, NEW key, NEW name, NEW f, NEW b, NEW n, b = StartObject(dd, key, name, f),
         n = NewObject(dd.ids + 1, key, name, f),
         DOMAIN dd = DyldFields, IsSeq(dd.objs), dd.ids \in Nat, Rooms(dd),
         dd.objs = <<>> => Blank(dd)
  PROVE  /\ Began(dd, b, n, f)
         /\ ~IsLib(dd, f) => b.tabbase = 0 /\ b.table = <<>> /\ b.grown = {} /\ b.membase = 0
<1>1. PICK c : c = IF dd.objs = <<>> /\ f.pie
                   THEN CreateSharedImportObjects(CreateSharedResources(dd)) ELSE dd
  OBVIOUS
<1>2. b = [c EXCEPT !.ids = @ + 1, !.objs = Append(@, n)]
  BY <1>1 DEF StartObject
<1>3. CASE dd.objs = <<>> /\ f.pie
  <2>1. PICK t : t = <<Null>>
    OBVIOUS
  <2>2. c = [dd EXCEPT !.pie = TRUE, !.tabbase = 1, !.table = t,
                       !.pages = Pages(dd.membase), !.shared = TRUE]
    BY <1>1, <1>3, <2>1 DEF CreateSharedImportObjects, CreateSharedResources, Pages
  <2>3. /\ DOMAIN b = DyldFields /\ b.tabbase = 1 /\ b.table = t /\ b.pages = Pages(dd.membase)
        /\ b.membase = dd.membase /\ b.grown = dd.grown /\ b.ids = dd.ids + 1
        /\ b.objs = Plus(dd.objs, n)
    BY <1>2, <2>2 DEF DyldFields, Plus
  <2>4. Only(dd, b, {"objs", "pie", "shared", "ids", "pages", "tabbase", "table"})
    BY <1>2, <2>2 DEF Only, DyldFields
  <2>5. Pages(dd.membase) \in Nat /\ dd.membase \in Nat /\ dd.membase + PageSize <= Space
    BY Sizes, PagesOf DEF Rooms, MemoryOk
  <2>6. MemoryOk(b)
    BY <1>3, <2>3, <2>5 DEF MemoryOk, Blank
  <2>7. IsSeq(t) /\ Len(t) = 1 /\ t[1] = Null
    <3>1. t \in Seq({Null}) /\ Len(t) = 1 /\ t[1] = Null
      BY <2>1
    <3> QED BY <3>1, SeqIs
  <2>8. TableOk(b)
    BY <2>3, <2>7, Sizes DEF TableOk
  <2>9. dd.tabbase = 0 /\ DOMAIN dd.table = {}
    BY <1>3 DEF Blank
  <2> QED BY <1>3, <2>3, <2>4, <2>6, <2>7, <2>8, <2>9 DEF Began, IsLib
<1>4. CASE ~(dd.objs = <<>> /\ f.pie)
  <2>1. c = dd
    BY <1>1, <1>4
  <2>2. /\ Only(dd, b, {"objs", "pie", "shared", "ids", "pages", "tabbase", "table"})
        /\ b.objs = Plus(dd.objs, n) /\ b.ids = dd.ids + 1
        /\ b.membase = dd.membase /\ b.grown = dd.grown /\ b.pages = dd.pages
        /\ b.tabbase = dd.tabbase /\ b.table = dd.table
    BY <1>2, <2>1 DEF Only, DyldFields, Plus
  <2>3. MemoryOk(b) /\ TableOk(b) /\ dd.tabbase \in Nat
    BY <2>2 DEF Rooms, MemoryOk, TableOk
  <2>4. Began(dd, b, n, f)
    BY <1>4, <2>2, <2>3 DEF Began, IsLib, Rooms
  <2>5. ~IsLib(dd, f) => b.tabbase = 0 /\ b.table = <<>> /\ b.grown = {} /\ b.membase = 0
    BY <2>2 DEF IsLib, Blank
  <2> QED BY <2>4, <2>5
<1> QED BY <1>3, <1>4

(* The object is dropped: what it reserved stays. *)
LEMMA Dropped ==
  ASSUME NEW dd, NEW b, NEW b2, NEW n, NEW f, NEW o, NEW r,
         Began(dd, b, n, f), Only(b, b2, {"shared"}), IsResult(r), dd.tabbase \in Nat,
         Stage(b2, r.d, dd.objs, n, o)
  PROVE  Kept(dd, ObjectDestroy(r).d) /\ ObjectDestroy(r).err = r.err
<1>1. PICK e : e = [r.d EXCEPT !.objs = Front(@)]
  OBVIOUS
<1>2. ObjectDestroy(r).d = e /\ ObjectDestroy(r).err = r.err
  BY <1>1 DEF ObjectDestroy, IsResult
<1>3. DOMAIN r.d = DyldFields /\ r.d.objs = Plus(dd.objs, o) /\ IsSeq(dd.objs)
  BY DEF Stage, Only
<1>4. Front(r.d.objs) = dd.objs
  BY <1>3, SeqFrontAppend DEF Plus
<1>5. /\ Only(r.d, e, {"objs"}) /\ e.objs = dd.objs /\ e.membase = r.d.membase
      /\ e.pages = r.d.pages /\ e.grown = r.d.grown /\ e.tabbase = r.d.tabbase
      /\ e.table = r.d.table /\ e.ids = r.d.ids
  BY <1>1, <1>3, <1>4 DEF Only, DyldFields
<1>6. MemoryOk(e) /\ TableOk(e)
  BY <1>5 DEF Stage, MemoryOk, TableOk
<1>7. Only(dd, e, MakeFields)
  BY <1>5 DEF Only, Stage, Began, MakeFields
<1>8. b2.membase = b.membase /\ b2.tabbase = b.tabbase /\ b2.table = b.table /\ b2.ids = b.ids
  BY DEF Only, DyldFields
<1>9. e.ids \in Nat
  <2>1. r.d.ids = b2.ids
    BY DEF Only, DyldFields, Stage
  <2> QED BY <2>1, <1>5, <1>8 DEF Began
<1>10. dd.membase <= e.membase /\ dd.tabbase <= e.tabbase
  <2>1. b2.membase <= e.membase /\ b2.tabbase <= e.tabbase
    BY <1>5 DEF Stage
  <2>2. dd.membase = b2.membase /\ dd.tabbase <= b2.tabbase /\ b2.tabbase \in Nat
    BY <1>8 DEF Began, TableOk
  <2>3. e.tabbase \in Nat
    BY <1>6 DEF TableOk
  <2> QED BY <2>1, <2>2, <2>3
<1>11. \A a \in DOMAIN dd.table : a \in DOMAIN e.table /\ e.table[a] = dd.table[a]
  BY <1>5, <1>8 DEF Stage, Began
<1> QED BY <1>2, <1>5, <1>6, <1>7, <1>9, <1>10, <1>11 DEF Kept, Grew

Keeps(t, u) == \A a \in DOMAIN t : a \in DOMAIN u /\ u[a] = t[a]
Is(o, id, key, name, f) ==
    /\ o.id = id /\ o.file = f /\ o.key = key /\ o.name = name /\ o.visited = FALSE
    /\ o.load = IF calls = <<>> THEN 1 ELSE Top.start
Finishing(w, dd, b, c, n, f, o, e, id, key, name) ==
    /\ Began(dd, b, n, f) /\ Only(b, c, {"shared"})
    /\ Stage(c, e, dd.objs, n, o) /\ Made(n, id, key, name, f) /\ WellFormed(w, f)
    /\ id \in Nat \ {0} /\ dd.tabbase \in Nat /\ dd.membase \in Nat
    /\ dd.membase <= c.membase /\ dd.tabbase <= c.tabbase
    /\ c.membase \in Nat /\ c.tabbase \in Nat /\ Keeps(dd.table, e.table)
    /\ HasMemory(c, e, o) /\ HasTable(c, e, o) /\ HasExports(e, o)
    /\ e.tabbase > 0 /\ e.table[1] = Null /\ (c.tabbase > 0 \/ f.tsize > 0)
(* The object is made. *)
LEMMA Finished ==
  ASSUME NEW w, NEW dd, NEW b, NEW b2, NEW n, NEW f, NEW o, NEW e, NEW id, NEW key, NEW name,
         Finishing(w, dd, b, b2, n, f, o, e, id, key, name)
  PROVE  Added(w, dd, e, o) /\ Is(o, id, key, name, f)
<1> USE DEF Finishing
<1>1. /\ o.id = id /\ o.file = f /\ o.key = key /\ o.name = name /\ o.visited = FALSE
      /\ o.seen = 0 /\ o.got = n.got /\ o.plt = n.plt /\ DOMAIN o = ObjFields /\ o.load = n.load
  BY DEF Stage, OnlyAreas, ObjFields, Made
<1>2. Fresh(o) /\ Unbound(o) /\ DOMAIN o.got = Gots(f) /\ DOMAIN o.plt = Plts(f)
  BY <1>1 DEF Fresh, Unbound, Made
<1>3. f.tsize \in Nat /\ f.size \in Nat
  BY DEF WellFormed, Fits
<1>4. o.exp \in Nat \ {0}
  BY <1>1, <1>3 DEF HasTable, HasExports
<1>5. ObjOk(w, o)
  BY <1>1, <1>2, <1>4 DEF ObjOk, HasMemory, HasTable
<1>6. Only(dd, e, MakeFields)
  BY DEF Only, Stage, Began, MakeFields
<1>7. e.ids = b.ids /\ b.ids \in Nat
  BY DEF Only, DyldFields, Stage, Began
<1>8. MemoryOk(e) /\ TableOk(e) /\ b2.membase <= e.membase /\ b2.tabbase <= e.tabbase
      /\ e.objs = Plus(dd.objs, o)
  BY DEF Stage
<1>9. dd.membase <= e.membase /\ dd.tabbase <= e.tabbase
  BY <1>8 DEF MemoryOk, TableOk
<1>10. Grew(dd, e)
  BY <1>6, <1>7, <1>8, <1>9 DEF Grew, Keeps
<1>11. dd.membase <= o.mem /\ dd.tabbase <= o.tab /\ o.mem + o.file.size <= e.membase
  BY DEF HasMemory, HasTable
<1> QED BY <1>1, <1>2, <1>5, <1>8, <1>10, <1>11 DEF Added, Is, Made

\* What dyld_load_object_from_file does
Loaded(w, dd, key, name, f, r) ==
    /\ r.err # "ok" => Kept(dd, r.d)
    /\ r.err = "ok" => \E o : Added(w, dd, r.d, o) /\ Is(o, dd.ids + 1, key, name, f)
Loadable(dd) ==
    /\ DOMAIN dd = DyldFields /\ IsSeq(dd.objs) /\ dd.ids \in Nat /\ Rooms(dd)
    /\ dd.objs = <<>> => Blank(dd)

(* A library, or a main module that is pie: areas are allocated first. *)
LEMMA LoadLib ==
  ASSUME NEW w, NEW dd, NEW key, NEW name, NEW f, NEW r,
         r \in LoadObjectFromFile(dd, key, name, f), f # NoFile, f.valid, f.dylink,
         WellFormed(w, f), Loadable(dd), IsLib(dd, f)
  PROVE  Loaded(w, dd, key, name, f, r)
<1>1. PICK b : b = StartObject(dd, key, name, f)
  OBVIOUS
<1>2. PICK n : n = NewObject(dd.ids + 1, key, name, f)
  OBVIOUS
<1>3. PICK r1, r2, r3, r4, r5 :
        /\ Steps(dd, b, f, Len(dd.objs) + 1, r1, r2, r3, r4, r5)
        /\ r = IF r5.err = "ok" THEN r5 ELSE ObjectDestroy(r5)
  BY <1>1, LoadSteps
<1>4. Began(dd, b, n, f)
  BY <1>1, <1>2, StartObjectIs DEF Loadable
<1>5. Made(n, dd.ids + 1, key, name, f)
  BY <1>2, NewObjectIs
<1>6. /\ b.membase \in Nat /\ b.tabbase \in Nat /\ TableOk(b) /\ MemoryOk(b) /\ IsSeq(dd.objs)
      /\ b.tabbase > 0 /\ b.table[1] = Null /\ DOMAIN b = DyldFields
      /\ dd.membase = b.membase /\ dd.tabbase <= b.tabbase /\ dd.tabbase \in Nat
  BY <1>4 DEF Began, MemoryOk, TableOk, Only, Loadable, Rooms
<1>7. Stage(b, b, dd.objs, n, n)
  BY <1>4, <1>5, <1>6 DEF Stage, Began, Only, OnlyAreas, Made
<1>8. /\ Fits(f.size, f.align, PageSize) /\ Fits(f.tsize, f.talign, 0) /\ f.tsize \in Nat
      /\ NExports(f) \in Nat /\ Fits(NExports(f), 0, 0)
  BY NExportsIs DEF WellFormed, Fits
<1>9. \A e, o : Stage(b, e, dd.objs, n, o) => o.file = f /\ Only(b, e, MakeFields)
  BY <1>5 DEF Stage, OnlyAreas, Made, ObjFields, Only, MakeFields
<1>10. Only(b, b, {"shared"})
  BY <1>6 DEF Only
<1>11. r1 = AllocateMemoryForObj(b, Len(dd.objs) + 1)
  BY <1>3 DEF Steps
<1>12. PICK o1 : /\ IsResult(r1) /\ Stage(b, r1.d, dd.objs, n, o1)
                 /\ r1.err = "ok" => HasMemory(b, r1.d, o1)
  <2>1. Fits(n.file.size, n.file.align, PageSize)
    BY <1>5, <1>8 DEF Made
  <2> QED BY <1>6, <1>7, <1>11, <2>1, MemoryStage
<1>13. PICK o2 : /\ IsResult(r2) /\ Stage(b, r2.d, dd.objs, n, o2)
                 /\ r2.err = "ok" => HasMemory(b, r2.d, o2) /\ HasTable(b, r2.d, o2)
  <2>1. CASE r1.err # "ok"
    BY <1>3, <1>12, <2>1 DEF Steps
  <2>2. CASE r1.err = "ok"
    <3>1. r2 = AllocateTableForObj(r1.d, Len(dd.objs) + 1)
      BY <1>3, <2>2 DEF Steps
    <3>2. Fits(o1.file.tsize, o1.file.talign, 0)
      BY <1>8, <1>9, <1>12
    <3> QED BY <1>6, <1>12, <2>2, <3>1, <3>2, TableStage
  <2> QED BY <2>1, <2>2
<1>14. PICK o3 : /\ IsResult(r3) /\ Stage(b, r3.d, dd.objs, n, o3)
                 /\ r3.err = "ok" => HasMemory(b, r3.d, o3) /\ HasTable(b, r3.d, o3)
  <2>1. CASE r2.err # "ok"
    BY <1>3, <1>13, <2>1 DEF Steps
  <2>2. CASE r2.err = "ok" /\ ~(r2.d.shared \/ world.base)
    <3>1. r3 = Result(r2.d, 0, "assert")
      BY <1>3, <2>2 DEF Steps
    <3>2. IsResult(r3) /\ r3.d = r2.d /\ r3.err # "ok"
      BY <3>1 DEF IsResult, Result
    <3> QED BY <1>13, <3>2
  <2>3. CASE r2.err = "ok" /\ (r2.d.shared \/ world.base)
    <3>1. r3 = InstanceCreate(r2.d, r2.d.objs[Len(dd.objs) + 1])
      BY <1>3, <2>3 DEF Steps
    <3>2. o2.file.tsize \in Nat
      BY <1>8, <1>9, <1>13
    <3> QED BY <1>6, <1>13, <2>3, <3>1, <3>2, CreateStage
  <2> QED BY <2>1, <2>2, <2>3
<1>15. r4 = r3
  BY <1>3 DEF Steps
<1>16. PICK o : /\ IsResult(r5) /\ Stage(b, r5.d, dd.objs, n, o)
                /\ r5.err = "ok" => /\ HasMemory(b, r5.d, o) /\ HasTable(b, r5.d, o)
                                    /\ HasExports(r5.d, o)
  <2>1. CASE r3.err # "ok"
    BY <1>3, <1>14, <1>15, <2>1 DEF Steps
  <2>2. CASE r3.err = "ok"
    <3>1. r5 = AllocateTableForObjExports(r3.d, Len(dd.objs) + 1)
      BY <1>3, <1>15, <2>2 DEF Steps
    <3>2. o3.file.tsize \in Nat /\ NExports(o3.file) \in Nat /\ Fits(NExports(o3.file), 0, 0)
      BY <1>8, <1>9, <1>14
    <3> QED BY <1>6, <1>14, <2>2, <3>1, <3>2, ExportsStage
  <2> QED BY <2>1, <2>2
<1>17. CASE r5.err # "ok"
  BY <1>3, <1>4, <1>6, <1>10, <1>16, <1>17, Dropped DEF Loaded
<1>18. CASE r5.err = "ok"
  <2>1. r = r5
    BY <1>3, <1>18
  <2>2. r.d.tabbase > 0 /\ r.d.table[1] = Null
    <3>1. 1 \in DOMAIN b.table
      BY <1>6, TableDomain
    <3>2. b.tabbase <= r.d.tabbase /\ r.d.tabbase \in Nat /\ r.d.table[1] = b.table[1]
      BY <1>16, <2>1, <3>1 DEF Stage, TableOk
    <3> QED BY <1>6, <3>2
  <2>3. \A a \in DOMAIN dd.table : a \in DOMAIN r.d.table /\ r.d.table[a] = dd.table[a]
    BY <1>4, <1>16, <2>1 DEF Stage, Began
  <2>4. dd.ids + 1 \in Nat \ {0} /\ dd.membase \in Nat /\ dd.membase <= b.membase
    BY <1>6 DEF Loadable
  <2>5. PICK id : id = dd.ids + 1
    OBVIOUS
  <2>6. Added(w, dd, r.d, o) /\ Is(o, id, key, name, f)
    <3>1. PICK e : e = r.d
      OBVIOUS
    <3>2. /\ Stage(b, e, dd.objs, n, o) /\ HasMemory(b, e, o) /\ HasTable(b, e, o)
          /\ HasExports(e, o) /\ e.tabbase > 0 /\ e.table[1] = Null
          /\ Keeps(dd.table, e.table) /\ (b.tabbase > 0 \/ f.tsize > 0)
      BY <1>6, <1>16, <1>18, <2>1, <2>2, <2>3, <3>1 DEF Keeps
    <3>3. Made(n, id, key, name, f) /\ id \in Nat \ {0}
      BY <1>5, <2>4, <2>5
    <3>4. Finishing(w, dd, b, b, n, f, o, e, id, key, name)
      BY <1>4, <1>6, <1>10, <2>4, <3>2, <3>3 DEF Finishing
    <3> QED BY <3>1, <3>4, Finished
  <2> QED BY <2>1, <1>18, <2>5, <2>6 DEF Loaded
<1> QED BY <1>17, <1>18

(* A main module that is not pie has its memory and table already. *)
LEMMA LoadMain ==
  ASSUME NEW w, NEW dd, NEW key, NEW name, NEW f, NEW r,
         r \in LoadObjectFromFile(dd, key, name, f), f # NoFile, f.valid, f.dylink,
         WellFormed(w, f), Loadable(dd), ~IsLib(dd, f)
  PROVE  Loaded(w, dd, key, name, f, r)
<1>1. PICK b : b = StartObject(dd, key, name, f)
  OBVIOUS
<1>2. PICK n : n = NewObject(dd.ids + 1, key, name, f)
  OBVIOUS
<1>3. PICK r1, r2, r3, r4, r5 :
        /\ Steps(dd, b, f, Len(dd.objs) + 1, r1, r2, r3, r4, r5)
        /\ r = IF r5.err = "ok" THEN r5 ELSE ObjectDestroy(r5)
  BY <1>1, LoadSteps
<1>4. /\ Began(dd, b, n, f)
      /\ b.tabbase = 0 /\ b.table = <<>> /\ b.grown = {} /\ b.membase = 0
  BY <1>1, <1>2, StartObjectIs DEF Loadable
<1>5. Made(n, dd.ids + 1, key, name, f)
  BY <1>2, NewObjectIs
<1>6. /\ MemoryOk(b) /\ TableOk(b) /\ IsSeq(dd.objs) /\ DOMAIN b = DyldFields
      /\ dd.membase = 0 /\ dd.tabbase = 0 /\ DOMAIN dd.table = {} /\ dd.objs = <<>>
  BY <1>4 DEF Began, Only, Loadable, IsLib, Blank
<1>7. Stage(b, b, dd.objs, n, n)
  BY <1>4, <1>5, <1>6 DEF Stage, Began, Only, OnlyAreas, Made
<1>8. /\ f.size \in Nat /\ f.size + PageSize <= Space /\ f.tsize \in Nat /\ f.tsize < Space
      /\ f.tsize > 0 /\ NExports(f) \in Nat /\ Fits(NExports(f), 0, 0)
      /\ 2^f.align \in Nat \ {0} /\ 0 % 2^f.align = 0
  <2>1. ~f.pie
    BY DEF IsLib
  <2>2. Fits(f.size, f.align, PageSize) /\ Fits(f.tsize, f.talign, 0) /\ f.tsize > 0
    BY <2>1 DEF WellFormed
  <2>3. NExports(f) \in Nat /\ Fits(NExports(f), 0, 0)
    BY NExportsIs DEF WellFormed
  <2>4. 2^f.align \in Nat \ {0} /\ f.size \in Nat /\ f.size + PageSize <= Space
    BY <2>2, Sizes DEF Fits
  <2>5. f.tsize \in Nat /\ f.tsize < Space
    BY <2>2, Sizes DEF Fits
  <2>6. \A x \in Nat \ {0} : 0 % x = 0
    OBVIOUS
  <2> QED BY <2>2, <2>3, <2>4, <2>5, <2>6
<1>9. Only(b, b, {"shared"})
  BY <1>6 DEF Only
<1>10. r2 = Result(b, 0, "ok") /\ r2.err = "ok" /\ r2.d = b
  BY <1>3 DEF Steps, Result
<1>11. b.objs[Len(dd.objs) + 1] = n
  BY <1>4, <1>6, SeqAppend DEF Plus, Began
<1>12. IsResult(r3) /\ Stage(b, r3.d, dd.objs, n, n) /\ r3.d.tabbase = 0
  <2>1. CASE ~(b.shared \/ world.base)
    <3>1. r3 = Result(b, 0, "assert")
      BY <1>3, <1>10, <2>1 DEF Steps
    <3>2. IsResult(r3) /\ r3.d = b
      BY <3>1 DEF IsResult, Result
    <3> QED BY <1>4, <1>7, <3>2
  <2>2. CASE b.shared \/ world.base
    <3>1. r3 = InstanceCreate(b, n)
      BY <1>3, <1>10, <1>11, <2>2 DEF Steps
    <3>2. CASE n.file.inst = "noimport"
      <4>1. r3 = Result(b, 0, "ENOENT")
        BY <3>1, <3>2 DEF InstanceCreate
      <4>2. IsResult(r3) /\ r3.d = b
        BY <4>1 DEF IsResult, Result
      <4> QED BY <1>4, <1>7, <4>2
    <3>3. CASE n.file.inst # "noimport"
      <4>1. PICK t : t = Filled(b.table, n)
        OBVIOUS
      <4>2. PICK g : g = [b EXCEPT !.table = t]
        OBVIOUS
      <4>3. r3 = Result(g, 0, IF n.file.inst = "trap" THEN "EFAULT" ELSE "ok")
        BY <3>1, <3>3, <4>1, <4>2 DEF InstanceCreate, Filled
      <4>4. IsResult(r3) /\ r3.d = g
        BY <4>3 DEF IsResult, Result
      <4>5. DOMAIN b.table = 1..0
        BY <1>4
      <4>6. DOMAIN t = 1..0 /\ t = [i \in 1..0 |-> t[i]]
        BY <4>1, <4>5 DEF Filled
      <4>7. IsSeq(t) /\ Len(t) = 0
        BY <4>6, SeqFcn
      <4>8. /\ Only(b, g, {"table"}) /\ g.table = t /\ g.objs = b.objs /\ g.tabbase = 0
            /\ g.membase = b.membase /\ g.pages = b.pages /\ g.grown = b.grown
        BY <1>4, <1>6, <4>2 DEF Only, DyldFields
      <4>9. MemoryOk(g) /\ TableOk(g)
        BY <1>6, <4>7, <4>8, Sizes DEF MemoryOk, TableOk
      <4>10. Only(b, g, {"objs", "membase", "pages", "tabbase", "table"})
        BY <4>8 DEF Only
      <4>11. b.membase <= g.membase /\ b.tabbase <= g.tabbase
        BY <1>4, <4>8
      <4>12. Stage(b, g, dd.objs, n, n)
        BY <1>4, <1>7, <4>5, <4>8, <4>9, <4>10, <4>11 DEF Stage
      <4> QED BY <4>4, <4>8, <4>12
    <3> QED BY <3>2, <3>3
  <2> QED BY <2>1, <2>2
<1>13. PICK b2 : b2 = [b EXCEPT !.shared = TRUE]
  OBVIOUS
<1>14. /\ Only(b, b2, {"shared"}) /\ b2.membase = 0 /\ b2.tabbase = 0 /\ b2.table = <<>>
       /\ DOMAIN b2 = DyldFields
  BY <1>4, <1>6, <1>13 DEF Only, DyldFields
<1>15. TableOk(b2)
  BY <1>4, <1>6, <1>14 DEF TableOk
<1>18. dd.tabbase \in Nat
  BY <1>6
<1>16. CASE r3.err # "ok" \/ r4.err # "ok"
  <2>1. IsResult(r4) /\ r4.d = r3.d /\ r4.err # "ok"
    <3>1. CASE r3.err # "ok"
      BY <1>3, <1>12, <3>1 DEF Steps
    <3>2. CASE r3.err = "ok"
      <4>1. r4 = AdoptSharedResources(r3.d, dd.ids + 1, f)
        BY <1>3, <3>2 DEF Steps
      <4>2. f.adopt => r4.err = "ok"
        BY <4>1 DEF AdoptSharedResources, Result
      <4>3. r4 = Result(r3.d, 0, "ENOENT")
        BY <1>16, <3>2, <4>1, <4>2 DEF AdoptSharedResources
      <4> QED BY <4>3 DEF Result, IsResult
    <3> QED BY <3>1, <3>2
  <2>2. r5 = r4
    BY <1>3, <2>1 DEF Steps
  <2>3. Stage(b, r5.d, dd.objs, n, n) /\ r5.err # "ok" /\ IsResult(r5)
    BY <1>12, <2>1, <2>2
  <2>4. Kept(dd, ObjectDestroy(r5).d) /\ ObjectDestroy(r5).err = r5.err
    BY <1>4, <1>9, <1>18, <2>3, Dropped
  <2> QED BY <1>3, <2>3, <2>4 DEF Loaded
<1>17. CASE r3.err = "ok" /\ r4.err = "ok"
  <2>1. r4 = AdoptSharedResources(r3.d, dd.ids + 1, f)
    BY <1>3, <1>17 DEF Steps
  <2>2. f.adopt
    BY <1>17, <2>1 DEF AdoptSharedResources, Result
  <2>3. PICK t : t = [i \in 1..f.tsize |-> IF i = 1 THEN Null ELSE [o |-> dd.ids + 1, f |-> -i]]
    OBVIOUS
  <2>4. PICK g : g = [r3.d EXCEPT !.membase = f.size, !.pages = Pages(f.size),
                                  !.tabbase = f.tsize, !.table = t, !.shared = TRUE]
    OBVIOUS
  <2>5. r4 = Result(g, 0, "ok")
    BY <2>1, <2>2, <2>3, <2>4 DEF AdoptSharedResources, CreateSharedImportObjects, Pages
  <2>6. r4.d = g
    BY <2>5 DEF Result
  <2>7. DOMAIN r3.d = DyldFields /\ r3.d.objs = Plus(dd.objs, n) /\ r3.d.grown = {}
    BY <1>4, <1>12 DEF Stage, Only, DyldFields
  <2>8. /\ Only(r3.d, g, {"membase", "pages", "tabbase", "table", "shared"})
        /\ g.membase = f.size /\ g.pages = Pages(f.size) /\ g.tabbase = f.tsize
        /\ g.table = t /\ g.shared = TRUE /\ g.grown = {} /\ g.objs = Plus(dd.objs, n)
    BY <2>4, <2>7 DEF Only, DyldFields
  <2>9. DOMAIN t = 1..f.tsize /\ t = [i \in 1..f.tsize |-> t[i]] /\ t[1] = Null
    BY <1>8, <2>3
  <2>10. IsSeq(t) /\ Len(t) = f.tsize
    BY <1>8, <2>9, SeqFcn
  <2>11. f.size < Space /\ Pages(f.size) \in Nat
    BY <1>8, Sizes, PagesOf
  <2>12. MemoryOk(g) /\ TableOk(g)
    BY <1>8, <2>8, <2>10, <2>11 DEF MemoryOk, TableOk
  <2>13. Only(b2, g, {"objs", "membase", "pages", "tabbase", "table"})
    <3>1. b2.shared = TRUE
      BY <1>6, <1>13 DEF DyldFields
    <3>2. Only(b, r3.d, {"objs", "membase", "pages", "tabbase", "table"})
      BY <1>12 DEF Stage
    <3> QED BY <1>14, <2>8, <3>1, <3>2 DEF Only
  <2>14. DOMAIN b2.table = {} /\ 0 <= f.size /\ 0 <= f.tsize
    BY <1>8, <1>14
  <2>15. Stage(b2, g, dd.objs, n, n)
    BY <1>6, <1>7, <1>14, <2>8, <2>12, <2>13, <2>14 DEF Stage
  <2>16. n.file = f /\ n.mem = 0 /\ n.tab = 0
    BY <1>5 DEF Made
  <2>17. HasMemory(b2, g, n) /\ HasTable(b2, g, n)
    BY <1>8, <1>14, <2>8, <2>16 DEF HasMemory, HasTable
  <2>18. r5 = AllocateTableForObjExports(g, Len(dd.objs) + 1)
    BY <1>3, <1>17, <2>6 DEF Steps
  <2>19. n.file.tsize \in Nat /\ NExports(n.file) \in Nat /\ Fits(NExports(n.file), 0, 0)
    BY <1>8, <2>16
  <2>20. PICK o : /\ IsResult(r5) /\ Stage(b2, r5.d, dd.objs, n, o)
                  /\ r5.err = "ok" => /\ HasMemory(b2, r5.d, o) /\ HasTable(b2, r5.d, o)
                                      /\ HasExports(r5.d, o)
    BY <1>15, <2>15, <2>17, <2>18, <2>19, ExportsStage
  <2>21. \A a \in DOMAIN g.table : a \in DOMAIN r5.d.table /\ r5.d.table[a] = g.table[a]
    BY <1>15, <2>15, <2>17, <2>18, <2>19, ExportsStage
  <2>22. CASE r5.err # "ok"
    <3>1. Kept(dd, ObjectDestroy(r5).d) /\ ObjectDestroy(r5).err = r5.err
      BY <1>4, <1>14, <1>18, <2>20, Dropped
    <3> QED BY <1>3, <2>22, <3>1 DEF Loaded
  <2>23. CASE r5.err = "ok"
    <3>1. r = r5
      BY <1>3, <2>23
    <3>2. 1 \in DOMAIN r5.d.table /\ r5.d.table[1] = Null
      <4>1. 1 \in DOMAIN t
        BY <1>8, <2>9
      <4> QED BY <2>8, <2>9, <2>21, <4>1
    <3>3. r5.d.tabbase > 0
      BY <2>20, <3>2, TableDomain DEF Stage
    <3>4. PICK e : e = r.d
      OBVIOUS
    <3>5. PICK id : id = dd.ids + 1 /\ id \in Nat \ {0}
      BY DEF Loadable
    <3>6. Finishing(w, dd, b, b2, n, f, o, e, id, key, name)
      BY <1>4, <1>5, <1>6, <1>8, <1>14, <2>20, <2>23, <3>1, <3>2, <3>3, <3>4, <3>5
         DEF Finishing, Keeps
    <3>7. Added(w, dd, e, o) /\ Is(o, id, key, name, f)
      BY <3>6, Finished
    <3> QED BY <2>23, <3>1, <3>4, <3>5, <3>7 DEF Loaded
  <2> QED BY <2>22, <2>23
<1> QED BY <1>16, <1>17

(* dyld_load_object_from_file *)
LEMMA LoadObjectFromFileIs ==
  ASSUME NEW w, NEW dd, NEW key, NEW name, NEW f, NEW r,
         r \in LoadObjectFromFile(dd, key, name, f), Loadable(dd),
         f = NoFile \/ (f # NoFile /\ (f.valid /\ f.dylink => WellFormed(w, f)))
  PROVE  Loaded(w, dd, key, name, f, r)
<1>1. Kept(dd, dd)
  BY DEF Loadable, Kept, Grew, Only, Rooms, MemoryOk, TableOk
<1>2. CASE f = NoFile
  <2>1. r = Result(dd, 0, "ENOENT")
    BY <1>2 DEF LoadObjectFromFile
  <2>2. r.d = dd /\ r.err # "ok"
    BY <2>1 DEF Result
  <2> QED BY <1>1, <2>2 DEF Loaded
<1>3. CASE f # NoFile /\ ~(f.valid /\ f.dylink)
  <2>1. r = Result(dd, 0, "EINVAL")
    BY <1>3 DEF LoadObjectFromFile
  <2>2. r.d = dd /\ r.err # "ok"
    BY <2>1 DEF Result
  <2> QED BY <1>1, <2>2 DEF Loaded
<1>4. CASE f # NoFile /\ f.valid /\ f.dylink
  BY <1>4, LoadLib, LoadMain
<1> QED BY <1>2, <1>3, <1>4

-----------------------------------------------------------------------------
(* What an operation leaves of the bindings.                               *)

First(S) == CHOOSE i \in S : \A j \in S : i <= j

(* The smallest of a set of numbers. *)
LEMMA FirstIs ==
  ASSUME NEW S \in SUBSET Nat, S # {}
  PROVE  /\ First(S) \in S /\ \A j \in S : First(S) <= j
         /\ \A m \in S : (\A j \in S : m <= j) => m = First(S)
<1>1. \E m \in S : \A j \in S : m <= j
  BY SmallestElement
<1>2. First(S) \in S /\ \A j \in S : First(S) <= j
  BY <1>1 DEF First
<1>3. ASSUME NEW m \in S, \A j \in S : m <= j PROVE m = First(S)
  <2>1. PICK x : x = First(S)
    OBVIOUS
  <2>2. x \in Nat /\ m \in Nat /\ m <= x /\ x <= m
    BY <1>2, <1>3, <2>1
  <2> QED BY <2>1, <2>2
<1> QED BY <1>2, <1>3

\* The object stays where it is,
SamePlace(o, p) ==
    /\ p.file = o.file /\ p.id = o.id /\ p.mem = o.mem /\ p.tab = o.tab /\ p.exp = o.exp
\* ... and so do all of them, and the functions in the table.
Ext(dd, e) ==
    /\ IsSeq(dd.objs) /\ IsSeq(e.objs) /\ Len(dd.objs) <= Len(e.objs)
    /\ \A x \in DOMAIN dd.objs : x \in DOMAIN e.objs /\ SamePlace(dd.objs[x], e.objs[x])
    /\ DOMAIN dd.table = 1..dd.tabbase /\ dd.tabbase \in Nat /\ e.tabbase \in Nat
    /\ dd.tabbase <= e.tabbase
    /\ \A a \in DOMAIN dd.table : dd.table[a] # Null => e.table[a] = dd.table[a]
    /\ \A x \in DOMAIN dd.objs : dd.objs[x].id \in Nat \ {0}

(* What is defined among the first objects stays so. *)
LEMMA DefinersStay ==
  ASSUME NEW dd, NEW e, NEW k, NEW sym, Ext(dd, e)
  PROVE  /\ Definers(dd, k, sym) \subseteq Nat /\ Definers(e, k, sym) \subseteq Nat
         /\ Definers(dd, k, sym) \subseteq DOMAIN dd.objs
         /\ Definers(dd, k, sym) = {j \in Definers(e, k, sym) : j <= Len(dd.objs)}
<1>1. /\ DOMAIN dd.objs = 1..Len(dd.objs) /\ DOMAIN e.objs = 1..Len(e.objs)
      /\ Len(dd.objs) \in Nat /\ Len(e.objs) \in Nat /\ Len(dd.objs) <= Len(e.objs)
  BY SeqLen DEF Ext
<1>2. \A x \in DOMAIN dd.objs : x \in DOMAIN e.objs /\ e.objs[x].file = dd.objs[x].file
  BY DEF Ext, SamePlace
<1> QED BY <1>1, <1>2 DEF Definers

(* A function is not null. *)
LEMMA FuncIsNotNull ==
  ASSUME NEW o, NEW e, o.id \in Nat \ {0}
  PROVE  Func(o, e) # Null
BY DEF Func, Null

(* A GOT entry means what it meant. *)
LEMMA GotStays ==
  ASSUME NEW dd, NEW e, NEW o, NEW p, NEW i, Ext(dd, e), GotOk(dd, o, i),
         p.file = o.file, p.got[i] = o.got[i], p.seen = o.seen,
         o.seen \in Nat, o.seen <= Len(dd.objs)
  PROVE  GotOk(e, p, i)
<1>1. PICK im : im = o.file.imports[i]
  OBVIOUS
<1>2. PICK k : k = SymType(im)
  OBVIOUS
<1>3. PICK sym : sym = im.sym
  OBVIOUS
<1>4. PICK D : D = {j \in Definers(dd, k, sym) : j <= o.seen}
  OBVIOUS
<1>5. PICK E : E = {j \in Definers(e, k, sym) : j <= o.seen}
  OBVIOUS
<1>6. /\ Definers(dd, k, sym) \subseteq Nat /\ Definers(dd, k, sym) \subseteq DOMAIN dd.objs
      /\ Definers(dd, k, sym) = {j \in Definers(e, k, sym) : j <= Len(dd.objs)}
      /\ Definers(e, k, sym) \subseteq Nat
  BY DefinersStay
<1>7. Len(dd.objs) \in Nat
  BY SeqLen DEF Ext
<1>8. D = E /\ D \subseteq DOMAIN dd.objs /\ D \in SUBSET Nat
  BY <1>4, <1>5, <1>6, <1>7
<1>9. GotIsFor(dd, o, i) =
        IF D = {} THEN sym \in o.file.weak /\ o.got[i] = 0
        ELSE IF k = "data"
        THEN o.got[i] = (ExportOf(dd.objs[First(D)].file, k, sym).ix + dd.objs[First(D)].mem) % Space
        ELSE dd.table[o.got[i] + 1] = Func(dd.objs[First(D)], ExportOf(dd.objs[First(D)].file, k, sym))
  BY <1>1, <1>2, <1>3, <1>4 DEF GotIsFor, First
<1>10. GotIsFor(e, p, i) =
        IF E = {} THEN sym \in o.file.weak /\ o.got[i] = 0
        ELSE IF k = "data"
        THEN o.got[i] = (ExportOf(e.objs[First(E)].file, k, sym).ix + e.objs[First(E)].mem) % Space
        ELSE e.table[o.got[i] + 1] = Func(e.objs[First(E)], ExportOf(e.objs[First(E)].file, k, sym))
  BY <1>1, <1>2, <1>3, <1>5 DEF GotIsFor, First
<1>11. GotIsFor(dd, o, i) /\ o.got[i] \in Nat /\ (k # "data" => o.got[i] < dd.tabbase)
  BY <1>1, <1>2 DEF GotOk
<1>12. GotIsFor(e, p, i)
  <2>1. CASE D = {}
    BY <1>8, <1>9, <1>10, <1>11, <2>1
  <2>2. CASE D # {}
    <3>1. PICK x : x = First(D)
      OBVIOUS
    <3>2. x \in DOMAIN dd.objs
      BY <1>8, <2>2, <3>1, FirstIs
    <3>3. SamePlace(dd.objs[x], e.objs[x]) /\ dd.objs[x].id \in Nat \ {0}
      BY <3>2 DEF Ext
    <3>4. CASE k = "data"
      BY <1>8, <1>9, <1>10, <1>11, <2>2, <3>1, <3>3, <3>4 DEF SamePlace
    <3>5. CASE k # "data"
      <4>1. PICK fn : fn = Func(dd.objs[x], ExportOf(dd.objs[x].file, k, sym))
        OBVIOUS
      <4>2. dd.table[o.got[i] + 1] = fn /\ fn # Null
        BY <1>8, <1>9, <1>11, <2>2, <3>1, <3>3, <3>5, <4>1, FuncIsNotNull
      <4>3. o.got[i] + 1 \in DOMAIN dd.table
        BY <1>11, <3>5 DEF Ext
      <4>4. e.table[o.got[i] + 1] = fn
        BY <4>2, <4>3 DEF Ext
      <4>5. Func(e.objs[x], ExportOf(e.objs[x].file, k, sym)) = fn
        BY <3>3, <4>1 DEF SamePlace, Func
      <4> QED BY <1>8, <1>10, <2>2, <3>1, <3>5, <4>4, <4>5
    <3> QED BY <3>4, <3>5
  <2> QED BY <2>1, <2>2
<1>13. k # "data" => o.got[i] < e.tabbase
  BY <1>11 DEF Ext
<1> QED BY <1>1, <1>2, <1>11, <1>12, <1>13 DEF GotOk

(* ... and so does a PLT entry. *)
LEMMA PltStays ==
  ASSUME NEW dd, NEW e, NEW o, NEW p, NEW i, Ext(dd, e), PltIsFor(dd, o, i),
         p.file = o.file, p.plt[i] = o.plt[i]
  PROVE  PltIsFor(e, p, i)
<1>1. PICK sym : sym = o.file.imports[i].sym
  OBVIOUS
<1>2. PICK D : D = Definers(dd, "func", sym)
  OBVIOUS
<1>3. PICK E : E = Definers(e, "func", sym)
  OBVIOUS
<1>4. D \in SUBSET Nat /\ E \in SUBSET Nat /\ D \subseteq DOMAIN dd.objs
      /\ D = {j \in E : j <= Len(dd.objs)}
  BY <1>2, <1>3, DefinersStay
<1>5. D # {} /\ o.plt[i] = Func(dd.objs[First(D)], ExportOf(dd.objs[First(D)].file, "func", sym))
  BY <1>1, <1>2 DEF PltIsFor, FirstDefiner, First
<1>6. First(D) = First(E)
  <2>1. First(D) \in D /\ \A j \in D : First(D) <= j
    BY <1>4, <1>5, FirstIs
  <2>2. Len(dd.objs) \in Nat
    BY SeqLen DEF Ext
  <2>3. \A j \in E : First(D) <= j
    <3> TAKE j \in E
    <3>1. PICK x : x = First(D) /\ x \in Nat /\ x <= Len(dd.objs) /\ j \in Nat
      BY <1>4, <2>1
    <3>2. CASE j <= Len(dd.objs)
      BY <1>4, <2>1, <3>2
    <3>3. CASE ~(j <= Len(dd.objs))
      BY <2>2, <3>1, <3>3
    <3> QED BY <3>2, <3>3
  <2> QED BY <1>4, <2>1, <2>3, FirstIs
<1>7. PICK x : x = First(D)
  OBVIOUS
<1>8. x \in D
  BY <1>4, <1>5, <1>7, FirstIs
<1>9. SamePlace(dd.objs[x], e.objs[x]) /\ E # {}
  BY <1>4, <1>8 DEF Ext
<1>10. o.plt[i] = Func(e.objs[x], ExportOf(e.objs[x].file, "func", sym))
  BY <1>5, <1>7, <1>9 DEF SamePlace, Func
<1> QED BY <1>1, <1>3, <1>6, <1>7, <1>9, <1>10 DEF PltIsFor, FirstDefiner, First

(* The list with one more object. *)
LEMMA PlusIs ==
  ASSUME NEW s, NEW o, NEW t, IsSeq(s), t = Plus(s, o)
  PROVE  /\ IsSeq(t) /\ Len(s) \in Nat /\ Len(t) = Len(s) + 1
         /\ DOMAIN s = 1..Len(s) /\ DOMAIN t = 1..(Len(s) + 1)
         /\ \A x \in DOMAIN s : x \in DOMAIN t /\ t[x] = s[x] /\ x < Len(t)
         /\ t[Len(t)] = o /\ Len(t) \in DOMAIN t
         /\ \A x \in DOMAIN t : x \in DOMAIN s \/ x = Len(t)
<1>1. Len(s) \in Nat /\ DOMAIN s = 1..Len(s)
  BY SeqLen
<1>2. /\ IsSeq(t) /\ Len(t) = Len(s) + 1 /\ DOMAIN t = 1..(Len(s) + 1)
      /\ \A x \in DOMAIN s : x \in DOMAIN t /\ t[x] = s[x]
      /\ t[Len(s) + 1] = o
  BY SeqAppend DEF Plus
<1> QED BY <1>1, <1>2

(* The areas of an object are bounded by numbers. *)
LEMMA ObjNumbers ==
  ASSUME NEW w, NEW o, ObjOk(w, o)
  PROVE  /\ o.mem \in Nat /\ o.file.size \in Nat /\ o.mem + o.file.size \in Nat
         /\ o.tab \in Nat /\ o.file.tsize \in Nat /\ o.tab + o.file.tsize \in Nat
         /\ o.exp \in Nat \ {0} /\ NExports(o.file) \in Nat /\ o.exp + NExports(o.file) \in Nat
         /\ o.id \in Nat \ {0}
<1>1. o.file.size \in Nat /\ o.file.tsize \in Nat
  BY DEF ObjOk, WellFormed, Fits
<1>2. NExports(o.file) \in Nat
  BY NExportsIs DEF ObjOk, WellFormed
<1> QED BY <1>1, <1>2 DEF ObjOk

(* What has grown extends. *)
LEMMA GrewExt ==
  ASSUME NEW w, NEW dd, NEW e, DInv(w, dd), Grew(dd, e),
         IsSeq(e.objs), Len(dd.objs) <= Len(e.objs),
         \A x \in DOMAIN dd.objs : x \in DOMAIN e.objs /\ e.objs[x] = dd.objs[x]
  PROVE  Ext(dd, e)
<1>1. IsSeq(dd.objs) /\ \A x \in DOMAIN dd.objs : ObjOk(w, dd.objs[x])
  BY DEF DInv, Shape
<1>2. TableOk(dd) /\ TableOk(e)
  BY DEF DInv, Rooms, Grew
<1>3. DOMAIN dd.table = 1..dd.tabbase /\ dd.tabbase \in Nat /\ e.tabbase \in Nat
  BY <1>2, TableDomain
<1>4. dd.tabbase <= e.tabbase /\ \A a \in DOMAIN dd.table : e.table[a] = dd.table[a]
  BY DEF Grew
<1>5. \A x \in DOMAIN dd.objs : SamePlace(dd.objs[x], e.objs[x])
  BY DEF SamePlace
<1>6. \A x \in DOMAIN dd.objs : dd.objs[x].id \in Nat \ {0}
  BY <1>1, ObjNumbers
<1> QED BY <1>1, <1>3, <1>4, <1>5, <1>6 DEF Ext

\* The bindings of the objects of dd are right in e.
BindingsOf(dd, e) ==
    \A x \in DOMAIN dd.objs :
      LET o == e.objs[x] IN
      /\ o.seen \in Nat /\ o.seen <= Len(dd.objs)
      /\ \A i \in DOMAIN o.got : o.got[i] = Unset \/ GotOk(e, o, i)
      /\ \A i \in DOMAIN o.plt : o.plt[i] = Null \/ PltIsFor(e, o, i)

(* Objects that did not change keep their bindings. *)
LEMMA BindingsStay ==
  ASSUME NEW dd, NEW e, Ext(dd, e), Bindings(dd),
         \A x \in DOMAIN dd.objs : e.objs[x] = dd.objs[x]
  PROVE  BindingsOf(dd, e)
<1> SUFFICES ASSUME NEW x \in DOMAIN dd.objs
             PROVE  LET o == e.objs[x] IN
                    /\ o.seen \in Nat /\ o.seen <= Len(dd.objs)
                    /\ \A i \in DOMAIN o.got : o.got[i] = Unset \/ GotOk(e, o, i)
                    /\ \A i \in DOMAIN o.plt : o.plt[i] = Null \/ PltIsFor(e, o, i)
  BY DEF BindingsOf
<1>1. PICK o : o = dd.objs[x] /\ o = e.objs[x]
  OBVIOUS
<1>2. /\ o.seen \in Nat /\ o.seen <= Len(dd.objs)
      /\ \A i \in DOMAIN o.got : o.got[i] = Unset \/ GotOk(dd, o, i)
      /\ \A i \in DOMAIN o.plt : o.plt[i] = Null \/ PltIsFor(dd, o, i)
  BY <1>1 DEF Bindings
<1>3. \A i \in DOMAIN o.got : o.got[i] = Unset \/ GotOk(e, o, i)
  BY <1>2, GotStays
<1>4. \A i \in DOMAIN o.plt : o.plt[i] = Null \/ PltIsFor(e, o, i)
  BY <1>2, PltStays
<1> QED BY <1>1, <1>2, <1>3, <1>4

(* The invariant holds with the new object. *)
LEMMA AddedInv ==
  ASSUME NEW w, NEW dd, NEW e, NEW n, DInv(w, dd), Added(w, dd, e, n)
  PROVE  DInv(w, e)
<1>1. /\ Grew(dd, e) /\ e.objs = Plus(dd.objs, n) /\ IsSeq(dd.objs)
      /\ DOMAIN e = DyldFields /\ e.ids \in Nat /\ ObjOk(w, n)
      /\ \A x \in DOMAIN dd.objs : ObjOk(w, dd.objs[x])
      /\ e.stack = dd.stack /\ e.heap = dd.heap
  BY DEF Added, Grew, DInv, Shape, Only, DyldFields, MakeFields
<1>2. PICK N : N = Len(e.objs)
  OBVIOUS
<1>3. /\ IsSeq(e.objs) /\ Len(dd.objs) \in Nat /\ N = Len(dd.objs) + 1
      /\ DOMAIN dd.objs = 1..Len(dd.objs)
      /\ \A x \in DOMAIN dd.objs : x \in DOMAIN e.objs /\ e.objs[x] = dd.objs[x] /\ x < N
      /\ e.objs[N] = n /\ N \in DOMAIN e.objs
      /\ \A x \in DOMAIN e.objs : x \in DOMAIN dd.objs \/ x = N
  BY <1>1, <1>2, PlusIs
<1>4. Len(dd.objs) <= Len(e.objs)
  BY <1>2, <1>3
<1>5. Ext(dd, e)
  BY <1>1, <1>3, <1>4, GrewExt
<1>6. \A x \in DOMAIN e.objs : ObjOk(w, e.objs[x])
  BY <1>1, <1>3
<1>7. Shape(w, e)
  BY <1>1, <1>3, <1>6 DEF Shape
<1>8. Rooms(e) /\ Rooms(dd)
  BY DEF Rooms, Added, Grew, DInv
<1>9. /\ dd.membase \in Nat /\ e.membase \in Nat /\ dd.tabbase \in Nat /\ e.tabbase \in Nat
      /\ dd.membase <= e.membase /\ dd.tabbase <= e.tabbase
  BY <1>1, <1>8 DEF Rooms, MemoryOk, TableOk, Grew
<1>10. /\ dd.membase <= n.mem /\ n.mem + n.file.size <= e.membase
       /\ dd.tabbase <= n.tab /\ n.tab + n.file.tsize <= n.exp
       /\ n.exp + NExports(n.file) <= e.tabbase
       /\ \A a \in Area(n.exp, NExports(n.file)) : e.table[a + 1] = Null
  BY DEF Added, HasExports
<1>11. /\ n.mem \in Nat /\ n.file.size \in Nat /\ n.tab \in Nat /\ n.file.tsize \in Nat
       /\ n.exp \in Nat /\ NExports(n.file) \in Nat
  BY <1>1, ObjNumbers
<1>12. StackHeap(e)
  <2>1. StackHeap(dd)
    BY DEF DInv
  <2>2. dd.stack[2] \in Nat /\ dd.heap[2] \in Nat /\ dd.stack[2] <= dd.membase
        /\ dd.heap[2] <= dd.membase
    BY <2>1 DEF StackHeap
  <2>3. dd.stack[2] <= e.membase /\ dd.heap[2] <= e.membase
        /\ dd.stack[2] <= n.mem /\ dd.heap[2] <= n.mem
    BY <1>9, <1>10, <1>11, <2>2
  <2>4. Beside(dd.stack[1], dd.stack[2], n.mem, n.mem + n.file.size)
        /\ Beside(dd.heap[1], dd.heap[2], n.mem, n.mem + n.file.size)
    BY <2>3 DEF Beside
  <2>5. \A x \in DOMAIN e.objs :
           /\ Beside(dd.stack[1], dd.stack[2], e.objs[x].mem, e.objs[x].mem + e.objs[x].file.size)
           /\ Beside(dd.heap[1], dd.heap[2], e.objs[x].mem, e.objs[x].mem + e.objs[x].file.size)
    BY <1>3, <2>1, <2>4 DEF StackHeap
  <2> QED BY <1>1, <2>1, <2>3, <2>5 DEF StackHeap
<1>13. Ordered(e)
  <2>1. \A x \in DOMAIN dd.objs :
          LET o == dd.objs[x] IN
          /\ o.mem + o.file.size \in Nat /\ o.exp + NExports(o.file) \in Nat
          /\ o.mem + o.file.size <= dd.membase /\ o.tab + o.file.tsize <= o.exp
          /\ o.exp + NExports(o.file) <= dd.tabbase
    BY <1>1, ObjNumbers DEF DInv, Ordered
  <2>2. \A x \in DOMAIN dd.objs :
          LET o == dd.objs[x] IN
          /\ o.mem + o.file.size <= e.membase /\ o.mem + o.file.size <= n.mem
          /\ o.exp + NExports(o.file) <= e.tabbase /\ o.exp + NExports(o.file) <= n.tab
    BY <1>9, <1>10, <1>11, <2>1
  <2>3. ASSUME NEW x \in DOMAIN e.objs, NEW y \in DOMAIN e.objs, x < y
        PROVE  /\ e.objs[x].mem + e.objs[x].file.size <= e.objs[y].mem
               /\ e.objs[x].exp + NExports(e.objs[x].file) <= e.objs[y].tab
    <3>1. x \in DOMAIN dd.objs
      BY <1>3, <2>3
    <3>2. CASE y \in DOMAIN dd.objs
      BY <1>3, <2>3, <3>1, <3>2 DEF DInv, Ordered
    <3>3. CASE y = N
      BY <1>3, <2>2, <3>1, <3>3
    <3> QED BY <1>3, <3>2, <3>3
  <2>4. \A x \in DOMAIN e.objs :
          LET o == e.objs[x] IN
          /\ o.mem + o.file.size <= e.membase
          /\ o.tab + o.file.tsize <= o.exp
          /\ o.exp + NExports(o.file) <= e.tabbase
    BY <1>3, <1>10, <2>1, <2>2
  <2> QED BY <2>3, <2>4 DEF Ordered
<1>14. Entries(e)
  <2>1. ASSUME NEW x \in DOMAIN dd.objs, NEW a \in Area(dd.objs[x].exp, NExports(dd.objs[x].file))
        PROVE  e.table[a + 1] = dd.table[a + 1]
    <3>1. PICK o : o = dd.objs[x] /\ ObjOk(w, o)
      BY <1>1
    <3>2. o.exp \in Nat /\ NExports(o.file) \in Nat
      BY <3>1, ObjNumbers
    <3>3. o.exp + NExports(o.file) <= dd.tabbase
      BY <3>1 DEF DInv, Ordered
    <3>4. a + 1 \in 1..dd.tabbase
      BY <1>9, <2>1, <3>1, <3>2, <3>3 DEF Area
    <3>5. DOMAIN dd.table = 1..dd.tabbase
      BY <1>8, TableDomain DEF Rooms
    <3> QED BY <1>1, <3>4, <3>5 DEF Grew
  <2>2. SUFFICES ASSUME NEW x \in DOMAIN e.objs
                 PROVE  LET o    == e.objs[x]
                            mine == Area(o.exp, NExports(o.file))
                        IN  /\ \A a \in mine : e.table[a + 1] = Null \/ e.table[a + 1] \in FuncsOf(o)
                            /\ \A a, b \in mine :
                                 a < b => /\ e.table[a + 1] = Null => e.table[b + 1] = Null
                                          /\ e.table[a + 1] = e.table[b + 1] => e.table[a + 1] = Null
    BY DEF Entries
  <2>3. CASE x = N
    BY <1>3, <1>10, <2>3
  <2>4. CASE x \in DOMAIN dd.objs
    <3>1. PICK o : o = dd.objs[x] /\ o = e.objs[x]
      BY <1>3, <2>4
    <3>2. PICK mine : mine = Area(o.exp, NExports(o.file))
      OBVIOUS
    <3>3. \A a \in mine : e.table[a + 1] = dd.table[a + 1]
      BY <2>1, <2>4, <3>1, <3>2
    <3>4. /\ \A a \in mine : dd.table[a + 1] = Null \/ dd.table[a + 1] \in FuncsOf(o)
          /\ \A a, b \in mine :
               a < b => /\ dd.table[a + 1] = Null => dd.table[b + 1] = Null
                        /\ dd.table[a + 1] = dd.table[b + 1] => dd.table[a + 1] = Null
      BY <2>4, <3>1, <3>2 DEF DInv, Entries
    <3> QED BY <3>1, <3>2, <3>3, <3>4
  <2> QED BY <1>3, <2>3, <2>4
<1>15. Bindings(e)
  <2>1. BindingsOf(dd, e)
    BY <1>3, <1>5, BindingsStay DEF DInv
  <2>2. n.seen = 0 /\ Fresh(n) /\ Unbound(n) /\ 0 <= N
    BY <1>3 DEF Added
  <2>3. \A x \in DOMAIN dd.objs : e.objs[x].seen <= Len(e.objs)
    BY <1>2, <1>3, <2>1 DEF BindingsOf
  <2>4. ASSUME NEW x \in DOMAIN e.objs
        PROVE  LET o == e.objs[x] IN
               /\ o.seen \in Nat /\ o.seen <= Len(e.objs)
               /\ \A i \in DOMAIN o.got : o.got[i] = Unset \/ GotOk(e, o, i)
               /\ \A i \in DOMAIN o.plt : o.plt[i] = Null \/ PltIsFor(e, o, i)
    <3>1. CASE x = N
      BY <1>2, <1>3, <2>2, <3>1 DEF Fresh, Unbound
    <3>2. CASE x \in DOMAIN dd.objs
      BY <2>1, <2>3, <3>2 DEF BindingsOf
    <3> QED BY <1>3, <3>1, <3>2
  <2> QED BY <2>4 DEF Bindings
<1> QED BY <1>7, <1>8, <1>12, <1>13, <1>14, <1>15 DEF DInv

\* The objects are the same, and more may be reserved.
Wider(dd, e) ==
    /\ DOMAIN e = DyldFields /\ e.objs = dd.objs /\ e.ids \in Nat /\ MemoryOk(e) /\ TableOk(e)
    /\ dd.membase <= e.membase /\ dd.tabbase <= e.tabbase /\ Keeps(dd.table, e.table)

(* Then the invariant stays, but for what it says of the stack. *)
LEMMA WiderInv ==
  ASSUME NEW w, NEW dd, NEW e, DInv(w, dd), Wider(dd, e), StackHeap(e)
  PROVE  DInv(w, e)
<1>1. /\ e.objs = dd.objs /\ IsSeq(dd.objs) /\ DOMAIN e = DyldFields /\ e.ids \in Nat
      /\ \A x \in DOMAIN dd.objs : ObjOk(w, dd.objs[x])
  BY DEF Wider, DInv, Shape
<1>2. Shape(w, e)
  BY <1>1 DEF Shape
<1>3. /\ dd.tabbase \in Nat /\ e.tabbase \in Nat /\ dd.tabbase <= e.tabbase
      /\ dd.membase \in Nat /\ e.membase \in Nat /\ dd.membase <= e.membase
      /\ DOMAIN dd.table = 1..dd.tabbase
  BY TableDomain DEF Wider, DInv, Rooms, MemoryOk, TableOk
<1>4. \A a \in DOMAIN dd.table : a \in DOMAIN e.table /\ e.table[a] = dd.table[a]
  BY DEF Wider, Keeps
<1>5. Rooms(e)
  <2>1. e.objs # <<>> => e.tabbase > 0 /\ e.table[1] = Null
    <3> SUFFICES ASSUME e.objs # <<>> PROVE e.tabbase > 0 /\ e.table[1] = Null
      OBVIOUS
    <3>1. dd.tabbase > 0 /\ dd.table[1] = Null
      BY <1>1 DEF DInv, Rooms
    <3> QED BY <1>3, <1>4, <3>1
  <2> QED BY <2>1 DEF Rooms, Wider
<1>6. Len(dd.objs) <= Len(e.objs) /\ IsSeq(e.objs)
  BY <1>1, SeqLen
<1>7. Ext(dd, e)
  <2>1. \A x \in DOMAIN dd.objs : SamePlace(dd.objs[x], e.objs[x]) /\ dd.objs[x].id \in Nat \ {0}
    BY <1>1, ObjNumbers DEF SamePlace
  <2> QED BY <1>1, <1>3, <1>4, <1>6, <2>1 DEF Ext
<1>8. Ordered(e)
  <2>1. \A x \in DOMAIN dd.objs :
          LET o == dd.objs[x] IN
          /\ o.mem + o.file.size \in Nat /\ o.exp + NExports(o.file) \in Nat
          /\ o.mem + o.file.size <= dd.membase /\ o.exp + NExports(o.file) <= dd.tabbase
    BY <1>1, ObjNumbers DEF DInv, Ordered
  <2>2. \A x \in DOMAIN dd.objs :
          LET o == dd.objs[x] IN
          o.mem + o.file.size <= e.membase /\ o.exp + NExports(o.file) <= e.tabbase
    BY <1>3, <2>1
  <2> QED BY <1>1, <2>2 DEF DInv, Ordered
<1>9. ASSUME NEW x \in DOMAIN dd.objs, NEW a \in Area(dd.objs[x].exp, NExports(dd.objs[x].file))
      PROVE  e.table[a + 1] = dd.table[a + 1]
  <2>1. PICK o : o = dd.objs[x] /\ ObjOk(w, o)
    BY <1>1
  <2>2. o.exp \in Nat /\ NExports(o.file) \in Nat
    BY <2>1, ObjNumbers
  <2>3. o.exp + NExports(o.file) <= dd.tabbase
    BY <2>1 DEF DInv, Ordered
  <2>4. a + 1 \in 1..dd.tabbase
    BY <1>3, <1>9, <2>1, <2>2, <2>3 DEF Area
  <2> QED BY <1>3, <1>4, <2>4
<1>10. Entries(e)
  <2>1. SUFFICES ASSUME NEW x \in DOMAIN e.objs
                 PROVE  LET o    == e.objs[x]
                            mine == Area(o.exp, NExports(o.file))
                        IN  /\ \A a \in mine : e.table[a + 1] = Null \/ e.table[a + 1] \in FuncsOf(o)
                            /\ \A a, b \in mine :
                                 a < b => /\ e.table[a + 1] = Null => e.table[b + 1] = Null
                                          /\ e.table[a + 1] = e.table[b + 1] => e.table[a + 1] = Null
    BY DEF Entries
  <2>2. PICK o : o = dd.objs[x] /\ o = e.objs[x] /\ x \in DOMAIN dd.objs
    BY <1>1
  <2>3. PICK mine : mine = Area(o.exp, NExports(o.file))
    OBVIOUS
  <2>4. \A a \in mine : e.table[a + 1] = dd.table[a + 1]
    BY <1>9, <2>2, <2>3
  <2>5. /\ \A a \in mine : dd.table[a + 1] = Null \/ dd.table[a + 1] \in FuncsOf(o)
        /\ \A a, b \in mine :
             a < b => /\ dd.table[a + 1] = Null => dd.table[b + 1] = Null
                      /\ dd.table[a + 1] = dd.table[b + 1] => dd.table[a + 1] = Null
    BY <2>2, <2>3 DEF DInv, Entries
  <2> QED BY <2>2, <2>3, <2>4, <2>5
<1>11. Bindings(e)
  <2>1. BindingsOf(dd, e)
    BY <1>1, <1>7, BindingsStay DEF DInv
  <2> QED BY <1>1, <2>1 DEF BindingsOf, Bindings
<1> QED BY <1>2, <1>5, <1>8, <1>10, <1>11 DEF DInv

(* The stack and the heap stay apart from the objects. *)
LEMMA StackHeapStays ==
  ASSUME NEW dd, NEW e, StackHeap(dd), e.stack = dd.stack, e.heap = dd.heap, e.objs = dd.objs,
         dd.membase \in Nat, e.membase \in Nat, dd.membase <= e.membase
  PROVE  StackHeap(e)
<1>1. dd.stack[2] \in Nat /\ dd.heap[2] \in Nat /\ dd.stack[2] <= dd.membase
      /\ dd.heap[2] <= dd.membase
  BY DEF StackHeap
<1>2. dd.stack[2] <= e.membase /\ dd.heap[2] <= e.membase
  BY <1>1
<1> QED BY <1>2 DEF StackHeap

(* The object could not be made. *)
LEMMA KeptInv ==
  ASSUME NEW w, NEW dd, NEW e, DInv(w, dd), Kept(dd, e)
  PROVE  DInv(w, e)
<1>1. Wider(dd, e)
  BY DEF Kept, Grew, Wider, Keeps, Only
<1>2. e.stack = dd.stack /\ e.heap = dd.heap /\ e.objs = dd.objs
  BY DEF Kept, Grew, Only, DyldFields, MakeFields
<1>3. dd.membase \in Nat /\ e.membase \in Nat /\ dd.membase <= e.membase
  BY DEF Kept, Grew, DInv, Rooms, MemoryOk
<1>4. StackHeap(e)
  BY <1>2, <1>3, StackHeapStays DEF DInv
<1> QED BY <1>1, <1>4, WiderInv

\* What the invariant of the record is not about
OtherFields == {"pie", "shared", "data", "slots", "lsize", "gen", "left", "handles",
                "fault", "status"}
(* A change of these fields leaves it. *)
LEMMA OtherInv ==
  ASSUME NEW w, NEW dd, NEW e, DInv(w, dd), Only(dd, e, OtherFields)
  PROVE  DInv(w, e)
<1>1. /\ e.objs = dd.objs /\ e.ids = dd.ids /\ e.membase = dd.membase /\ e.pages = dd.pages
      /\ e.tabbase = dd.tabbase /\ e.table = dd.table /\ e.stack = dd.stack
      /\ e.heap = dd.heap /\ e.grown = dd.grown /\ DOMAIN e = DyldFields
  BY DEF Only, DyldFields, OtherFields
<1>2. dd.ids \in Nat /\ MemoryOk(dd) /\ TableOk(dd)
  BY DEF DInv, Shape, Rooms
<1>3. MemoryOk(e) /\ TableOk(e) /\ dd.membase \in Nat /\ dd.tabbase \in Nat
  BY <1>1, <1>2 DEF MemoryOk, TableOk
<1>4. Wider(dd, e)
  BY <1>1, <1>2, <1>3 DEF Wider, Keeps
<1>5. StackHeap(e)
  BY <1>1, <1>3, StackHeapStays DEF DInv
<1> QED BY <1>4, <1>5, WiderInv

(* dyld_init *)
LEMMA EmptyInv ==
  ASSUME NEW w, NEW e, NEW st, e = [EmptyDyld EXCEPT !.status = st]
  PROVE  DInv(w, e) /\ Loadable(e) /\ e.objs = <<>>
<1>1. /\ DOMAIN e = DyldFields /\ e.objs = <<>> /\ e.ids = 0 /\ e.membase = 0 /\ e.pages = 0
      /\ e.tabbase = 0 /\ e.table = <<>> /\ e.stack = <<0, 0>> /\ e.heap = <<0, 0>> /\ e.grown = {}
  BY DEF EmptyDyld, DyldFields
<1>0. IsSeq(<<>>) /\ Len(<<>>) = 0
  <2>1. <<>> \in Seq({})
    OBVIOUS
  <2> QED BY <2>1, SeqIs
<1>2. IsSeq(e.objs) /\ DOMAIN e.objs = {}
  BY <1>0, <1>1
<1>3. Pages(0) = 0
  <2>1. PICK p \in Nat \ {0} : p = PageSize /\ p < Space
    BY Sizes
  <2>2. PICK m \in Nat : m = p - 1 /\ 0 + p - 1 = m
    OBVIOUS
  <2>3. m % Space = m /\ m \div p = 0
    BY <2>1, <2>2, Sizes
  <2> QED BY <2>1, <2>2, <2>3 DEF Pages, HowMany
<1>4. MemoryOk(e)
  BY <1>1, <1>3, Sizes DEF MemoryOk
<1>5. TableOk(e)
  <2>1. IsSeq(e.table) /\ Len(e.table) = 0
    BY <1>0, <1>1
  <2> QED BY <1>1, <2>1, Sizes DEF TableOk
<1>6. Rooms(e)
  BY <1>1, <1>4, <1>5 DEF Rooms
<1>7. StackHeap(e)
  <2>1. e.stack[1] = 0 /\ e.stack[2] = 0 /\ e.heap[1] = 0 /\ e.heap[2] = 0
    BY <1>1
  <2> QED BY <1>1, <1>2, <2>1 DEF StackHeap, Beside
<1>8. Shape(w, e) /\ Ordered(e) /\ Entries(e) /\ Bindings(e)
  BY <1>1, <1>2 DEF Shape, Ordered, Entries, Bindings
<1> QED BY <1>1, <1>2, <1>6, <1>7, <1>8 DEF DInv, Loadable, Blank

(* memory.grow by the program *)
LEMMA GrowInv ==
  ASSUME NEW w, NEW dd, NEW e, DInv(w, dd),
         e = [dd EXCEPT !.pages = @ + 1, !.grown = @ \cup {dd.pages}]
  PROVE  DInv(w, e) /\ Only(dd, e, {"pages", "grown"})
<1>1. DOMAIN dd = DyldFields /\ dd.ids \in Nat /\ MemoryOk(dd) /\ TableOk(dd)
  BY DEF DInv, Shape, Rooms
<1>2. /\ e.objs = dd.objs /\ e.ids = dd.ids /\ e.membase = dd.membase /\ e.pages = dd.pages + 1
      /\ e.tabbase = dd.tabbase /\ e.table = dd.table /\ e.stack = dd.stack
      /\ e.heap = dd.heap /\ e.grown = dd.grown \cup {dd.pages} /\ DOMAIN e = DyldFields
  BY <1>1 DEF DyldFields
<1>3. Only(dd, e, {"pages", "grown"})
  BY <1>1 DEF Only, DyldFields
<1>4. Pages(dd.membase) \in Nat
  BY <1>1, PagesOf, Sizes DEF MemoryOk
<1>5. MemoryOk(e) /\ TableOk(e) /\ dd.membase \in Nat /\ dd.tabbase \in Nat
  BY <1>1, <1>2, <1>4 DEF MemoryOk, TableOk
<1>6. Wider(dd, e)
  BY <1>1, <1>2, <1>5 DEF Wider, Keeps
<1>7. StackHeap(e)
  <2>1. dd.membase <= e.membase /\ e.membase \in Nat /\ StackHeap(dd)
    BY <1>2, <1>5 DEF DInv
  <2>2. e.stack = dd.stack /\ e.heap = dd.heap /\ e.objs = dd.objs
    BY <1>2
  <2> QED BY <1>5, <2>1, <2>2, StackHeapStays
<1> QED BY <1>3, <1>6, <1>7, WiderInv

\* An area of the memory that is new in e, or the one of before
Fresher(dd, e, new, old) ==
    \/ new = old
    \/ /\ new = <<new[1], new[2]>> /\ new[1] \in Nat /\ new[2] \in Nat
       /\ dd.membase <= new[1] /\ new[1] <= new[2] /\ new[2] <= e.membase

(* The stack and the heap above everything else. *)
LEMMA StackInv ==
  ASSUME NEW w, NEW dd, NEW e, DInv(w, dd), Only(dd, e, {"membase", "pages", "stack", "heap"}),
         MemoryOk(e), dd.membase <= e.membase,
         Fresher(dd, e, e.stack, dd.stack), Fresher(dd, e, e.heap, dd.heap),
         e.stack = dd.stack \/ e.heap = dd.heap \/ e.stack[2] <= e.heap[1]
  PROVE  DInv(w, e)
<1>1. /\ e.objs = dd.objs /\ e.ids = dd.ids /\ e.tabbase = dd.tabbase /\ e.table = dd.table
      /\ DOMAIN e = DyldFields
  BY DEF Only, DyldFields
<1>2. dd.ids \in Nat /\ TableOk(dd) /\ dd.tabbase \in Nat /\ StackHeap(dd)
      /\ \A x \in DOMAIN dd.objs : ObjOk(w, dd.objs[x])
  BY DEF DInv, Shape, Rooms, TableOk
<1>3. Wider(dd, e)
  BY <1>1, <1>2 DEF Wider, Keeps, TableOk
<1>4. dd.membase \in Nat /\ e.membase \in Nat
  BY DEF DInv, Rooms, MemoryOk
<1>5. /\ dd.stack = <<dd.stack[1], dd.stack[2]>> /\ dd.heap = <<dd.heap[1], dd.heap[2]>>
      /\ dd.stack[1] \in Nat /\ dd.stack[2] \in Nat /\ dd.heap[1] \in Nat /\ dd.heap[2] \in Nat
      /\ dd.stack[1] <= dd.stack[2] /\ dd.stack[2] <= dd.membase
      /\ dd.heap[1] <= dd.heap[2] /\ dd.heap[2] <= dd.membase
      /\ Beside(dd.stack[1], dd.stack[2], dd.heap[1], dd.heap[2])
  BY <1>2 DEF StackHeap
<1>6. /\ e.stack = <<e.stack[1], e.stack[2]>> /\ e.heap = <<e.heap[1], e.heap[2]>>
      /\ e.stack[1] \in Nat /\ e.stack[2] \in Nat /\ e.heap[1] \in Nat /\ e.heap[2] \in Nat
      /\ e.stack[1] <= e.stack[2] /\ e.stack[2] <= e.membase
      /\ e.heap[1] <= e.heap[2] /\ e.heap[2] <= e.membase
  BY <1>4, <1>5 DEF Fresher
<1>7. Beside(e.stack[1], e.stack[2], e.heap[1], e.heap[2])
  BY <1>4, <1>5, <1>6 DEF Fresher, Beside
<1>8. ASSUME NEW x \in DOMAIN dd.objs
      PROVE  LET o == dd.objs[x] IN
             /\ Beside(e.stack[1], e.stack[2], o.mem, o.mem + o.file.size)
             /\ Beside(e.heap[1], e.heap[2], o.mem, o.mem + o.file.size)
  <2>1. PICK o : o = dd.objs[x] /\ ObjOk(w, o)
    BY <1>2
  <2>2. PICK z : z = o.mem + o.file.size
    OBVIOUS
  <2>3. z \in Nat /\ z <= dd.membase
    BY <2>1, <2>2, ObjNumbers DEF DInv, Ordered
  <2>4. Beside(dd.stack[1], dd.stack[2], o.mem, z) /\ Beside(dd.heap[1], dd.heap[2], o.mem, z)
    BY <1>2, <2>1, <2>2 DEF StackHeap
  <2>5. Beside(e.stack[1], e.stack[2], o.mem, z)
    BY <1>4, <2>3, <2>4 DEF Fresher, Beside
  <2>6. Beside(e.heap[1], e.heap[2], o.mem, z)
    BY <1>4, <2>3, <2>4 DEF Fresher, Beside
  <2> QED BY <2>1, <2>2, <2>5, <2>6
<1>9. StackHeap(e)
  BY <1>1, <1>6, <1>7, <1>8 DEF StackHeap
<1> QED BY <1>3, <1>9, WiderInv

WithStack(dd, s) == [dd EXCEPT !.stack = s]
WithHeap(dd, s) == [dd EXCEPT !.heap = s]

(* A record with another stack or heap. *)
LEMMA WithIs ==
  ASSUME NEW dd, NEW s, DOMAIN dd = DyldFields
  PROVE  /\ Only(dd, WithStack(dd, s), {"stack"}) /\ WithStack(dd, s).stack = s
         /\ Only(dd, WithHeap(dd, s), {"heap"}) /\ WithHeap(dd, s).heap = s
BY DEF WithStack, WithHeap, Only, DyldFields

\* While the stack and the heap are allocated
Laying(dd, e, s, h) ==
    /\ Only(dd, e, {"membase", "pages", "stack", "heap"}) /\ MemoryOk(e)
    /\ dd.membase <= e.membase /\ e.stack = s /\ e.heap = h

(* One of its allocations, after the bounds s and h were stored. *)
LEMMA LayStep ==
  ASSUME NEW dd, NEW e, NEW s, NEW h, NEW palign, NEW sz, NEW r, NEW M, dd.membase \in Nat,
         Laying(dd, e, s, h), r = AllocateMemory(e, palign, sz), Fits(sz, palign, PageSize),
         M = e.membase
  PROVE  /\ Laying(dd, r.d, s, h) /\ IsResult(r)
         /\ r.err = "ok" => r.at \in Nat /\ M <= r.at /\ r.d.membase = r.at + sz
         /\ r.err # "ok" => r.d = e
<1>1. MemoryOk(e) /\ DOMAIN e = DyldFields /\ M \in Nat /\ dd.membase <= M
  BY DEF Laying, Only, MemoryOk
<1>2. /\ Only(e, r.d, {"membase", "pages"})
      /\ MemoryOk(r.d) /\ DOMAIN r = {"d", "at", "err"}
      /\ r.err # "ok" => r.d = e
      /\ r.err = "ok" => r.at \in Nat /\ M <= r.at /\ r.d.membase = r.at + sz
  BY <1>1, AllocateMemoryIs
<1>3. dd.membase <= r.d.membase
  BY <1>1, <1>2 DEF Fits
<1>4. Only(dd, r.d, {"membase", "pages", "stack", "heap"}) /\ r.d.stack = s /\ r.d.heap = h
  BY <1>2 DEF Laying, Only, DyldFields
<1> QED BY <1>2, <1>3, <1>4 DEF Laying, IsResult

(* A bound is stored. *)
LEMMA LayStore ==
  ASSUME NEW dd, NEW e, NEW s, NEW h, NEW t, Laying(dd, e, s, h)
  PROVE  /\ Laying(dd, WithStack(e, t), t, h) /\ WithStack(e, t).membase = e.membase
         /\ Laying(dd, WithHeap(e, t), s, t) /\ WithHeap(e, t).membase = e.membase
<1>1. DOMAIN e = DyldFields /\ MemoryOk(e)
  BY DEF Laying, Only
<1>2. PICK a : a = WithStack(e, t)
  OBVIOUS
<1>3. PICK b : b = WithHeap(e, t)
  OBVIOUS
<1>4. Only(e, a, {"stack"}) /\ a.stack = t /\ Only(e, b, {"heap"}) /\ b.heap = t
  BY <1>1, <1>2, <1>3, WithIs
<1>5. /\ a.membase = e.membase /\ a.pages = e.pages /\ a.grown = e.grown /\ a.heap = h
      /\ b.membase = e.membase /\ b.pages = e.pages /\ b.grown = e.grown /\ b.stack = s
  BY <1>4 DEF Only, DyldFields, Laying
<1>6. MemoryOk(a) /\ MemoryOk(b)
  BY <1>1, <1>5 DEF MemoryOk
<1>7. Only(dd, a, {"membase", "pages", "stack", "heap"})
      /\ Only(dd, b, {"membase", "pages", "stack", "heap"})
  BY <1>4 DEF Only, Laying
<1> QED BY <1>2, <1>3, <1>4, <1>5, <1>6, <1>7 DEF Laying

(* dyld_allocate_stack and dyld_allocate_heap *)
LEMMA StackAndHeapInv ==
  ASSUME NEW w, NEW dd, NEW r, DInv(w, dd), r \in AllocateStackAndHeap(dd)
  PROVE  /\ DInv(w, r.d) /\ Only(dd, r.d, {"membase", "pages", "stack", "heap"}) /\ IsResult(r)
<1> DEFINE Low(q)  == AllocateMemory(q.d, 0, StackSize)
           High(q) == AllocateMemory([q EXCEPT !.d.stack = <<q.at, q.at>>].d, 4, 0)
           Base(q) == AllocateMemory([q EXCEPT !.d.stack = <<@[1], q.at>>].d, 0, 0)
           End(q)  == AllocateMemory([q EXCEPT !.d.heap = <<q.at, q.at>>].d, PageShift, 0)
           Set(q)  == [q EXCEPT !.d.heap = <<@[1], q.at>>]
           R1 == {IF q.err = "ok" THEN Low(q) ELSE q : q \in {Result(dd, 0, "ok")}}
           R2 == {IF q.err = "ok" THEN High(q) ELSE q : q \in R1}
           R3 == {IF q.err = "ok" THEN Base(q) ELSE q : q \in R2}
           R4 == {IF q.err = "ok" THEN End(q) ELSE q : q \in R3}
           R5 == {IF q.err = "ok" THEN Set(q) ELSE q : q \in R4}
<1>1. r \in R5
  BY DEF AllocateStackAndHeap, After
<1> HIDE DEF R4
<1>2. PICK r4 \in R4 : r = IF r4.err = "ok" THEN Set(r4) ELSE r4
  BY <1>1
<1> HIDE DEF R5, R3
<1>3. PICK r3 \in R3 : r4 = IF r3.err = "ok" THEN End(r3) ELSE r3
  BY <1>2 DEF R4
<1> HIDE DEF R2
<1>4. PICK r2 \in R2 : r3 = IF r2.err = "ok" THEN Base(r2) ELSE r2
  BY <1>3 DEF R3
<1> HIDE DEF R1
<1>5. PICK r1 \in R1 : r2 = IF r1.err = "ok" THEN High(r1) ELSE r1
  BY <1>4 DEF R2
<1>6. r1 = AllocateMemory(dd, 0, StackSize)
  <2>1. PICK q : q = Result(dd, 0, "ok")
    OBVIOUS
  <2>2. q.err = "ok" /\ q.d = dd
    BY <2>1 DEF Result
  <2>3. r1 = IF q.err = "ok" THEN Low(q) ELSE q
    BY <1>5, <2>1 DEF R1
  <2> QED BY <2>2, <2>3
<1>7. PICK M : M = dd.membase /\ M \in Nat
  BY DEF DInv, Rooms, MemoryOk
<1>8. /\ Fits(StackSize, 0, PageSize) /\ Fits(0, 4, PageSize) /\ Fits(0, 0, PageSize)
      /\ Fits(0, PageShift, PageSize) /\ StackSize \in Nat
  BY Sizes
<1>9. Laying(dd, dd, dd.stack, dd.heap)
  BY <1>7 DEF Laying, DInv, Rooms, Only, Shape
<1>10. /\ Laying(dd, r1.d, dd.stack, dd.heap) /\ IsResult(r1)
       /\ r1.err = "ok" => r1.at \in Nat /\ M <= r1.at /\ r1.d.membase = r1.at + StackSize
       /\ r1.err # "ok" => r1.d = dd
  BY <1>6, <1>7, <1>8, <1>9, LayStep
<1>11. ASSUME NEW e, NEW s, NEW h, Laying(dd, e, s, h),
              Fresher(dd, e, s, dd.stack), Fresher(dd, e, h, dd.heap),
              s = dd.stack \/ h = dd.heap \/ s[2] <= h[1]
       PROVE  DInv(w, e) /\ Only(dd, e, {"membase", "pages", "stack", "heap"})
  BY <1>11, StackInv DEF Laying
<1>12. CASE r1.err # "ok"
  <2>1. r = r1
    BY <1>2, <1>3, <1>4, <1>5, <1>12
  <2> QED BY <1>9, <1>10, <1>11, <1>12, <2>1 DEF Fresher
<1>13. CASE r1.err = "ok"
  <2>1. PICK a : a = r1.at /\ a \in Nat /\ M <= a
    BY <1>10, <1>13
  <2>2. PICK e1 : e1 = WithStack(r1.d, <<a, a>>)
    OBVIOUS
  <2>3. Laying(dd, e1, <<a, a>>, dd.heap) /\ e1.membase = a + StackSize
    BY <1>10, <1>13, <2>1, <2>2, LayStore
  <2>4. r2 = AllocateMemory(e1, 4, 0)
    <3>1. [r1 EXCEPT !.d.stack = <<r1.at, r1.at>>].d = e1
      BY <1>10, <2>1, <2>2 DEF WithStack, IsResult
    <3> QED BY <1>5, <1>13, <3>1
  <2>5. PICK M1 : M1 = a + StackSize /\ M1 \in Nat /\ a <= M1
    BY <1>8, <2>1
  <2>6. /\ Laying(dd, r2.d, <<a, a>>, dd.heap) /\ IsResult(r2)
        /\ r2.err = "ok" => r2.at \in Nat /\ M1 <= r2.at /\ r2.d.membase = r2.at + 0
        /\ r2.err # "ok" => r2.d = e1
    BY <1>7, <1>8, <2>3, <2>4, <2>5, LayStep
  <2>7. <<a, a>>[1] = a /\ <<a, a>>[2] = a
    OBVIOUS
  <2>8. CASE r2.err # "ok"
    <3>1. r = r2 /\ r.d = e1
      BY <1>2, <1>3, <1>4, <2>6, <2>8
    <3>2. PICK s : s = <<a, a>>
      OBVIOUS
    <3>3. s = <<s[1], s[2]>> /\ s[1] = a /\ s[2] = a
      BY <3>2
    <3>4. Fresher(dd, e1, s, dd.stack) /\ Fresher(dd, e1, dd.heap, dd.heap)
      BY <1>7, <2>1, <2>3, <2>5, <3>3 DEF Fresher
    <3> QED BY <1>11, <2>3, <2>6, <3>1, <3>2, <3>4
  <2>9. CASE r2.err = "ok"
    <3>1. PICK c : c = r2.at /\ c \in Nat /\ a <= c /\ r2.d.membase = c
      BY <2>1, <2>5, <2>6, <2>9
    <3>2. PICK s : s = <<a, c>>
      OBVIOUS
    <3>3. s = <<s[1], s[2]>> /\ s[1] = a /\ s[2] = c
      BY <3>2
    <3>4. PICK e2 : e2 = WithStack(r2.d, s)
      OBVIOUS
    <3>5. Laying(dd, e2, s, dd.heap) /\ e2.membase = c
      BY <2>6, <3>1, <3>4, LayStore
    <3>6. r3 = AllocateMemory(e2, 0, 0)
      <4>1. r2.d.stack = <<a, a>> /\ DOMAIN r2.d = DyldFields
        BY <2>6 DEF Laying, Only
      <4>2. r2.d.stack[1] = a
        BY <4>1
      <4>3. [r2 EXCEPT !.d.stack = <<@[1], r2.at>>].d = e2
        BY <2>6, <3>1, <3>2, <3>4, <4>1, <4>2 DEF WithStack, IsResult
      <4> QED BY <1>4, <2>9, <4>3
    <3>7. /\ Laying(dd, r3.d, s, dd.heap) /\ IsResult(r3)
          /\ r3.err = "ok" => r3.at \in Nat /\ c <= r3.at /\ r3.d.membase = r3.at + 0
          /\ r3.err # "ok" => r3.d = e2
      BY <1>7, <1>8, <3>5, <3>6, LayStep
    <3>8. CASE r3.err # "ok"
      <4>1. r = r3 /\ r.d = e2
        BY <1>2, <1>3, <3>7, <3>8
      <4>2. Fresher(dd, e2, s, dd.stack) /\ Fresher(dd, e2, dd.heap, dd.heap)
        BY <1>7, <2>1, <3>1, <3>3, <3>5 DEF Fresher
      <4> QED BY <1>11, <3>5, <3>7, <4>1, <4>2
    <3>9. CASE r3.err = "ok"
      <4>1. PICK g : g = r3.at /\ g \in Nat /\ c <= g /\ r3.d.membase = g
        BY <3>7, <3>9
      <4>2. PICK h : h = <<g, g>>
        OBVIOUS
      <4>3. h = <<h[1], h[2]>> /\ h[1] = g /\ h[2] = g
        BY <4>2
      <4>4. PICK e3 : e3 = WithHeap(r3.d, h)
        OBVIOUS
      <4>5. Laying(dd, e3, s, h) /\ e3.membase = g
        BY <3>7, <4>1, <4>4, LayStore
      <4>6. r4 = AllocateMemory(e3, PageShift, 0)
        <5>1. [r3 EXCEPT !.d.heap = <<r3.at, r3.at>>].d = e3
          BY <3>7, <4>1, <4>2, <4>4 DEF WithHeap, IsResult
        <5> QED BY <1>3, <3>9, <5>1
      <4>7. /\ Laying(dd, r4.d, s, h) /\ IsResult(r4)
            /\ r4.err = "ok" => r4.at \in Nat /\ g <= r4.at /\ r4.d.membase = r4.at + 0
            /\ r4.err # "ok" => r4.d = e3
        BY <1>7, <1>8, <4>5, <4>6, LayStep
      <4>8. CASE r4.err # "ok"
        <5>1. r = r4 /\ r.d = e3
          BY <1>2, <4>7, <4>8
        <5>2. Fresher(dd, e3, s, dd.stack) /\ Fresher(dd, e3, h, dd.heap) /\ s[2] <= h[1]
          BY <1>7, <2>1, <3>1, <3>3, <4>1, <4>3, <4>5 DEF Fresher
        <5> QED BY <1>11, <4>5, <4>7, <5>1, <5>2
      <4>9. CASE r4.err = "ok"
        <5>1. PICK z : z = r4.at /\ z \in Nat /\ g <= z /\ r4.d.membase = z
          BY <4>7, <4>9
        <5>2. PICK k : k = <<g, z>>
          OBVIOUS
        <5>3. k = <<k[1], k[2]>> /\ k[1] = g /\ k[2] = z
          BY <5>2
        <5>4. PICK e4 : e4 = WithHeap(r4.d, k)
          OBVIOUS
        <5>5. Laying(dd, e4, s, k) /\ e4.membase = z
          BY <4>7, <5>1, <5>4, LayStore
        <5>6. r.d = e4 /\ IsResult(r)
          <6>1. r4.d.heap = h /\ DOMAIN r4.d = DyldFields
            BY <4>7 DEF Laying, Only
          <6>2. r4.d.heap[1] = g
            BY <4>3, <6>1
          <6>3. r = [r4 EXCEPT !.d.heap = <<@[1], r4.at>>]
            BY <1>2, <4>9
          <6> QED BY <4>7, <5>1, <5>2, <5>4, <6>1, <6>2, <6>3 DEF WithHeap, IsResult
        <5>7. Fresher(dd, e4, s, dd.stack) /\ Fresher(dd, e4, k, dd.heap) /\ s[2] <= k[1]
          BY <1>7, <2>1, <3>1, <3>3, <4>1, <5>1, <5>3, <5>5 DEF Fresher
        <5> QED BY <1>11, <5>5, <5>6, <5>7
      <4> QED BY <4>8, <4>9
    <3> QED BY <3>8, <3>9
  <2> QED BY <2>8, <2>9
<1> QED BY <1>12, <1>13

-----------------------------------------------------------------------------
(* Symbols are resolved.                                                   *)

(* An object has no more functions than entries for them. *)
LEMMA FuncsOfIs ==
  ASSUME NEW w, NEW o, ObjOk(w, o)
  PROVE  IsFiniteSet(FuncsOf(o)) /\ Cardinality(FuncsOf(o)) <= NExports(o.file)
<1>1. PICK ex : ex = o.file.exports
  OBVIOUS
<1>2. ex \in Seq(Range(ex))
  BY <1>1 DEF ObjOk, WellFormed
<1>3. PICK I : I = {i \in DOMAIN ex : ex[i].k = "func"}
  OBVIOUS
<1>4. Len(ex) \in Nat /\ DOMAIN ex = 1..Len(ex)
  BY <1>2
<1>5. IsFiniteSet(1..Len(ex))
  BY <1>4, FS_Interval
<1>6. IsFiniteSet(I)
  BY <1>3, <1>4, <1>5, FS_Subset
<1>7. NExports(o.file) = Cardinality(I)
  BY <1>1, <1>3 DEF NExports
<1>8. PICK m : m = [i \in I |-> Func(o, ex[i])]
  OBVIOUS
<1>9. m \in Surjection(I, FuncsOf(o))
  <2>1. \A i \in I : m[i] \in FuncsOf(o)
    BY <1>1, <1>3, <1>8 DEF FuncsOf, Range
  <2>2. ASSUME NEW t \in FuncsOf(o) PROVE \E i \in I : m[i] = t
    <3>1. PICK e \in Range(ex) : e.k = "func" /\ t = Func(o, e)
      BY <1>1 DEF FuncsOf
    <3>2. PICK i \in DOMAIN ex : ex[i] = e
      BY <3>1 DEF Range
    <3> QED BY <1>3, <1>8, <3>1, <3>2
  <2>3. m \in [I -> FuncsOf(o)]
    BY <1>8, <2>1
  <2> QED BY <2>2, <2>3 DEF Surjection
<1> QED BY <1>6, <1>7, <1>9, FS_Surjection

\* The entries of an object, one by one
EntriesOf(t, o) ==
    LET mine == Area(o.exp, NExports(o.file))
    IN  /\ \A a \in mine : t[a + 1] = Null \/ t[a + 1] \in FuncsOf(o)
        /\ \A a, b \in mine :
             a < b => /\ t[a + 1] = Null => t[b + 1] = Null
                      /\ t[a + 1] = t[b + 1] => t[a + 1] = Null

(* There is an entry for each function: else the others would share one. *)
LEMMA FreeEntry ==
  ASSUME NEW w, NEW t, NEW o, NEW fn \in FuncsOf(o), ObjOk(w, o), EntriesOf(t, o)
  PROVE  \E a \in Area(o.exp, NExports(o.file)) : t[a + 1] \in {fn, Null}
<1> SUFFICES ASSUME \A a \in Area(o.exp, NExports(o.file)) : t[a + 1] \notin {fn, Null}
             PROVE  FALSE
  OBVIOUS
<1>1. PICK N : N = NExports(o.file) /\ N \in Nat
  BY ObjNumbers
<1>2. PICK s : s = o.exp /\ s \in Nat
  BY ObjNumbers
<1>3. PICK mine : mine = Area(s, N)
  OBVIOUS
<1>4. IsFiniteSet(FuncsOf(o)) /\ Cardinality(FuncsOf(o)) <= N
  BY <1>1, FuncsOfIs
<1>5. PICK T : T = FuncsOf(o) \ {fn}
  OBVIOUS
<1>6. IsFiniteSet(T) /\ Cardinality(T) = Cardinality(FuncsOf(o)) - 1
  BY <1>4, <1>5, FS_RemoveElement
<1>7. Cardinality(FuncsOf(o)) \in Nat /\ Cardinality(T) \in Nat
  BY <1>4, <1>6, FS_CardinalityType
<1>8. IsFiniteSet(mine) /\ Cardinality(mine) = N
  <2>1. s \in Int /\ s + N - 1 \in Int
    BY <1>1, <1>2
  <2>2. PICK u \in Int : u = s + N - 1
    BY <2>1
  <2>3. IsFiniteSet(s..u) /\ Cardinality(s..u) = IF s > u THEN 0 ELSE u - s + 1
    BY <2>1, <2>2, FS_Interval
  <2>4. (IF s > u THEN 0 ELSE u - s + 1) = N
    BY <1>1, <1>2, <2>2
  <2> QED BY <1>3, <2>2, <2>3, <2>4 DEF Area
<1>9. Cardinality(T) < Cardinality(mine)
  BY <1>1, <1>4, <1>6, <1>7, <1>8
<1>10. PICK m : m = [a \in mine |-> t[a + 1]]
  OBVIOUS
<1>11. m \in [mine -> T]
  BY <1>1, <1>2, <1>3, <1>5, <1>10 DEF EntriesOf
<1>12. PICK a \in mine, b \in mine : a # b /\ m[a] = m[b]
  BY <1>6, <1>8, <1>9, <1>11, FS_PigeonHole
<1>13. t[a + 1] = t[b + 1] /\ t[a + 1] # Null /\ a \in Int /\ b \in Int
  BY <1>1, <1>2, <1>3, <1>10, <1>12 DEF Area
<1>14. a < b \/ b < a
  BY <1>12, <1>13
<1> QED BY <1>1, <1>2, <1>3, <1>12, <1>13, <1>14 DEF EntriesOf

(* An object other than the one whose area is written to keeps its entries. *)
LEMMA EntriesElsewhere ==
  ASSUME NEW t, NEW u, NEW o, NEW at \in Nat, NEW fn, IsSeq(t), u = Put(t, at, fn),
         EntriesOf(t, o), o.exp \in Nat, NExports(o.file) \in Nat,
         o.exp + NExports(o.file) <= Len(t),
         at <= o.exp \/ o.exp + NExports(o.file) < at
  PROVE  EntriesOf(u, o)
<1>1. PICK mine : mine = Area(o.exp, NExports(o.file))
  OBVIOUS
<1>2. Len(t) \in Nat /\ DOMAIN t = 1..Len(t) /\ \A j \in DOMAIN t : j # at => u[j] = t[j]
  BY SeqExcept, SeqLen
<1>3. \A a \in mine : a + 1 \in DOMAIN t /\ a + 1 # at
  BY <1>1, <1>2 DEF Area
<1>4. \A a \in mine : u[a + 1] = t[a + 1]
  BY <1>2, <1>3
<1> QED BY <1>1, <1>4 DEF EntriesOf

(* The one whose area it is gets a function at the first free entry. *)
LEMMA EntriesHere ==
  ASSUME NEW t, NEW u, NEW o, NEW a0, NEW at, NEW fn \in FuncsOf(o), IsSeq(t),
         u = Put(t, at, fn), at = a0 + 1, fn # Null,
         EntriesOf(t, o), o.exp \in Nat, NExports(o.file) \in Nat,
         o.exp + NExports(o.file) <= Len(t),
         a0 \in Area(o.exp, NExports(o.file)), t[at] \in {fn, Null},
         \A a \in Area(o.exp, NExports(o.file)) : t[a + 1] \in {fn, Null} => a0 <= a
  PROVE  EntriesOf(u, o)
<1>1. PICK mine : mine = Area(o.exp, NExports(o.file))
  OBVIOUS
<1>2. Len(t) \in Nat /\ DOMAIN t = 1..Len(t) /\ (\A j \in DOMAIN t : j # at => u[j] = t[j])
      /\ (at \in DOMAIN t => u[at] = fn)
  BY SeqExcept, SeqLen
<1>3. \A a \in mine : a \in Nat /\ a + 1 \in DOMAIN t
  BY <1>1, <1>2 DEF Area
<1>4. a0 \in mine /\ u[a0 + 1] = fn /\ \A a \in mine : a # a0 => u[a + 1] = t[a + 1]
  BY <1>1, <1>2, <1>3
<1>5. /\ \A a \in mine : t[a + 1] = Null \/ t[a + 1] \in FuncsOf(o)
      /\ \A a, b \in mine :
           a < b => /\ t[a + 1] = Null => t[b + 1] = Null
                    /\ t[a + 1] = t[b + 1] => t[a + 1] = Null
  BY <1>1 DEF EntriesOf
<1>6. \A a \in mine : u[a + 1] = Null \/ u[a + 1] \in FuncsOf(o)
  BY <1>4, <1>5
<1>7. ASSUME NEW a \in mine, NEW b \in mine, a < b
      PROVE  /\ u[a + 1] = Null => u[b + 1] = Null
             /\ u[a + 1] = u[b + 1] => u[a + 1] = Null
  <2>1. CASE a = a0
    <3>1. b # a0 /\ u[b + 1] = t[b + 1]
      BY <1>3, <1>4, <1>7, <2>1
    <3>2. t[a0 + 1] \in {fn, Null} /\ (t[a0 + 1] = Null => t[b + 1] = Null)
          /\ (t[a0 + 1] = t[b + 1] => t[a0 + 1] = Null)
      BY <1>4, <1>5, <1>7, <2>1
    <3> QED BY <1>4, <2>1, <3>1, <3>2
  <2>2. CASE b = a0
    <3>1. a # a0 /\ u[a + 1] = t[a + 1] /\ t[a + 1] \notin {fn, Null}
      BY <1>1, <1>3, <1>4, <1>7, <2>2
    <3> QED BY <1>4, <2>2, <3>1
  <2>3. CASE a # a0 /\ b # a0
    BY <1>4, <1>5, <1>7, <2>3
  <2> QED BY <2>1, <2>2, <2>3
<1> QED BY <1>1, <1>6, <1>7 DEF EntriesOf

WithTable(dd, t) == [dd EXCEPT !.table = t]

(* dyld_register_funcinst finds an entry for the function, and changes nothing
   that anybody refers to. *)
LEMMA RegisterIs ==
  ASSUME NEW w, NEW dd, NEW x, NEW o, NEW fn, NEW r, DInv(w, dd),
         x \in DOMAIN dd.objs, o = dd.objs[x], fn \in FuncsOf(o),
         r = RegisterFuncinst(dd, o, fn)
  PROVE  /\ DInv(w, r.d) /\ Only(dd, r.d, {"table"}) /\ Ext(dd, r.d) /\ IsResult(r)
         /\ r.err = "ok" /\ r.at \in Nat /\ r.at < dd.tabbase /\ r.d.table[r.at + 1] = fn
         /\ fn # Null
<1>1. /\ DOMAIN dd = DyldFields /\ IsSeq(dd.objs) /\ dd.ids \in Nat
      /\ \A y \in DOMAIN dd.objs : ObjOk(w, dd.objs[y])
      /\ MemoryOk(dd) /\ TableOk(dd)
  BY DEF DInv, Shape, Rooms
<1>2. ObjOk(w, o)
  BY <1>1
<1>3. o.exp \in Nat \ {0} /\ NExports(o.file) \in Nat /\ o.id \in Nat \ {0}
  BY <1>2, ObjNumbers
<1>4. fn # Null
  BY <1>3, FuncIsNotNull DEF FuncsOf
<1>5. PICK t : t = dd.table
  OBVIOUS
<1>6. IsSeq(t) /\ Len(t) = dd.tabbase /\ dd.tabbase \in Nat /\ DOMAIN t = 1..dd.tabbase
      /\ dd.tabbase < Space
  BY <1>1, <1>5, TableDomain DEF TableOk
<1>7. \A y \in DOMAIN dd.objs : EntriesOf(t, dd.objs[y])
  BY <1>5 DEF DInv, Entries, EntriesOf
<1>8. \A y \in DOMAIN dd.objs :
        LET p == dd.objs[y] IN
        p.exp \in Nat \ {0} /\ NExports(p.file) \in Nat /\ p.exp + NExports(p.file) <= Len(t)
  BY <1>1, <1>6, ObjNumbers DEF DInv, Ordered
<1>9. PICK free : free = {i \in Area(o.exp, NExports(o.file)) : t[i + 1] \in {fn, Null}}
  OBVIOUS
<1>10. free # {} /\ free \in SUBSET Nat
  <2>1. \E a \in Area(o.exp, NExports(o.file)) : t[a + 1] \in {fn, Null}
    BY <1>2, <1>7, FreeEntry
  <2> QED BY <1>3, <1>9, <2>1 DEF Area
<1>11. PICK a0 : a0 = First(free)
  OBVIOUS
<1>12. a0 \in free /\ \A j \in free : a0 <= j
  BY <1>10, <1>11, FirstIs
<1>13. PICK at : at = a0 + 1
  OBVIOUS
<1>14. PICK u : u = Put(t, at, fn)
  OBVIOUS
<1>15. PICK e : e = WithTable(dd, u)
  OBVIOUS
<1>16. r = Result(e, a0, "ok")
  BY <1>5, <1>9, <1>10, <1>11, <1>13, <1>14, <1>15 DEF RegisterFuncinst, First, Area, WithTable, Put
<1>17. r.d = e /\ r.at = a0 /\ r.err = "ok" /\ IsResult(r)
  BY <1>16 DEF Result, IsResult
<1>18. Only(dd, e, {"table"}) /\ e.table = u
  BY <1>1, <1>15 DEF WithTable, Only, DyldFields
<1>19. /\ e.objs = dd.objs /\ e.ids = dd.ids /\ e.membase = dd.membase /\ e.pages = dd.pages
       /\ e.tabbase = dd.tabbase /\ e.stack = dd.stack
       /\ e.heap = dd.heap /\ e.grown = dd.grown /\ DOMAIN e = DyldFields
  BY <1>18 DEF Only, DyldFields
<1>20. a0 \in Nat \ {0} /\ a0 < dd.tabbase /\ at \in DOMAIN t /\ at \in Nat /\ at > 1
       /\ o.exp <= a0 /\ a0 < o.exp + NExports(o.file)
  BY <1>3, <1>6, <1>8, <1>9, <1>12, <1>13 DEF Area
<1>21. /\ IsSeq(u) /\ Len(u) = Len(t) /\ DOMAIN u = DOMAIN t /\ u[at] = fn
       /\ \A j \in DOMAIN t : j # at => u[j] = t[j]
  BY <1>6, <1>14, <1>20, SeqExcept
<1>22. t[at] \in {fn, Null}
  BY <1>9, <1>12, <1>13
<1>23. Shape(w, e)
  BY <1>1, <1>19 DEF Shape
<1>24. MemoryOk(e) /\ TableOk(e)
  BY <1>1, <1>6, <1>18, <1>19, <1>21 DEF MemoryOk, TableOk
<1>25. Rooms(e)
  <2>1. e.objs # <<>> => e.tabbase > 0 /\ e.table[1] = Null
    <3> SUFFICES ASSUME e.objs # <<>> PROVE e.tabbase > 0 /\ e.table[1] = Null
      OBVIOUS
    <3>1. dd.tabbase > 0 /\ t[1] = Null
      BY <1>5, <1>19 DEF DInv, Rooms
    <3>2. 1 \in DOMAIN t /\ 1 # at
      BY <1>6, <1>20, <3>1
    <3> QED BY <1>18, <1>19, <1>21, <3>1, <3>2
  <2> QED BY <1>24, <2>1 DEF Rooms
<1>26. StackHeap(e)
  BY <1>19 DEF DInv, StackHeap
<1>27. Ordered(e)
  BY <1>19 DEF DInv, Ordered
<1>28. Entries(e)
  <2>1. ASSUME NEW y \in DOMAIN dd.objs PROVE EntriesOf(u, dd.objs[y])
    <3>1. PICK p : p = dd.objs[y]
      OBVIOUS
    <3>2. /\ EntriesOf(t, p) /\ p.exp \in Nat /\ NExports(p.file) \in Nat
          /\ p.exp + NExports(p.file) <= Len(t)
      BY <1>7, <1>8, <3>1
    <3>3. CASE y = x
      <4>1. \A a \in Area(o.exp, NExports(o.file)) : t[a + 1] \in {fn, Null} => a0 <= a
        BY <1>9, <1>12
      <4>2. a0 \in Area(o.exp, NExports(o.file))
        BY <1>9, <1>12
      <4> QED BY <1>4, <1>6, <1>13, <1>14, <1>22, <3>1, <3>2, <3>3, <4>1, <4>2, EntriesHere
    <3>4. CASE y # x
      <4>1. x \in Nat /\ y \in Nat
        BY <1>1, SeqLen
      <4>2. at <= p.exp \/ p.exp + NExports(p.file) < at
        <5>1. CASE x < y
          <6>1. o.exp + NExports(o.file) <= p.tab /\ p.tab + p.file.tsize <= p.exp
            BY <3>1, <5>1 DEF DInv, Ordered
          <6>2. p.tab \in Nat /\ p.file.tsize \in Nat
            BY <1>1, <3>1, ObjNumbers
          <6> QED BY <1>3, <1>13, <1>20, <3>2, <6>1, <6>2
        <5>2. CASE y < x
          <6>1. p.exp + NExports(p.file) <= o.tab /\ o.tab + o.file.tsize <= o.exp
            BY <3>1, <5>2 DEF DInv, Ordered
          <6>2. o.tab \in Nat /\ o.file.tsize \in Nat
            BY <1>2, ObjNumbers
          <6>3. PICK z : z = p.exp + NExports(p.file) /\ z \in Nat
            BY <3>2
          <6>4. z <= o.tab /\ o.tab <= o.exp
            BY <1>3, <6>1, <6>2, <6>3
          <6>5. z < at
            BY <1>3, <1>13, <1>20, <6>2, <6>3, <6>4
          <6> QED BY <6>3, <6>5
        <5> QED BY <3>4, <4>1, <5>1, <5>2
      <4> QED BY <1>6, <1>14, <1>20, <3>1, <3>2, <4>2, EntriesElsewhere
    <3> QED BY <3>3, <3>4
  <2>2. \A y \in DOMAIN e.objs : EntriesOf(e.table, e.objs[y])
    BY <1>18, <1>19, <2>1
  <2> QED BY <2>2 DEF Entries, EntriesOf
<1>29. Ext(dd, e)
  <2>1. \A a \in DOMAIN dd.table : dd.table[a] # Null => e.table[a] = dd.table[a]
    BY <1>5, <1>18, <1>21, <1>22
  <2>2. Len(dd.objs) <= Len(e.objs)
    BY <1>1, <1>19, SeqLen
  <2>3. \A y \in DOMAIN dd.objs : SamePlace(dd.objs[y], e.objs[y]) /\ dd.objs[y].id \in Nat \ {0}
    BY <1>1, <1>19, ObjNumbers DEF SamePlace
  <2> QED BY <1>1, <1>5, <1>6, <1>19, <2>1, <2>2, <2>3 DEF Ext
<1>30. Bindings(e)
  <2>1. BindingsOf(dd, e)
    BY <1>19, <1>29, BindingsStay DEF DInv
  <2> QED BY <1>19, <2>1 DEF BindingsOf, Bindings
<1>31. DInv(w, e)
  BY <1>23, <1>25, <1>26, <1>27, <1>28, <1>30 DEF DInv
<1> QED BY <1>4, <1>13, <1>17, <1>18, <1>20, <1>21, <1>29, <1>31

\* What a symbol is, by its first definition in dd; the function is in e.
SymbolIs(dd, e, f, k, sym, at) ==
    LET D == Definers(dd, k, sym)
        p == dd.objs[First(D)]
        x == ExportOf(p.file, k, sym)
    IN  /\ at \in Nat
        /\ D = {} => sym \in f.weak /\ at = 0
        /\ D # {} /\ k = "data" => at = (x.ix + p.mem) % Space
        /\ D # {} /\ k # "data" => at < e.tabbase /\ e.table[at + 1] = Func(p, x)

\* What dyld_resolve_symbol_in_obj does
ResolvedIn(w, dd, o, k, sym, r) ==
    /\ DInv(w, r.d) /\ Only(dd, r.d, {"table"}) /\ Ext(dd, r.d) /\ IsResult(r)
    /\ r.err \in {"ok", "ENOENT"} /\ r.at \in Nat
    /\ r.err = "ENOENT" => ExportsOf(o.file, k, sym) = {}
    /\ r.err = "ok" =>
         /\ k = "data" => r.at = (ExportOf(o.file, k, sym).ix + o.mem) % Space
         /\ k = "func" => /\ r.at < dd.tabbase
                          /\ r.d.table[r.at + 1] = Func(o, ExportOf(o.file, k, sym))

(* dyld_resolve_symbol_in_obj *)
LEMMA ResolveInObjIs ==
  ASSUME NEW w, NEW dd, NEW x, NEW o, NEW k, NEW sym, NEW r, DInv(w, dd),
         x \in DOMAIN dd.objs, o = dd.objs[x], k \in {"func", "data"},
         r = ResolveSymbolInObj(dd, o, k, sym)
  PROVE  ResolvedIn(w, dd, o, k, sym, r)
<1> USE DEF ResolvedIn
<1>1. DOMAIN dd = DyldFields /\ ObjOk(w, o) /\ TableOk(dd) /\ MemoryOk(dd) /\ dd.ids \in Nat
  BY DEF DInv, Shape, Rooms
<1>2. Only(dd, dd, {"table"}) /\ Ext(dd, dd)
  <2>1. IsSeq(dd.objs) /\ DOMAIN dd.table = 1..dd.tabbase /\ dd.tabbase \in Nat
    BY <1>1, TableDomain DEF DInv, Shape
  <2>2. Len(dd.objs) <= Len(dd.objs) /\ dd.tabbase <= dd.tabbase
    BY <2>1, SeqLen
  <2>3. \A y \in DOMAIN dd.objs : dd.objs[y].id \in Nat \ {0}
    BY ObjNumbers DEF DInv, Shape
  <2> QED BY <1>1, <2>1, <2>2, <2>3 DEF Ext, Only, SamePlace
<1>3. CASE ExportsOf(o.file, k, sym) = {}
  <2>1. r = Result(dd, 0, "ENOENT")
    BY <1>3 DEF ResolveSymbolInObj
  <2>2. r.d = dd /\ r.at = 0 /\ r.err = "ENOENT" /\ IsResult(r)
    BY <2>1 DEF Result, IsResult
  <2> QED BY <1>2, <1>3, <2>2
<1>4. CASE ExportsOf(o.file, k, sym) # {}
  <2>1. PICK e : e = ExportOf(o.file, k, sym)
    OBVIOUS
  <2>2. e \in Range(o.file.exports) /\ e.k = k
    BY <1>4, <2>1 DEF ExportOf, ExportsOf
  <2>3. e.ix \in Nat
    BY <1>1, <2>2 DEF ObjOk, WellFormed
  <2>4. CASE k = "func"
    <3>1. PICK fn : fn = Func(o, e)
      OBVIOUS
    <3>2. r = RegisterFuncinst(dd, o, fn)
      BY <1>4, <2>1, <2>4, <3>1 DEF ResolveSymbolInObj
    <3>3. fn \in FuncsOf(o)
      BY <2>2, <2>4, <3>1 DEF FuncsOf
    <3>4. /\ DInv(w, r.d) /\ Only(dd, r.d, {"table"}) /\ Ext(dd, r.d) /\ IsResult(r)
          /\ r.err = "ok" /\ r.at \in Nat /\ r.at < dd.tabbase /\ r.d.table[r.at + 1] = fn
      BY <3>2, <3>3, RegisterIs
    <3> QED BY <2>1, <2>4, <3>1, <3>4
  <2>5. CASE k = "data"
    <3>1. PICK at : at = (e.ix + o.mem) % Space
      OBVIOUS
    <3>2. r = Result(dd, at, "ok")
      BY <1>4, <2>1, <2>5, <3>1 DEF ResolveSymbolInObj
    <3>3. r.d = dd /\ r.at = at /\ r.err = "ok" /\ IsResult(r)
      BY <3>2 DEF Result, IsResult
    <3>4. at \in Nat
      <4>1. o.mem \in Nat
        BY <1>1, ObjNumbers
      <4>2. PICK z \in Nat : z = e.ix + o.mem
        BY <2>3, <4>1
      <4> QED BY <3>1, <4>2, Sizes
    <3> QED BY <1>2, <2>1, <2>5, <3>1, <3>3, <3>4
  <2> QED BY <2>4, <2>5
<1> QED BY <1>3, <1>4

(* dyld_resolve_symbol *)
LEMMA ResolveIs ==
  ASSUME NEW w, NEW dd, NEW ref, NEW k, NEW sym, NEW r, DInv(w, dd),
         ref \in DOMAIN dd.objs, k \in {"func", "data"}, r = ResolveSymbol(dd, ref, k, sym)
  PROVE  /\ DInv(w, r.d) /\ Only(dd, r.d, {"table"}) /\ Ext(dd, r.d) /\ IsResult(r)
         /\ r.err \in {"ok", "ENOENT"} /\ r.at \in Nat
         /\ r.err = "ok" => SymbolIs(dd, r.d, dd.objs[ref].file, k, sym, r.at)
<1>1. PICK D : D = Definers(dd, k, sym)
  OBVIOUS
<1>2. PICK x : x = First(D)
  OBVIOUS
<1>3. IsSeq(dd.objs) /\ D \subseteq DOMAIN dd.objs
  BY <1>1 DEF Definers, DInv, Shape
<1>4. CASE D # {}
  <2>1. x \in D
    BY <1>2, <1>3, <1>4, SeqLen, FirstIs
  <2>2. x \in DOMAIN dd.objs /\ ExportsOf(dd.objs[x].file, k, sym) # {}
    BY <1>1, <2>1 DEF Definers
  <2>3. PICK o : o = dd.objs[x]
    OBVIOUS
  <2>4. r = ResolveSymbolInObj(dd, o, k, sym)
    BY <1>1, <1>2, <1>4, <2>3 DEF ResolveSymbol, FirstDefiner, First
  <2>d. ResolvedIn(w, dd, o, k, sym, r)
    BY <2>2, <2>3, <2>4, ResolveInObjIs
  <2>5. /\ DInv(w, r.d) /\ Only(dd, r.d, {"table"}) /\ Ext(dd, r.d) /\ IsResult(r)
        /\ r.err \in {"ok", "ENOENT"} /\ r.at \in Nat
        /\ r.err = "ENOENT" => ExportsOf(o.file, k, sym) = {}
        /\ r.err = "ok" =>
             /\ k = "data" => r.at = (ExportOf(o.file, k, sym).ix + o.mem) % Space
             /\ k = "func" => /\ r.at < dd.tabbase
                              /\ r.d.table[r.at + 1] = Func(o, ExportOf(o.file, k, sym))
    BY <2>d DEF ResolvedIn
  <2>a. Only(dd, r.d, {"table"})
    BY <2>5
  <2>6. r.d.tabbase = dd.tabbase
    BY ONLY <2>a DEF Only, DyldFields
  <2>b. r.err = "ok" /\ r.at \in Nat
    BY <2>2, <2>3, <2>5
  <2>c. /\ k = "data" => r.at = (ExportOf(o.file, k, sym).ix + o.mem) % Space
        /\ k # "data" => /\ r.at < dd.tabbase
                         /\ r.d.table[r.at + 1] = Func(o, ExportOf(o.file, k, sym))
    BY <2>5, <2>b
  <2>7. SymbolIs(dd, r.d, dd.objs[ref].file, k, sym, r.at)
    BY <1>1, <1>2, <1>4, <2>3, <2>6, <2>b, <2>c DEF SymbolIs
  <2> QED BY <2>5, <2>7
<1>5. CASE D = {}
  <2>1. r = Result(dd, 0, IF sym \in dd.objs[ref].file.weak THEN "ok" ELSE "ENOENT")
    BY <1>1, <1>5 DEF ResolveSymbol
  <2>2. /\ r.d = dd /\ r.at = 0 /\ IsResult(r) /\ r.err \in {"ok", "ENOENT"}
        /\ r.err = "ok" => sym \in dd.objs[ref].file.weak
    BY <2>1 DEF Result, IsResult
  <2>3. Only(dd, dd, {"table"}) /\ Ext(dd, dd)
    <3>1. TableOk(dd) /\ DOMAIN dd = DyldFields
      BY DEF DInv, Shape, Rooms
    <3>2. DOMAIN dd.table = 1..dd.tabbase /\ dd.tabbase \in Nat
      BY <3>1, TableDomain
    <3>3. Len(dd.objs) <= Len(dd.objs) /\ dd.tabbase <= dd.tabbase
      BY <1>3, <3>2, SeqLen
    <3>4. \A y \in DOMAIN dd.objs : dd.objs[y].id \in Nat \ {0}
      BY ObjNumbers DEF DInv, Shape
    <3> QED BY <1>3, <3>1, <3>2, <3>3, <3>4 DEF Ext, Only, SamePlace
  <2>4. r.err = "ok" => SymbolIs(dd, r.d, dd.objs[ref].file, k, sym, r.at)
    BY <1>1, <1>5, <2>2 DEF SymbolIs
  <2> QED BY <2>2, <2>3, <2>4
<1> QED BY <1>4, <1>5

WithObj(dd, x, p) == [dd EXCEPT !.objs = Put(@, x, p)]
\* An object with other bindings, or visited
Rebound(o, p) ==
    /\ DOMAIN o = ObjFields /\ DOMAIN p = ObjFields
    /\ \A y \in ObjFields \ {"got", "plt", "seen", "visited"} : p[y] = o[y]
    /\ DOMAIN p.got = DOMAIN o.got /\ DOMAIN p.plt = DOMAIN o.plt

(* One of the objects is replaced. *)
LEMMA WithObjIs ==
  ASSUME NEW w, NEW dd, NEW x, NEW p, NEW e, DInv(w, dd), x \in DOMAIN dd.objs,
         Rebound(dd.objs[x], p), e = WithObj(dd, x, p)
  PROVE  /\ Only(dd, e, {"objs"}) /\ Ext(dd, e) /\ Ext(e, dd)
         /\ IsSeq(e.objs) /\ Len(e.objs) = Len(dd.objs) /\ DOMAIN e.objs = DOMAIN dd.objs
         /\ e.objs[x] = p /\ \A y \in DOMAIN dd.objs : y # x => e.objs[y] = dd.objs[y]
<1>1. /\ DOMAIN dd = DyldFields /\ IsSeq(dd.objs) /\ TableOk(dd)
      /\ \A y \in DOMAIN dd.objs : ObjOk(w, dd.objs[y])
  BY DEF DInv, Shape, Rooms
<1>2. PICK s : s = Put(dd.objs, x, p)
  OBVIOUS
<1>3. /\ IsSeq(s) /\ Len(s) = Len(dd.objs) /\ DOMAIN s = DOMAIN dd.objs
      /\ s[x] = p /\ \A y \in DOMAIN dd.objs : y # x => s[y] = dd.objs[y]
  BY <1>1, <1>2, SeqExcept
<1>4. Only(dd, e, {"objs"}) /\ e.objs = s
  BY <1>1, <1>2 DEF WithObj, Only, DyldFields
<1>5. e.table = dd.table /\ e.tabbase = dd.tabbase
  BY <1>4 DEF Only, DyldFields
<1>6. SamePlace(dd.objs[x], p) /\ SamePlace(p, dd.objs[x])
  BY DEF Rebound, SamePlace, ObjFields
<1>7. \A y \in DOMAIN dd.objs : SamePlace(dd.objs[y], s[y]) /\ SamePlace(s[y], dd.objs[y])
  BY <1>3, <1>6 DEF SamePlace
<1>8. \A y \in DOMAIN dd.objs : dd.objs[y].id \in Nat \ {0} /\ s[y].id \in Nat \ {0}
  <2>1. \A y \in DOMAIN dd.objs : dd.objs[y].id \in Nat \ {0}
    BY <1>1, ObjNumbers
  <2> QED BY <1>7, <2>1 DEF SamePlace
<1>9. DOMAIN dd.table = 1..dd.tabbase /\ dd.tabbase \in Nat
  BY <1>1, TableDomain
<1>10. Len(s) <= Len(dd.objs) /\ Len(dd.objs) <= Len(s) /\ dd.tabbase <= dd.tabbase
  BY <1>1, <1>3, <1>9, SeqLen
<1> QED BY <1>1, <1>3, <1>4, <1>5, <1>7, <1>8, <1>9, <1>10 DEF Ext

(* The invariant stays if its bindings are right. *)
LEMMA WithObjInv ==
  ASSUME NEW w, NEW dd, NEW x, NEW p, NEW e, DInv(w, dd), x \in DOMAIN dd.objs,
         Rebound(dd.objs[x], p), e = WithObj(dd, x, p),
         p.seen \in Nat, p.seen <= Len(dd.objs),
         \A i \in DOMAIN p.got : p.got[i] = Unset \/ GotOk(e, p, i),
         \A i \in DOMAIN p.plt : p.plt[i] = Null \/ PltIsFor(e, p, i)
  PROVE  DInv(w, e)
<1>1. /\ Only(dd, e, {"objs"}) /\ Ext(dd, e)
      /\ IsSeq(e.objs) /\ Len(e.objs) = Len(dd.objs) /\ DOMAIN e.objs = DOMAIN dd.objs
      /\ e.objs[x] = p /\ \A y \in DOMAIN dd.objs : y # x => e.objs[y] = dd.objs[y]
  BY WithObjIs
<1>2. /\ e.ids = dd.ids /\ e.membase = dd.membase /\ e.pages = dd.pages
      /\ e.tabbase = dd.tabbase /\ e.table = dd.table /\ e.stack = dd.stack
      /\ e.heap = dd.heap /\ e.grown = dd.grown /\ DOMAIN e = DyldFields
  BY <1>1 DEF Only, DyldFields
<1>3. /\ dd.ids \in Nat /\ \A y \in DOMAIN dd.objs : ObjOk(w, dd.objs[y])
  BY DEF DInv, Shape
<1>4. \A y \in DOMAIN dd.objs : SamePlace(dd.objs[y], e.objs[y])
  BY <1>1 DEF Ext
<1>5. ObjOk(w, p)
  <2>1. /\ p.file = dd.objs[x].file /\ p.id = dd.objs[x].id /\ p.mem = dd.objs[x].mem
        /\ p.tab = dd.objs[x].tab /\ p.exp = dd.objs[x].exp /\ DOMAIN p = ObjFields
        /\ DOMAIN p.got = DOMAIN dd.objs[x].got /\ DOMAIN p.plt = DOMAIN dd.objs[x].plt
    BY DEF Rebound, ObjFields
  <2>2. ObjOk(w, dd.objs[x])
    BY <1>3
  <2> QED BY <2>1, <2>2 DEF ObjOk
<1>6. Shape(w, e)
  BY <1>1, <1>2, <1>3, <1>5 DEF Shape
<1>7. Rooms(e)
  <2>1. MemoryOk(e) /\ TableOk(e)
    BY <1>2 DEF DInv, Rooms, MemoryOk, TableOk
  <2>2. dd.objs # <<>>
    OBVIOUS
  <2>3. dd.tabbase > 0 /\ dd.table[1] = Null
    BY <2>2 DEF DInv, Rooms
  <2> QED BY <1>2, <2>1, <2>3 DEF Rooms
<1>8. \A y \in DOMAIN dd.objs :
        /\ e.objs[y].mem = dd.objs[y].mem /\ e.objs[y].file = dd.objs[y].file
        /\ e.objs[y].tab = dd.objs[y].tab /\ e.objs[y].exp = dd.objs[y].exp
        /\ e.objs[y].id = dd.objs[y].id
  BY <1>4 DEF SamePlace
<1>9. StackHeap(e)
  BY <1>1, <1>2, <1>8 DEF DInv, StackHeap
<1>10. Ordered(e)
  <2>1. Ordered(dd)
    BY DEF DInv
  <2> QED BY <1>1, <1>2, <1>8, <2>1 DEF Ordered
<1>11. Entries(e)
  <2>1. \A y \in DOMAIN dd.objs : FuncsOf(e.objs[y]) = FuncsOf(dd.objs[y])
    BY <1>8 DEF FuncsOf, Func
  <2>2. \A y \in DOMAIN dd.objs : EntriesOf(dd.table, dd.objs[y])
    BY DEF DInv, Entries, EntriesOf
  <2>3. \A y \in DOMAIN e.objs : EntriesOf(e.table, e.objs[y])
    BY <1>1, <1>2, <1>8, <2>1, <2>2 DEF EntriesOf
  <2> QED BY <2>3 DEF Entries, EntriesOf
<1>12. Bindings(e)
  <2> SUFFICES ASSUME NEW y \in DOMAIN e.objs
               PROVE  LET o == e.objs[y] IN
                      /\ o.seen \in Nat /\ o.seen <= Len(e.objs)
                      /\ \A i \in DOMAIN o.got : o.got[i] = Unset \/ GotOk(e, o, i)
                      /\ \A i \in DOMAIN o.plt : o.plt[i] = Null \/ PltIsFor(e, o, i)
    BY DEF Bindings
  <2>1. CASE y = x
    BY <1>1, <2>1
  <2>2. CASE y # x
    <3>1. PICK o : o = dd.objs[y] /\ o = e.objs[y] /\ y \in DOMAIN dd.objs
      BY <1>1, <2>2
    <3>2. /\ o.seen \in Nat /\ o.seen <= Len(dd.objs)
          /\ \A i \in DOMAIN o.got : o.got[i] = Unset \/ GotOk(dd, o, i)
          /\ \A i \in DOMAIN o.plt : o.plt[i] = Null \/ PltIsFor(dd, o, i)
      BY <3>1 DEF DInv, Bindings
    <3>3. \A i \in DOMAIN o.got : o.got[i] = Unset \/ GotOk(e, o, i)
      BY <1>1, <3>2, GotStays
    <3>4. \A i \in DOMAIN o.plt : o.plt[i] = Null \/ PltIsFor(e, o, i)
      BY <1>1, <3>2, PltStays
    <3> QED BY <1>1, <3>1, <3>2, <3>3, <3>4
  <2> QED BY <2>1, <2>2
<1> QED BY <1>6, <1>7, <1>9, <1>10, <1>11, <1>12 DEF DInv

(* A GOT entry that was just resolved is right. *)
LEMMA GotMeans ==
  ASSUME NEW dd, NEW e, NEW p, NEW i, NEW im, im = p.file.imports[i],
         Ext(dd, e), Len(e.objs) = Len(dd.objs), p.seen = Len(e.objs), e.tabbase > 0,
         SymbolIs(dd, e, p.file, SymType(im), im.sym, p.got[i])
  PROVE  GotOk(e, p, i)
<1>1. PICK k : k = SymType(im)
  OBVIOUS
<1>2. PICK sym : sym = im.sym
  OBVIOUS
<1>3. PICK D : D = Definers(dd, k, sym)
  OBVIOUS
<1>4. PICK E : E = {j \in Definers(e, k, sym) : j <= p.seen}
  OBVIOUS
<1>5. D = E /\ D \subseteq DOMAIN dd.objs /\ D \in SUBSET Nat
  <2>1. /\ Definers(dd, k, sym) \subseteq Nat
        /\ Definers(dd, k, sym) \subseteq DOMAIN dd.objs
        /\ Definers(dd, k, sym) = {j \in Definers(e, k, sym) : j <= Len(dd.objs)}
    BY DefinersStay
  <2> QED BY <1>3, <1>4, <2>1
<1>6. GotIsFor(e, p, i) =
        IF E = {} THEN sym \in p.file.weak /\ p.got[i] = 0
        ELSE IF k = "data"
        THEN p.got[i] = (ExportOf(e.objs[First(E)].file, k, sym).ix + e.objs[First(E)].mem) % Space
        ELSE e.table[p.got[i] + 1] = Func(e.objs[First(E)], ExportOf(e.objs[First(E)].file, k, sym))
  BY <1>1, <1>2, <1>4 DEF GotIsFor, First
<1>7. PICK x : x = First(D)
  OBVIOUS
<1>8. /\ p.got[i] \in Nat
      /\ D = {} => sym \in p.file.weak /\ p.got[i] = 0
      /\ D # {} /\ k = "data" => p.got[i] = (ExportOf(dd.objs[x].file, k, sym).ix + dd.objs[x].mem) % Space
      /\ D # {} /\ k # "data" =>
           /\ p.got[i] < e.tabbase
           /\ e.table[p.got[i] + 1] = Func(dd.objs[x], ExportOf(dd.objs[x].file, k, sym))
  BY <1>1, <1>2, <1>3, <1>7 DEF SymbolIs
<1>9. GotIsFor(e, p, i)
  <2>1. CASE D = {}
    BY <1>5, <1>6, <1>8, <2>1
  <2>2. CASE D # {}
    <3>1. SamePlace(dd.objs[x], e.objs[x])
      BY <1>5, <1>7, <2>2, FirstIs DEF Ext
    <3>2. e.objs[x].file = dd.objs[x].file /\ e.objs[x].mem = dd.objs[x].mem
          /\ \A z : Func(e.objs[x], z) = Func(dd.objs[x], z)
      BY <3>1 DEF SamePlace, Func
    <3> QED BY <1>5, <1>6, <1>7, <1>8, <2>2, <3>2
  <2> QED BY <2>1, <2>2
<1>10. k # "data" => p.got[i] < e.tabbase
  BY <1>8
<1> QED BY <1>1, <1>8, <1>9, <1>10 DEF GotOk

GotSet(o, i, v, n) == [o EXCEPT !.got[i] = v, !.seen = n]

(* Only this changes. *)
LEMMA GotSetIs ==
  ASSUME NEW o, NEW i, NEW v, NEW n, NEW p, p = GotSet(o, i, v, n), DOMAIN o = ObjFields,
         i \in DOMAIN o.got
  PROVE  /\ Rebound(o, p) /\ p.seen = n /\ p.file = o.file /\ p.plt = o.plt
         /\ DOMAIN p.got = DOMAIN o.got /\ p.got[i] = v
         /\ \A j \in DOMAIN o.got : j # i => p.got[j] = o.got[j]
<1>1. DOMAIN p = ObjFields /\ p.seen = n /\ p.file = o.file /\ p.plt = o.plt
      /\ p.got = [o.got EXCEPT ![i] = v]
  BY DEF GotSet, ObjFields
<1>2. \A y \in ObjFields \ {"got", "plt", "seen", "visited"} : p[y] = o[y]
  BY DEF GotSet, ObjFields
<1>3. DOMAIN p.got = DOMAIN o.got /\ p.got[i] = v
      /\ \A j \in DOMAIN o.got : j # i => p.got[j] = o.got[j]
  BY <1>1
<1> QED BY <1>1, <1>2, <1>3 DEF Rebound

\* What has become of the object that refers to a symbol
GotResolved(w, dd, ref, i, r) ==
    /\ DInv(w, r.d) /\ IsResult(r) /\ r.err \in {"ok", "ENOENT"}
    /\ r.err # "ok" => Only(dd, r.d, {"table"})
    /\ r.err = "ok" =>
         /\ Only(dd, r.d, {"table", "objs"})
         /\ \E v \in Nat : r.d.objs = Put(dd.objs, ref, GotSet(dd.objs[ref], i, v, Len(dd.objs)))

(* The loop body of dyld_resolve_got_symbols *)
LEMMA ResolveGotIs ==
  ASSUME NEW w, NEW dd, NEW ref, NEW i, NEW r, DInv(w, dd), ref \in DOMAIN dd.objs,
         i \in DOMAIN dd.objs[ref].got,
         \A j \in DOMAIN dd.objs[ref].got :
            dd.objs[ref].got[j] # Unset => dd.objs[ref].seen = Len(dd.objs),
         r = ResolveGotSymbol(dd, ref, i)
  PROVE  GotResolved(w, dd, ref, i, r)
<1>1. PICK o : o = dd.objs[ref]
  OBVIOUS
<1>2. PICK im : im = o.file.imports[i]
  OBVIOUS
<1>3. PICK k : k = SymType(im) /\ k \in {"func", "data"}
  BY DEF SymType
<1>4. PICK s : s = ResolveSymbol(dd, ref, k, im.sym)
  OBVIOUS
<1>5. /\ DInv(w, s.d) /\ Only(dd, s.d, {"table"}) /\ Ext(dd, s.d) /\ IsResult(s)
      /\ s.err \in {"ok", "ENOENT"} /\ s.at \in Nat
      /\ s.err = "ok" => SymbolIs(dd, s.d, o.file, k, im.sym, s.at)
  <2>1. PICK sym : sym = im.sym
    OBVIOUS
  <2> QED BY <1>1, <1>3, <1>4, <2>1, ResolveIs
<1>6. s.d.objs = dd.objs /\ DOMAIN s.d = DyldFields
  BY <1>5 DEF Only, DyldFields
<1>7. CASE s.err # "ok"
  <2>1. r = s
    BY <1>1, <1>2, <1>3, <1>4, <1>7 DEF ResolveGotSymbol
  <2> QED BY <1>5, <1>7, <2>1 DEF GotResolved
<1>8. CASE s.err = "ok"
  <2>1. PICK n : n = Len(dd.objs) /\ n \in Nat
    BY SeqLen DEF DInv, Shape
  <2>2. PICK v : v = s.at /\ v \in Nat
    BY <1>5
  <2>3. PICK p : p = GotSet(o, i, v, n)
    OBVIOUS
  <2>4. PICK e : e = WithObj(s.d, ref, p)
    OBVIOUS
  <2>5. DOMAIN o = ObjFields /\ o.seen \in Nat /\ o.seen <= n /\ ref \in DOMAIN s.d.objs
    BY <1>1, <1>6, <2>1 DEF DInv, Shape, ObjOk, Bindings
  <2>6. r = Result(e, 0, "ok")
    <3>1. e = [s.d EXCEPT !.objs[ref].got[i] = v, !.objs[ref].seen = n]
      BY <1>1, <1>6, <2>3, <2>4, <2>5 DEF WithObj, Put, GotSet, DyldFields, ObjFields
    <3> QED BY <1>1, <1>2, <1>3, <1>4, <1>6, <1>8, <2>1, <2>2, <3>1 DEF ResolveGotSymbol
  <2>7. r.d = e /\ r.err = "ok" /\ IsResult(r)
    BY <2>6 DEF Result, IsResult
  <2>8. /\ Rebound(o, p) /\ p.seen = n /\ p.file = o.file /\ p.plt = o.plt
        /\ DOMAIN p.got = DOMAIN o.got /\ p.got[i] = v
        /\ \A j \in DOMAIN o.got : j # i => p.got[j] = o.got[j]
    BY <1>1, <2>3, <2>5, GotSetIs
  <2>9. Rebound(s.d.objs[ref], p)
    BY <1>1, <1>6, <2>8
  <2>10. /\ Only(s.d, e, {"objs"}) /\ Ext(s.d, e)
         /\ Len(e.objs) = n
    BY <1>5, <1>6, <2>1, <2>4, <2>5, <2>9, WithObjIs
  <2>11. e.table = s.d.table /\ e.tabbase = s.d.tabbase
    BY <2>10 DEF Only, DyldFields
  <2>12. Ext(dd, e)
    <3>1. \A y \in DOMAIN dd.objs : y \in DOMAIN e.objs /\ SamePlace(dd.objs[y], e.objs[y])
      BY <1>6, <2>10 DEF Ext
    <3>2. IsSeq(e.objs) /\ Len(dd.objs) <= Len(e.objs)
      BY <1>6, <2>10 DEF Ext
    <3> QED BY <1>5, <2>11, <3>1, <3>2 DEF Ext
  <2>13. e.tabbase > 0
    <3>1. s.d.objs # <<>>
      BY <2>5
    <3> QED BY <1>5, <2>11, <3>1 DEF DInv, Rooms
  <2>14. SymbolIs(dd, e, p.file, SymType(im), im.sym, p.got[i])
    BY <1>3, <1>5, <1>8, <2>2, <2>8, <2>11 DEF SymbolIs
  <2>15. GotOk(e, p, i)
    BY <1>2, <2>1, <2>8, <2>10, <2>12, <2>13, <2>14, GotMeans
  <2>16. \A j \in DOMAIN p.got : p.got[j] = Unset \/ GotOk(e, p, j)
    <3> TAKE j \in DOMAIN p.got
    <3>1. CASE j = i
      BY <2>15, <3>1
    <3>2. CASE j # i /\ p.got[j] # Unset
      <4>1. p.got[j] = o.got[j] /\ o.got[j] # Unset /\ j \in DOMAIN o.got
        BY <2>8, <3>2
      <4>2. o.seen = n
        BY <1>1, <2>1, <4>1
      <4>3. GotOk(dd, o, j)
        BY <1>1, <4>1 DEF DInv, Bindings
      <4> QED BY <2>1, <2>5, <2>8, <2>12, <4>1, <4>2, <4>3, GotStays
    <3> QED BY <3>1, <3>2
  <2>17. \A j \in DOMAIN p.plt : p.plt[j] = Null \/ PltIsFor(e, p, j)
    <3>1. \A j \in DOMAIN o.plt : o.plt[j] = Null \/ PltIsFor(dd, o, j)
      BY <1>1 DEF DInv, Bindings
    <3> QED BY <2>8, <2>12, <3>1, PltStays
  <2>18. p.seen \in Nat /\ p.seen <= Len(s.d.objs)
    BY <1>6, <2>1, <2>8
  <2>19. DInv(w, e)
    BY <1>5, <2>4, <2>5, <2>9, <2>16, <2>17, <2>18, WithObjInv
  <2>20. Only(dd, e, {"table", "objs"})
    BY <1>5, <2>10 DEF Only
  <2>21. e.objs = Put(dd.objs, ref, GotSet(dd.objs[ref], i, v, Len(dd.objs)))
    BY <1>1, <1>6, <2>1, <2>3, <2>4 DEF WithObj, DyldFields
  <2> QED BY <2>2, <2>7, <2>19, <2>20, <2>21 DEF GotResolved
<1> QED BY <1>7, <1>8

PltSet(o, i, fn) == [o EXCEPT !.plt[i] = fn]

(* Only this changes. *)
LEMMA PltSetIs ==
  ASSUME NEW o, NEW i, NEW fn, NEW p, p = PltSet(o, i, fn), DOMAIN o = ObjFields,
         i \in DOMAIN o.plt
  PROVE  /\ Rebound(o, p) /\ p.seen = o.seen /\ p.file = o.file /\ p.got = o.got
         /\ DOMAIN p.plt = DOMAIN o.plt /\ p.plt[i] = fn
         /\ \A j \in DOMAIN o.plt : j # i => p.plt[j] = o.plt[j]
<1>1. DOMAIN p = ObjFields /\ p.seen = o.seen /\ p.file = o.file /\ p.got = o.got
      /\ p.plt = [o.plt EXCEPT ![i] = fn]
  BY DEF PltSet, ObjFields
<1>2. \A y \in ObjFields \ {"got", "plt", "seen", "visited"} : p[y] = o[y]
  BY DEF PltSet, ObjFields
<1>3. DOMAIN p.plt = DOMAIN o.plt /\ p.plt[i] = fn
      /\ \A j \in DOMAIN o.plt : j # i => p.plt[j] = o.plt[j]
  BY <1>1
<1> QED BY <1>1, <1>2, <1>3 DEF Rebound

PltResolved(w, dd, ref, i, r) ==
    /\ DInv(w, r.d) /\ IsResult(r) /\ r.err \in {"ok", "ENOENT", "EFAULT"}
    /\ r.err # "ok" => Only(dd, r.d, {"table"})
    /\ r.err = "ok" =>
         /\ Only(dd, r.d, {"table", "objs"})
         /\ \E fn : fn # Null /\ r.d.objs = Put(dd.objs, ref, PltSet(dd.objs[ref], i, fn))

(* dyld_resolve_plt *)
LEMMA ResolvePltIs ==
  ASSUME NEW w, NEW dd, NEW ref, NEW i, NEW r, DInv(w, dd), ref \in DOMAIN dd.objs,
         i \in DOMAIN dd.objs[ref].plt, r = ResolvePlt(dd, ref, i)
  PROVE  PltResolved(w, dd, ref, i, r)
<1>1. PICK o : o = dd.objs[ref]
  OBVIOUS
<1>2. PICK sym : sym = o.file.imports[i].sym
  OBVIOUS
<1>3. PICK k : k = "func" /\ k \in {"func", "data"}
  OBVIOUS
<1>4. PICK s : s = ResolveSymbol(dd, ref, k, sym)
  OBVIOUS
<1>5. /\ DInv(w, s.d) /\ Only(dd, s.d, {"table"}) /\ Ext(dd, s.d) /\ IsResult(s)
      /\ s.err \in {"ok", "ENOENT"} /\ s.at \in Nat
      /\ s.err = "ok" => SymbolIs(dd, s.d, o.file, k, sym, s.at)
  BY <1>1, <1>3, <1>4, ResolveIs
<1>6. s.d.objs = dd.objs /\ DOMAIN s.d = DyldFields
  BY <1>5 DEF Only, DyldFields
<1>7. PICK fn : fn = s.d.table[s.at + 1]
  OBVIOUS
<1>8. PICK ft : ft = (FuncType(s.d, fn) # o.file.imports[i].ft)
  OBVIOUS
<1>9. r = IF s.err # "ok" THEN s
          ELSE IF fn = Null THEN Result(s.d, 0, "EFAULT")
          ELSE IF ft THEN Result(s.d, 0, "EFAULT")
          ELSE Result([s.d EXCEPT !.objs[ref].plt[i] = fn], 0, "ok")
  BY <1>1, <1>2, <1>3, <1>4, <1>7, <1>8 DEF ResolvePlt
<1>10. CASE s.err # "ok"
  <2>1. r = s
    BY <1>9, <1>10
  <2> QED BY <1>5, <1>10, <2>1 DEF PltResolved
<1>11. CASE s.err = "ok" /\ (fn = Null \/ ft)
  <2>1. r = Result(s.d, 0, "EFAULT")
    BY <1>9, <1>11
  <2>2. r.d = s.d /\ r.err = "EFAULT" /\ IsResult(r)
    BY <2>1 DEF Result, IsResult
  <2> QED BY <1>5, <2>2 DEF PltResolved
<1>12. CASE s.err = "ok" /\ fn # Null /\ ~ft
  <2>3. PICK p : p = PltSet(o, i, fn)
    OBVIOUS
  <2>4. PICK e : e = WithObj(s.d, ref, p)
    OBVIOUS
  <2>5. DOMAIN o = ObjFields /\ o.seen \in Nat /\ o.seen <= Len(dd.objs) /\ ref \in DOMAIN s.d.objs
    BY <1>1, <1>6 DEF DInv, Shape, ObjOk, Bindings
  <2>6. r = Result(e, 0, "ok")
    <3>1. e = [s.d EXCEPT !.objs[ref].plt[i] = fn]
      BY <1>1, <1>6, <2>3, <2>4, <2>5 DEF WithObj, Put, PltSet, DyldFields, ObjFields
    <3> QED BY <1>9, <1>12, <3>1
  <2>7. r.d = e /\ r.err = "ok" /\ IsResult(r)
    BY <2>6 DEF Result, IsResult
  <2>8. /\ Rebound(o, p) /\ p.seen = o.seen /\ p.file = o.file /\ p.got = o.got
        /\ DOMAIN p.plt = DOMAIN o.plt /\ p.plt[i] = fn
        /\ \A j \in DOMAIN o.plt : j # i => p.plt[j] = o.plt[j]
    BY <1>1, <2>3, <2>5, PltSetIs
  <2>9. Rebound(s.d.objs[ref], p)
    BY <1>1, <1>6, <2>8
  <2>10. /\ Only(s.d, e, {"objs"}) /\ Ext(s.d, e) /\ Len(e.objs) = Len(dd.objs)
    BY <1>5, <1>6, <2>4, <2>5, <2>9, WithObjIs
  <2>11. e.table = s.d.table /\ e.tabbase = s.d.tabbase
    BY <2>10 DEF Only, DyldFields
  <2>12. Ext(dd, e)
    <3>1. \A y \in DOMAIN dd.objs : y \in DOMAIN e.objs /\ SamePlace(dd.objs[y], e.objs[y])
      BY <1>6, <2>10 DEF Ext
    <3>2. IsSeq(e.objs) /\ Len(dd.objs) <= Len(e.objs)
      BY <1>6, <2>10 DEF Ext
    <3> QED BY <1>5, <2>11, <3>1, <3>2 DEF Ext
  <2>13. PICK D : D = Definers(dd, k, sym)
    OBVIOUS
  <2>14. PICK x : x = First(D)
    OBVIOUS
  <2>15. D # {} /\ fn = Func(dd.objs[x], ExportOf(dd.objs[x].file, k, sym))
    <3>1. SymbolIs(dd, s.d, o.file, k, sym, s.at)
      BY <1>5, <1>12
    <3>2. D # {}
      <4> SUFFICES ASSUME D = {} PROVE FALSE
        OBVIOUS
      <4>1. s.at = 0
        BY <2>13, <3>1 DEF SymbolIs
      <4>2. s.d.objs # <<>>
        BY <2>5
      <4>3. s.d.table[1] = Null
        BY <1>5, <4>2 DEF DInv, Rooms
      <4> QED BY <1>7, <1>12, <4>1, <4>3
    <3> QED BY <1>3, <1>7, <2>13, <2>14, <3>1, <3>2 DEF SymbolIs
  <2>16. PltIsFor(e, p, i)
    <3>1. PICK E : E = Definers(e, k, sym)
      OBVIOUS
    <3>2. D = E /\ D \subseteq DOMAIN dd.objs /\ D \in SUBSET Nat
      <4>1. /\ D \subseteq Nat /\ D \subseteq DOMAIN dd.objs
            /\ D = {j \in E : j <= Len(dd.objs)}
        BY <2>12, <2>13, <3>1, DefinersStay
      <4>2. IsSeq(e.objs) /\ DOMAIN e.objs = 1..Len(e.objs)
        BY <2>10, SeqLen DEF Ext
      <4>3. E \subseteq DOMAIN e.objs
        BY <3>1 DEF Definers
      <4>4. Len(dd.objs) \in Nat
        BY <2>12, SeqLen DEF Ext
      <4>5. \A j \in E : j <= Len(dd.objs)
        BY <2>10, <4>2, <4>3, <4>4
      <4>6. D = E
        BY <4>1, <4>5
      <4> QED BY <4>1, <4>6
    <3>3. x \in DOMAIN dd.objs
      BY <2>14, <2>15, <3>2, FirstIs
    <3>4. SamePlace(dd.objs[x], e.objs[x])
      BY <2>12, <3>3 DEF Ext
    <3>5. fn = Func(e.objs[x], ExportOf(e.objs[x].file, k, sym))
      BY <2>15, <3>4 DEF SamePlace, Func
    <3> QED BY <1>2, <1>3, <2>8, <2>14, <2>15, <3>1, <3>2, <3>5 DEF PltIsFor, FirstDefiner, First
  <2>17. \A j \in DOMAIN p.got : p.got[j] = Unset \/ GotOk(e, p, j)
    <3>1. \A j \in DOMAIN o.got : o.got[j] = Unset \/ GotOk(dd, o, j)
      BY <1>1 DEF DInv, Bindings
    <3> QED BY <2>5, <2>8, <2>12, <3>1, GotStays
  <2>18. \A j \in DOMAIN p.plt : p.plt[j] = Null \/ PltIsFor(e, p, j)
    <3> TAKE j \in DOMAIN p.plt
    <3>1. CASE j = i
      BY <2>16, <3>1
    <3>2. CASE j # i /\ p.plt[j] # Null
      <4>1. p.plt[j] = o.plt[j] /\ o.plt[j] # Null /\ j \in DOMAIN o.plt
        BY <2>8, <3>2
      <4>2. PltIsFor(dd, o, j)
        BY <1>1, <4>1 DEF DInv, Bindings
      <4> QED BY <2>8, <2>12, <4>1, <4>2, PltStays
    <3> QED BY <3>1, <3>2
  <2>19. p.seen \in Nat /\ p.seen <= Len(s.d.objs)
    BY <1>6, <2>5, <2>8
  <2>20. DInv(w, e)
    BY <1>5, <2>4, <2>5, <2>9, <2>17, <2>18, <2>19, WithObjInv
  <2>21. Only(dd, e, {"table", "objs"})
    BY <1>5, <2>10 DEF Only
  <2>22. e.objs = Put(dd.objs, ref, PltSet(dd.objs[ref], i, fn))
    BY <1>1, <1>6, <2>3, <2>4 DEF WithObj, DyldFields
  <2> QED BY <1>12, <2>7, <2>20, <2>21, <2>22 DEF PltResolved
<1> QED
  <2>1. s.err # "ok" \/ (s.err = "ok" /\ (fn = Null \/ ft)) \/ (s.err = "ok" /\ fn # Null /\ ~ft)
    OBVIOUS
  <2> QED BY <1>10, <1>11, <1>12, <2>1

Visited(o) == [o EXCEPT !.visited = TRUE]
Mark(dd, x) == [dd EXCEPT !.objs[x].visited = TRUE]

(* tsort_visit marks an object. *)
LEMMA VisitInv ==
  ASSUME NEW w, NEW dd, NEW x, NEW e, DInv(w, dd), x \in DOMAIN dd.objs, e = Mark(dd, x)
  PROVE  DInv(w, e) /\ Only(dd, e, {"objs"}) /\ e.objs = Put(dd.objs, x, Visited(dd.objs[x]))
<1>1. PICK o : o = dd.objs[x]
  OBVIOUS
<1>2. PICK p : p = Visited(o)
  OBVIOUS
<1>3. DOMAIN o = ObjFields /\ o.seen \in Nat /\ o.seen <= Len(dd.objs) /\ DOMAIN dd = DyldFields
  BY <1>1 DEF DInv, Shape, ObjOk, Bindings
<1>4. e = WithObj(dd, x, p)
  BY <1>1, <1>2, <1>3 DEF WithObj, Put, Visited, Mark, DyldFields, ObjFields
<1>5. Rebound(o, p) /\ p.got = o.got /\ p.plt = o.plt /\ p.seen = o.seen /\ p.file = o.file
  BY <1>2, <1>3 DEF Rebound, Visited, ObjFields
<1>6. Only(dd, e, {"objs"}) /\ Ext(dd, e)
  <2>1. Rebound(dd.objs[x], p)
    BY <1>1, <1>5
  <2>2. DInv(w, dd) /\ x \in DOMAIN dd.objs
    OBVIOUS
  <2> QED BY ONLY <1>4, <2>1, <2>2, WithObjIs
<1>7. \A j \in DOMAIN p.got : p.got[j] = Unset \/ GotOk(e, p, j)
  <2>1. \A j \in DOMAIN o.got : o.got[j] = Unset \/ GotOk(dd, o, j)
    BY <1>1 DEF DInv, Bindings
  <2> QED BY <1>3, <1>5, <1>6, <2>1, GotStays
<1>8. \A j \in DOMAIN p.plt : p.plt[j] = Null \/ PltIsFor(e, p, j)
  <2>1. \A j \in DOMAIN o.plt : o.plt[j] = Null \/ PltIsFor(dd, o, j)
    BY <1>1 DEF DInv, Bindings
  <2> QED BY <1>5, <1>6, <2>1, PltStays
<1>9. DInv(w, e)
  <2>1. Rebound(dd.objs[x], p) /\ p.seen \in Nat /\ p.seen <= Len(dd.objs)
    BY <1>1, <1>3, <1>5
  <2>2. DInv(w, dd) /\ x \in DOMAIN dd.objs
    OBVIOUS
  <2> QED BY ONLY <1>4, <1>7, <1>8, <2>1, <2>2, WithObjInv
<1>10. e.objs = Put(dd.objs, x, p)
  BY <1>3, <1>4 DEF WithObj, DyldFields
<1> QED BY <1>1, <1>2, <1>6, <1>9, <1>10

-----------------------------------------------------------------------------
(* Steps: what they do to the list of objects and to the loads in progress. *)

\* The objects are still there, and so are their symbols, and nothing is
\* changed that the loads in progress rely on.
Went(w, dd, e) ==
    /\ DInv(w, e) /\ SlotsOk(e) /\ Len(dd.objs) <= Len(e.objs)
    /\ \A x \in DOMAIN dd.objs : x \in DOMAIN e.objs /\ (Linked(dd.objs[x]) => Linked(e.objs[x]))
    /\ dd.left \subseteq e.left /\ e.status = dd.status /\ e.fault = dd.fault

Entered(dd, c) == \A i \in c.entered : Linked(dd.objs[i]) \/ i \in dd.left

\* A step of a load in progress begins.
Loads == /\ Inv /\ d.fault = "none" /\ calls # <<>>

(* What can be said of the state when such a step begins. *)
LEMMA LoadsIs ==
  ASSUME Loads
  PROVE  /\ WorldOk(world) /\ DInv(world, d) /\ CallsOk /\ SlotsOk(d) /\ GotsAt(d, Top)
         /\ IsSeq(calls) /\ Len(calls) \in Nat \ {0} /\ DOMAIN calls = 1..Len(calls)
         /\ Top = calls[Len(calls)] /\ Len(calls) \in DOMAIN calls
         /\ FrameOk(world, d, Top) /\ Entered(d, Top) /\ d.status = "loading" /\ d.fault = "none"
         /\ IsSeq(d.objs) /\ Len(d.objs) \in Nat \ {0} /\ DOMAIN d.objs = 1..Len(d.objs)
         /\ DOMAIN d = DyldFields
         /\ \A x \in DOMAIN calls : FrameOk(world, d, calls[x]) /\ Entered(d, calls[x])
         /\ \A x \in DOMAIN calls : x < Len(calls) => calls[x].run
<1>1. /\ WorldOk(world) /\ DInv(world, d) /\ CallsOk /\ SlotsOk(d) /\ GotsAt(d, Top)
      /\ CodeRunsLinked /\ d.fault = "none"
  BY DEF Loads, Inv, GotState
<1>2. IsSeq(calls) /\ Len(calls) \in Nat \ {0} /\ DOMAIN calls = 1..Len(calls)
  BY <1>1, SeqLen DEF CallsOk, Loads
<1>3. Top = calls[Len(calls)] /\ Len(calls) \in DOMAIN calls
  BY <1>2 DEF Top, Last
<1>4. \A x \in DOMAIN calls : FrameOk(world, d, calls[x]) /\ Entered(d, calls[x])
  <2>1. \A x \in DOMAIN calls : calls[x] \in Range(calls)
    BY DEF Range
  <2>2. \A x \in DOMAIN calls : Entered(d, calls[x])
    BY <1>1, <2>1 DEF CodeRunsLinked, Entered
  <2> QED BY <1>1, <2>2 DEF CallsOk
<1>5. d.status = "loading" /\ d.objs # <<>>
  BY <1>1 DEF CallsOk, Loads
<1>6. IsSeq(d.objs) /\ DOMAIN d = DyldFields
  BY <1>1 DEF DInv, Shape
<1>7. Len(d.objs) \in Nat \ {0} /\ DOMAIN d.objs = 1..Len(d.objs)
  BY <1>5, <1>6, SeqLen
<1>8. \A x \in DOMAIN calls : x < Len(calls) => calls[x].run
  BY <1>1 DEF CallsOk
<1>9. FrameOk(world, d, Top) /\ Entered(d, Top)
  BY <1>3, <1>4
<1> QED BY <1>1, <1>2, <1>3, <1>4, <1>5, <1>6, <1>7, <1>8, <1>9

(* Nothing was changed. *)
LEMMA WentSelf ==
  ASSUME Loads
  PROVE  Went(world, d, d)
<1>1. DInv(world, d) /\ SlotsOk(d) /\ Len(d.objs) \in Nat
  BY LoadsIs
<1>2. Len(d.objs) <= Len(d.objs)
  BY <1>1
<1> QED BY <1>1, <1>2 DEF Went

(* The objects below the innermost load are done with. *)
LEMMA SettledBelow ==
  ASSUME Loads, NEW e, Went(world, d, e), NEW x \in DOMAIN d.objs,
         x < Top.start \/ Top.ph \notin {"open", "needed", "got"}
  PROVE  x \in DOMAIN e.objs /\ Settled(e, x)
<1>1. /\ FrameOk(world, d, Top) /\ GotsAt(d, Top) /\ DOMAIN d.objs = 1..Len(d.objs)
      /\ Len(d.objs) \in Nat
  BY LoadsIs
<1>2. ~Pending(Top, x)
  <2>1. Top.start \in Nat /\ Top.at \in Nat /\ x \in Nat
    BY <1>1 DEF FrameOk, AtOk
  <2>2. Top.ph = "got" => Top.at >= Top.start
    BY <1>1 DEF FrameOk, AtOk
  <2> QED BY <2>1, <2>2 DEF Pending
<1>3. Settled(d, x)
  BY <1>1, <1>2 DEF GotsAt
<1> QED BY <1>3 DEF Went, Settled

(* The loads that wait for another one do not notice. *)
LEMMA FramesStay ==
  ASSUME NEW w, NEW dd, NEW e, NEW c, Went(w, dd, e), FrameOk(w, dd, c), IsSeq(dd.objs),
         c.run \/ Len(e.objs) = Len(dd.objs)
  PROVE  FrameOk(w, e, c)
<1>1. /\ IsSeq(e.objs) /\ Len(dd.objs) <= Len(e.objs) /\ \A x \in DOMAIN dd.objs : x \in DOMAIN e.objs
  BY DEF Went, DInv, Shape
<1>2. Len(dd.objs) \in Nat /\ Len(e.objs) \in Nat
  BY <1>1, SeqLen
<1>3. c.start \in Nat
  BY DEF FrameOk, AtOk
<1>4. c.start <= Len(e.objs) + 1 /\ (c.ph # "open" => c.start <= Len(e.objs))
  BY <1>1, <1>2, <1>3 DEF FrameOk, AtOk
<1>5. c.ph = "open" => c.start = Len(e.objs) + 1 /\ c.name \in w.open /\ c.slot # 0
  BY DEF FrameOk, AtOk
<1>6. c.entered \subseteq DOMAIN e.objs /\ Range(c.list) \subseteq DOMAIN e.objs
      /\ \A n \in Range(c.path) : NodeOk(e, n)
  BY <1>1 DEF FrameOk, NodeOk
<1> QED BY <1>4, <1>5, <1>6 DEF FrameOk, AtOk

(* What a load goes through changes, but not what it has reached. *)
LEMMA FrameMoved ==
  ASSUME NEW w, NEW dd, NEW e, NEW c, NEW g, Went(w, dd, e), FrameOk(w, dd, c),
         DOMAIN g = FrameFields, g.entered = c.entered, g.list = c.list, g.path = c.path,
         AtOk(w, e, g)
  PROVE  FrameOk(w, e, g)
BY DEF Went, FrameOk, NodeOk

(* ... nor does the code they run. *)
LEMMA EnteredStays ==
  ASSUME NEW w, NEW dd, NEW e, NEW c, Went(w, dd, e), FrameOk(w, dd, c), Entered(dd, c)
  PROVE  Entered(e, c)
BY DEF Went, FrameOk, AtOk, Entered

(* The linker stops with a failed assertion, or a name that is gone. *)
LEMMA DieInv ==
  ASSUME Loads, NEW e, Went(world, d, e), NEW why, why # "none", Die(e, why), world' = world
  PROVE  Inv'
<1>1. PICK g : g = [e EXCEPT !.fault = why]
  OBVIOUS
<1>2. d' = g /\ calls' = calls
  BY <1>1 DEF Die
<1>3. DInv(world, e) /\ DOMAIN e = DyldFields
  BY DEF Went, DInv, Shape
<1>4. Only(e, g, OtherFields) /\ g.fault = why /\ g.objs = e.objs /\ g.left = e.left
  BY <1>1, <1>3 DEF Only, OtherFields, DyldFields
<1>5. DInv(world, g)
  BY <1>3, <1>4, OtherInv
<1>6. \A x \in DOMAIN calls : Entered(g, calls[x])
  <2>1. \A x \in DOMAIN calls : Entered(e, calls[x])
    BY LoadsIs, EnteredStays
  <2> QED BY <1>4, <2>1 DEF Entered
<1>7. CodeRunsLinked'
  <2>1. \A c \in Range(calls) : Entered(g, c)
    BY <1>6 DEF Range
  <2> QED BY <1>2, <2>1 DEF CodeRunsLinked, Entered
<1> QED BY <1>2, <1>4, <1>5, <1>7, LoadsIs DEF Inv

\* A frame that the innermost load can go on with
Going(w, dd, c) == FrameOk(w, dd, c) /\ GotsAt(dd, c) /\ Entered(dd, c)

(* The innermost load goes on. *)
LEMMA StepInv ==
  ASSUME Loads, NEW e, NEW fr, Went(world, d, e), Going(world, e, fr),
         d' = e, SetTop(fr), world' = world
  PROVE  Inv'
<1>1. PICK s : s = Put(calls, Len(calls), fr)
  OBVIOUS
<1>2. calls' = s
  BY <1>1 DEF SetTop, Put
<1>3. /\ IsSeq(s) /\ Len(s) = Len(calls) /\ DOMAIN s = DOMAIN calls /\ s[Len(calls)] = fr
      /\ \A x \in DOMAIN calls : x # Len(calls) => s[x] = calls[x]
  BY <1>1, LoadsIs, SeqExcept
<1>4. Len(s) \in Nat \ {0} /\ DOMAIN s = 1..Len(s)
  BY <1>3, LoadsIs
<1>5. \A x \in DOMAIN s : x < Len(s) => s[x] = calls[x] /\ s[x].run /\ x \in DOMAIN calls
  BY <1>3, <1>4, LoadsIs
<1>6. \A x \in DOMAIN s : x = Len(s) \/ x < Len(s)
  BY <1>4
<1>7. \A x \in DOMAIN s : FrameOk(world, e, s[x]) /\ Entered(e, s[x])
  <2> TAKE x \in DOMAIN s
  <2>1. CASE x = Len(s)
    BY <1>3, <2>1 DEF Going
  <2>2. CASE x < Len(s)
    <3>1. FrameOk(world, d, s[x]) /\ Entered(d, s[x]) /\ s[x].run
      BY <1>5, <2>2, LoadsIs
    <3>2. IsSeq(d.objs)
      BY LoadsIs
    <3>3. FrameOk(world, e, s[x])
      BY <3>1, <3>2, FramesStay
    <3> QED BY <3>1, <3>3, EnteredStays
  <2> QED BY <1>6, <2>1, <2>2
<1>8. DInv(world, e) /\ SlotsOk(e) /\ e.status = "loading" /\ e.fault = "none" /\ e.objs # <<>>
  <2>1. DInv(world, e) /\ SlotsOk(e) /\ e.status = "loading" /\ e.fault = "none"
        /\ Len(d.objs) <= Len(e.objs)
    BY LoadsIs DEF Went
  <2>2. IsSeq(e.objs)
    BY <2>1 DEF DInv, Shape
  <2> QED BY <2>1, <2>2, SeqLen, LoadsIs
<1>9. CallsOk'
  <2>1. s # <<>>
    BY <1>3, <1>4, SeqLen
  <2> QED BY <1>2, <1>3, <1>5, <1>7, <1>8, <2>1 DEF CallsOk
<1>10. GotState'
  <2>1. s # <<>>
    BY <1>3, <1>4, SeqLen
  <2>2. Top' = fr
    BY <1>2, <1>3 DEF Top, Last
  <2>3. GotsAt(e, fr)
    BY DEF Going
  <2> QED BY <1>2, <2>1, <2>2, <2>3 DEF GotState
<1>11. CodeRunsLinked'
  <2>1. \A c \in Range(s) : Entered(e, c)
    BY <1>7 DEF Range
  <2> QED BY <1>2, <2>1 DEF CodeRunsLinked, Entered
<1> QED BY <1>8, <1>9, <1>10, <1>11, LoadsIs DEF Inv

(* The linker is cleared. *)
LEMMA ClearInv ==
  ASSUME WorldOk(world), NEW e, DInv(world, e), NEW status, status \in {"failed", "done"},
         DyldClear(e, status), world' = world
  PROVE  Inv'
<1>1. PICK g : g = [e EXCEPT !.fault = "stale"]
  OBVIOUS
<1>2. PICK m : m = [EmptyDyld EXCEPT !.status = status]
  OBVIOUS
<1>3. calls' = <<>> /\ (d' = g \/ d' = m)
  BY <1>1, <1>2 DEF DyldClear
<1>4. CodeRunsLinked'
  <2>1. Range(<<>>) = {}
    BY DEF Range
  <2> QED BY <1>3, <2>1 DEF CodeRunsLinked
<1>5. CASE d' = g
  <2>1. DOMAIN e = DyldFields
    BY DEF DInv, Shape
  <2>2. Only(e, g, OtherFields) /\ g.fault = "stale"
    BY <1>1, <2>1 DEF Only, OtherFields, DyldFields
  <2>3. DInv(world, g)
    BY <2>2, OtherInv
  <2> QED BY <1>4, <1>5, <2>2, <2>3 DEF Inv
<1>6. CASE d' = m
  <2>1. DInv(world, m) /\ m.objs = <<>>
    BY <1>2, EmptyInv
  <2>2. /\ m.status = status /\ m.slots = <<>> /\ m.lsize = 0 /\ m.left = {}
    BY <1>2 DEF EmptyDyld
  <2>3. IsSeq(<<>>) /\ DOMAIN <<>> = {} /\ Len(<<>>) = 0
    <3>1. <<>> \in Seq({})
      OBVIOUS
    <3>2. IsSeq(<<>>) /\ Len(<<>>) = 0
      BY <3>1, SeqIs
    <3>3. DOMAIN <<>> = {}
      OBVIOUS
    <3> QED BY <3>2, <3>3
  <2>4. SlotsOk(m)
    BY <2>1, <2>2, <2>3 DEF SlotsOk
  <2>5. CallsOk'
    BY <1>3, <1>6, <2>2, <2>3 DEF CallsOk
  <2>6. GotState'
    BY <1>3, <1>6, <2>1, <2>3 DEF GotState
  <2> QED BY <1>4, <1>6, <2>1, <2>4, <2>5, <2>6 DEF Inv
<1> QED BY <1>3, <1>5, <1>6

(* What is left when the innermost load is gone: nothing, or a load that
   waits in the code it runs. *)
LEMMA PopInv ==
  ASSUME Loads, NEW g, Went(world, d, g), \A x \in DOMAIN g.objs : Settled(g, x),
         d' = g, calls' = Front(calls), world' = world
  PROVE  Inv'
<1>1. PICK s : s = Front(calls)
  OBVIOUS
<1>2. /\ IsSeq(s) /\ Len(s) = Len(calls) - 1 /\ DOMAIN s = 1..(Len(calls) - 1)
      /\ \A x \in 1..(Len(calls) - 1) : s[x] = calls[x] /\ x \in DOMAIN calls
  <2>1. IsSeq(calls) /\ calls # <<>>
    BY LoadsIs DEF Loads
  <2> QED BY <1>1, <2>1, SeqFront
<1>3. Len(calls) \in Nat \ {0}
  BY LoadsIs
<1>4. \A x \in DOMAIN s : s[x] = calls[x] /\ x \in DOMAIN calls /\ x < Len(calls) /\ s[x].run
  BY <1>2, <1>3, LoadsIs
<1>5. \A x \in DOMAIN s : FrameOk(world, g, s[x]) /\ Entered(g, s[x])
  <2> TAKE x \in DOMAIN s
  <2>1. FrameOk(world, d, s[x]) /\ Entered(d, s[x]) /\ s[x].run /\ IsSeq(d.objs)
    BY <1>4, LoadsIs
  <2>2. FrameOk(world, g, s[x])
    BY <2>1, FramesStay
  <2> QED BY <2>1, <2>2, EnteredStays
<1>6. DInv(world, g) /\ SlotsOk(g) /\ g.status = "loading" /\ g.fault = "none" /\ g.objs # <<>>
  <2>1. DInv(world, g) /\ SlotsOk(g) /\ g.status = "loading" /\ g.fault = "none"
        /\ Len(d.objs) <= Len(g.objs)
    BY LoadsIs DEF Went
  <2>2. IsSeq(g.objs)
    BY <2>1 DEF DInv, Shape
  <2> QED BY <2>1, <2>2, SeqLen, LoadsIs
<1>7. CallsOk'
  BY <1>1, <1>2, <1>4, <1>5, <1>6 DEF CallsOk
<1>8. CodeRunsLinked'
  <2>1. \A c \in Range(s) : Entered(g, c)
    BY <1>5 DEF Range
  <2> QED BY <1>1, <2>1 DEF CodeRunsLinked, Entered
<1>9. GotState'
  <2>1. CASE s = <<>>
    BY <1>1, <2>1 DEF GotState
  <2>2. CASE s # <<>>
    <3>1. Len(s) \in DOMAIN s
      BY <1>2, <2>2, SeqLen
    <3>2. PICK c : c = s[Len(s)]
      OBVIOUS
    <3>3. c.run /\ FrameOk(world, g, c)
      BY <1>4, <1>5, <3>1, <3>2
    <3>4. c.ph \in {"ctor", "main"}
      BY <3>3 DEF FrameOk, AtOk
    <3>5. GotsAt(g, c)
      BY <3>4 DEF GotsAt
    <3>6. Top' = c
      BY <1>1, <3>2 DEF Top, Last
    <3> QED BY <1>1, <2>2, <3>5, <3>6 DEF GotState
  <2> QED BY <2>1, <2>2
<1> QED BY <1>6, <1>7, <1>8, <1>9, LoadsIs DEF Inv

(* A load fails. *)
LEMMA AbandonInv ==
  ASSUME Loads, NEW e, Went(world, d, e), Abandon(e), world' = world
  PROVE  Inv'
<1>1. CASE Top.slot = 0
  <2>1. DyldClear(e, "failed")
    BY <1>1 DEF Abandon
  <2>2. WorldOk(world) /\ DInv(world, e)
    BY LoadsIs DEF Went
  <2> QED BY <2>1, <2>2, ClearInv
<1>2. CASE Top.slot # 0
  <2>1. PICK g : g = [e EXCEPT !.data[Top.data].live = FALSE,
                               !.left = @ \cup (Top.start..Len(e.objs))]
    OBVIOUS
  <2>2. d' = g /\ calls' = Front(calls)
    BY <1>2, <2>1 DEF Abandon
  <2>3. DInv(world, e) /\ SlotsOk(e) /\ DOMAIN e = DyldFields /\ IsSeq(e.objs)
    BY DEF Went, DInv, Shape
  <2>4. /\ Only(e, g, OtherFields) /\ g.objs = e.objs /\ g.slots = e.slots /\ g.lsize = e.lsize
        /\ g.left = e.left \cup (Top.start..Len(e.objs)) /\ g.status = e.status /\ g.fault = e.fault
    BY <2>1, <2>3 DEF Only, OtherFields, DyldFields
  <2>5. DInv(world, g)
    BY <2>3, <2>4, OtherInv
  <2>6. DOMAIN e.objs = 1..Len(e.objs) /\ Len(e.objs) \in Nat
    BY <2>3, SeqLen
  <2>7. Top.start \in Nat \ {0} /\ Top.start <= Len(d.objs) + 1
    BY LoadsIs DEF FrameOk, AtOk
  <2>8. SlotsOk(g)
    BY <2>3, <2>4, <2>6, <2>7 DEF SlotsOk
  <2>9. Went(world, d, g)
    BY <2>4, <2>5, <2>8 DEF Went
  <2>10. \A x \in DOMAIN g.objs : Settled(g, x)
    <3> TAKE x \in DOMAIN g.objs
    <3>1. x \in 1..Len(e.objs)
      BY <2>4, <2>6
    <3>2. CASE x >= Top.start
      BY <2>4, <2>7, <3>1, <3>2 DEF Settled
    <3>3. CASE x < Top.start
      <4>1. x \in DOMAIN d.objs
        BY <2>7, <3>1, <3>3, LoadsIs
      <4> QED BY <2>9, <3>3, <4>1, SettledBelow
    <3> QED BY <2>7, <3>1, <3>2, <3>3
  <2> QED BY <2>2, <2>9, <2>10, PopInv
<1> QED BY <1>1, <1>2

(* What comes of a result: the load goes on, fails, or the linker stops. *)
LEMMA OutcomeInv ==
  ASSUME Loads, NEW r, NEW fr, Went(world, d, r.d), r.err = "ok" => Going(world, r.d, fr),
         Outcome(r, fr), world' = world
  PROVE  Inv'
<1>1. CASE r.err = "ok"
  BY <1>1, StepInv DEF Outcome
<1>2. CASE r.err \in {"assert", "stale"}
  <2>1. Die(r.d, r.err) /\ r.err # "none"
    BY <1>2 DEF Outcome
  <2> QED BY <2>1, DieInv
<1>3. CASE r.err \notin {"ok", "assert", "stale"}
  <2>1. Abandon(r.d)
    BY <1>3 DEF Outcome
  <2> QED BY <2>1, AbandonInv
<1> QED BY <1>1, <1>2, <1>3

(* A file of a directory is one the assumption is about. *)
LEMMA FileOk ==
  ASSUME NEW w, WorldOk(w), NEW f, f = w.main \/ \E i \in DOMAIN w.dirs : f \in Range(w.dirs[i])
  PROVE  f = NoFile \/ (f # NoFile /\ (f.valid /\ f.dylink => WellFormed(w, f)))
<1>1. f \in FilesOf(w)
  BY DEF FilesOf
<1> QED BY <1>1 DEF WorldOk

(* The list of objects as it was, in more memory or a larger table. *)
LEMMA WentKept ==
  ASSUME Loads, NEW e, Kept(d, e)
  PROVE  Went(world, d, e) /\ e.objs = d.objs /\ e.left = d.left
<1>1. DInv(world, e)
  BY LoadsIs, KeptInv
<1>2. /\ e.objs = d.objs /\ e.left = d.left /\ e.status = d.status /\ e.fault = d.fault
      /\ e.slots = d.slots /\ e.lsize = d.lsize
  BY DEF Kept, Grew, Only, MakeFields, DyldFields
<1>3. SlotsOk(e) /\ Len(d.objs) <= Len(e.objs)
  BY <1>2, LoadsIs DEF SlotsOk
<1> QED BY <1>1, <1>2, <1>3 DEF Went

(* The list of objects with one more, which is not linked. *)
LEMMA WentAdded ==
  ASSUME Loads, NEW e, NEW o, Added(world, d, e, o)
  PROVE  /\ Went(world, d, e) /\ e.left = d.left
         /\ Len(e.objs) = Len(d.objs) + 1 /\ DOMAIN e.objs = 1..Len(e.objs)
         /\ \A x \in DOMAIN d.objs : e.objs[x] = d.objs[x]
         /\ e.objs[Len(e.objs)] = o /\ Fresh(o)
<1>1. DInv(world, e)
  BY LoadsIs, AddedInv
<1>2. /\ e.objs = Plus(d.objs, o) /\ e.left = d.left /\ e.status = d.status /\ e.fault = d.fault
      /\ e.slots = d.slots /\ e.lsize = d.lsize /\ Fresh(o)
  BY DEF Added, Grew, Only, MakeFields, DyldFields
<1>3. /\ IsSeq(e.objs) /\ Len(e.objs) = Len(d.objs) + 1
      /\ DOMAIN d.objs = 1..Len(d.objs) /\ DOMAIN e.objs = 1..(Len(d.objs) + 1)
      /\ \A x \in DOMAIN d.objs : x \in DOMAIN e.objs /\ e.objs[x] = d.objs[x]
      /\ e.objs[Len(e.objs)] = o
  <2>1. IsSeq(d.objs)
    BY LoadsIs
  <2> QED BY <1>2, <2>1, PlusIs
<1>4. Len(d.objs) \in Nat
  BY LoadsIs
<1>5. SlotsOk(e) /\ Len(d.objs) <= Len(e.objs)
  BY <1>2, <1>3, <1>4, LoadsIs DEF SlotsOk
<1> QED BY <1>1, <1>2, <1>3, <1>4, <1>5 DEF Went

\* What a load looks for, and how it goes on when it has it
Wanted(done) ==
    /\ done.ph = "needed" /\ done.start = Top.start /\ Top.ph \in {"open", "needed"}
    /\ \A e : Went(world, d, e) /\ Len(e.objs) = Len(d.objs) + 1 => FrameOk(world, e, done)
    /\ done.entered = Top.entered

(* The load of an object that was found. *)
LEMMA GoingAdded ==
  ASSUME Loads, NEW e, NEW o, NEW done, Added(world, d, e, o), Wanted(done)
  PROVE  Going(world, e, done)
<1>1. /\ Went(world, d, e) /\ e.left = d.left
      /\ Len(e.objs) = Len(d.objs) + 1 /\ DOMAIN e.objs = 1..Len(e.objs)
      /\ \A x \in DOMAIN d.objs : e.objs[x] = d.objs[x]
      /\ e.objs[Len(e.objs)] = o /\ Fresh(o)
  BY WentAdded
<1>2. FrameOk(world, e, done) /\ Entered(e, done)
  <2>1. Entered(e, Top)
    BY <1>1, LoadsIs, EnteredStays
  <2> QED BY <1>1, <2>1 DEF Wanted, Entered
<1>3. /\ Len(d.objs) \in Nat /\ DOMAIN d.objs = 1..Len(d.objs) /\ GotsAt(d, Top)
      /\ FrameOk(world, d, Top)
  BY LoadsIs
<1>4. /\ Top.start \in Nat /\ Top.start <= Len(d.objs) + 1
      /\ Top.ph = "open" => Top.start = Len(d.objs) + 1
  BY <1>3 DEF FrameOk, AtOk
<1>5. \A x \in DOMAIN e.objs : x \in DOMAIN d.objs \/ x = Len(e.objs)
  BY <1>1, <1>3
<1>6. ASSUME NEW x \in DOMAIN e.objs PROVE Settled(e, x) \/ Pending(done, x)
  <2>1. CASE x \in DOMAIN d.objs
    <3>1. CASE x >= Top.start
      BY <3>1 DEF Wanted, Pending
    <3>2. CASE x < Top.start
      BY <1>1, <2>1, <3>2, SettledBelow
    <3> QED BY <1>3, <1>4, <2>1, <3>1, <3>2
  <2>2. CASE x = Len(e.objs)
    BY <1>1, <1>4, <2>2 DEF Wanted, Pending
  <2> QED BY <1>5, <2>1, <2>2
<1>7. ASSUME NEW x \in DOMAIN e.objs, x >= Top.start PROVE Fresh(e.objs[x])
  <2>1. CASE x \in DOMAIN d.objs
    <3>1. Top.ph # "open"
      BY <1>3, <1>4, <1>7, <2>1
    <3>2. Top.ph = "needed"
      BY <3>1 DEF Wanted
    <3>3. Fresh(d.objs[x])
      BY <1>3, <1>7, <2>1, <3>2 DEF GotsAt
    <3> QED BY <1>1, <2>1, <3>3
  <2>2. CASE x = Len(e.objs)
    BY <1>1, <2>2
  <2> QED BY <1>5, <2>1, <2>2
<1>8. GotsAt(e, done)
  BY <1>6, <1>7 DEF GotsAt, Wanted
<1> QED BY <1>2, <1>8 DEF Going

(* dyld_search_and_load_object_from_file *)
LEMMA SearchInv ==
  ASSUME Loads, ~Top.run, NEW key, NEW name, NEW done, Wanted(done),
         \A i \in DOMAIN world.dirs : key \in DOMAIN world.dirs[i],
         SearchAndLoadObject(key, name, done), world' = world
  PROVE  Inv'
<1>1. PICK err : err = (CASE key \in BadNames -> "EPERM"
                          [] key \notin BadNames /\ Top.dir > Len(world.dirs) -> "ENOENT"
                          [] OTHER -> "ok")
  OBVIOUS
<1>2. CASE err # "ok"
  <2>1. PICK r : r = Result(d, 0, err)
    OBVIOUS
  <2>2. Outcome(r, done)
    BY <1>1, <1>2, <2>1 DEF SearchAndLoadObject
  <2>3. r.d = d /\ r.err = err
    BY <2>1 DEF Result
  <2> QED BY <1>2, <2>2, <2>3, WentSelf, OutcomeInv
<1>3. CASE err = "ok"
  <2>1. PICK f : f = world.dirs[Top.dir][key]
    OBVIOUS
  <2>2. PICK r \in LoadObjectFromFile(d, key, name, f) :
               IF r.err = "ENOENT" THEN d' = r.d /\ SetTop([Top EXCEPT !.dir = @ + 1])
               ELSE Outcome(r, done)
    BY <1>1, <1>3, <2>1 DEF SearchAndLoadObject
  <2>3. WorldOk(world) /\ DInv(world, d) /\ FrameOk(world, d, Top) /\ GotsAt(d, Top) /\ Entered(d, Top)
    BY LoadsIs
  <2>4. f = NoFile \/ (f # NoFile /\ (f.valid /\ f.dylink => WellFormed(world, f)))
    <3>1. IsSeq(world.dirs) /\ Top.dir \in Nat \ {0}
      BY <2>3 DEF WorldOk, FrameOk, AtOk
    <3>2. DOMAIN world.dirs = 1..Len(world.dirs) /\ Len(world.dirs) \in Nat
      BY <3>1, SeqLen
    <3>3. ~(Top.dir > Len(world.dirs))
      BY <1>1, <1>3
    <3>4. Top.dir \in DOMAIN world.dirs
      BY <3>1, <3>2, <3>3
    <3>5. f \in Range(world.dirs[Top.dir])
      BY <2>1, <3>4 DEF Range
    <3> QED BY <2>3, <3>4, <3>5, FileOk
  <2>5. Loadable(d)
    <3>1. d.objs # <<>>
      BY LoadsIs DEF Loads, CallsOk
    <3> QED BY <2>3, <3>1 DEF Loadable, DInv, Shape
  <2>6. Loaded(world, d, key, name, f, r)
    BY <2>2, <2>4, <2>5, LoadObjectFromFileIs
  <2>7. CASE r.err = "ENOENT"
    <3>1. Went(world, d, r.d) /\ r.d.objs = d.objs /\ r.d.left = d.left
      BY <2>6, <2>7, WentKept DEF Loaded
    <3>2. PICK g : g = [Top EXCEPT !.dir = @ + 1]
      OBVIOUS
    <3>3. FrameOk(world, r.d, Top)
      <4>1. IsSeq(d.objs) /\ Len(r.d.objs) = Len(d.objs)
        BY <3>1, LoadsIs
      <4> QED BY <2>3, <3>1, <4>1, FramesStay
    <3>4. FrameOk(world, r.d, g)
      <4>1. DOMAIN Top = FrameFields /\ Top.dir \in Nat \ {0}
        BY <2>3 DEF FrameOk, AtOk
      <4>2. DOMAIN g = FrameFields /\ g.dir \in Nat \ {0}
            /\ \A y \in FrameFields \ {"dir"} : g[y] = Top[y]
        BY <3>2, <4>1 DEF FrameFields
      <4> QED BY <3>3, <4>2 DEF FrameOk, AtOk, FrameFields
    <3>5. GotsAt(r.d, g) /\ Entered(r.d, g)
      <4>1. g.ph = Top.ph /\ g.start = Top.start /\ g.at = Top.at /\ g.k = Top.k
            /\ g.entered = Top.entered
        BY <2>3, <3>2 DEF FrameOk, AtOk, FrameFields
      <4> QED BY <2>3, <3>1, <4>1 DEF GotsAt, Entered, Pending, Settled
    <3>6. d' = r.d /\ SetTop(g)
      BY <2>2, <2>7, <3>2
    <3> QED BY <3>1, <3>4, <3>5, <3>6, StepInv DEF Going
  <2>8. CASE r.err # "ENOENT" /\ r.err # "ok"
    <3>1. Went(world, d, r.d)
      BY <2>6, <2>8, WentKept DEF Loaded
    <3>2. Outcome(r, done)
      BY <2>2, <2>8
    <3> QED BY <2>8, <3>1, <3>2, OutcomeInv
  <2>9. CASE r.err = "ok"
    <3>1. PICK o : Added(world, d, r.d, o)
      BY <2>6, <2>9 DEF Loaded
    <3>2. Went(world, d, r.d) /\ Going(world, r.d, done)
      BY <3>1, WentAdded, GoingAdded
    <3>3. Outcome(r, done)
      BY <2>2, <2>9
    <3> QED BY <3>2, <3>3, OutcomeInv
  <2> QED BY <2>7, <2>8, <2>9
<1> QED BY <1>2, <1>3

(* dyld_load, up to the main object *)
LEMMA DyldLoadInv ==
  ASSUME Inv, DyldLoad
  PROVE  Inv'
<1>1. /\ WorldOk(world) /\ d.fault = "none" /\ d.status = "new" /\ world' = world
      /\ d = EmptyDyld /\ calls = <<>>
  BY DEF Inv, DyldLoad, CallsOk
<1>2. PICK m : m = [EmptyDyld EXCEPT !.status = "loading"]
  OBVIOUS
<1>3. DInv(world, m) /\ Loadable(m) /\ m.objs = <<>>
  BY <1>2, EmptyInv
<1>4. PICK r \in LoadObjectFromFile(m, "<main>", Fixed("<main>"), world.main) :
           CASE r.err = "ok" -> d' = r.d /\ calls' = <<Frame("needed", 1, "main", 0, 0, 0)>>
             [] r.err = "assert" -> Die(r.d, r.err)
             [] OTHER -> DyldClear(r.d, "failed")
  BY <1>1, <1>2 DEF DyldLoad
<1>5. PICK f : f = world.main
  OBVIOUS
<1>6. f = NoFile \/ (f # NoFile /\ (f.valid /\ f.dylink => WellFormed(world, f)))
  BY <1>1, <1>5, FileOk
<1>7. PICK key : key = "<main>"
  OBVIOUS
<1>8. PICK name : name = Fixed("<main>")
  OBVIOUS
<1>9. Loaded(world, m, key, name, f, r)
  BY <1>3, <1>4, <1>5, <1>6, <1>7, <1>8, LoadObjectFromFileIs
<1>10. CodeRunsLinked' \/ r.err = "ok"
  <2>1. Range(<<>>) = {}
    BY DEF Range
  <2> QED BY <1>1, <1>4, <2>1 DEF CodeRunsLinked, Die, DyldClear
<1>11. CASE r.err = "ok"
  <2>1. PICK o : Added(world, m, r.d, o)
    BY <1>9, <1>11 DEF Loaded
  <2>2. DInv(world, r.d)
    BY <1>3, <2>1, AddedInv
  <2>3. PICK g : g = r.d
    OBVIOUS
  <2>4. PICK fr : fr = Frame("needed", 1, "main", 0, 0, 0)
    OBVIOUS
  <2>5. d' = g /\ calls' = <<fr>>
    BY <1>4, <1>11, <2>3, <2>4
  <2>6. /\ g.objs = Plus(m.objs, o) /\ Fresh(o) /\ g.left = m.left /\ g.slots = m.slots
        /\ g.lsize = m.lsize /\ g.status = m.status /\ g.fault = m.fault
    BY <2>1, <2>3 DEF Added, Grew, Only, MakeFields, DyldFields
  <2>7. /\ m.left = {} /\ m.slots = <<>> /\ m.lsize = 0 /\ m.status = "loading"
        /\ m.fault = "none"
    BY <1>2 DEF EmptyDyld
  <2>8. IsSeq(<<>>) /\ Len(<<>>) = 0 /\ DOMAIN <<>> = {} /\ Range(<<>>) = {}
    <3>1. <<>> \in Seq({})
      OBVIOUS
    <3>2. IsSeq(<<>>) /\ Len(<<>>) = 0
      BY <3>1, SeqIs
    <3>3. DOMAIN <<>> = {}
      OBVIOUS
    <3> QED BY <3>2, <3>3 DEF Range
  <2>9. Len(g.objs) = 1 /\ DOMAIN g.objs = 1..1 /\ g.objs[1] = o /\ g.objs # <<>>
    <3>1. PICK s : s = m.objs
      OBVIOUS
    <3>2. PICK t : t = Plus(s, o)
      OBVIOUS
    <3>3. IsSeq(s)
      BY <1>3, <2>8, <3>1
    <3>4. IsSeq(t) /\ Len(t) = Len(s) + 1 /\ DOMAIN t = 1..(Len(s) + 1) /\ t[Len(t)] = o
      BY ONLY <3>2, <3>3, PlusIs
    <3>5. Len(s) = 0
      BY <1>3, <2>8, <3>1
    <3>6. Len(t) = 1 /\ DOMAIN t = 1..1 /\ t[1] = o
      BY <3>4, <3>5
    <3>7. IsSeq(t) /\ Len(t) # 0
      BY <3>4, <3>6
    <3>8. t # <<>>
      BY ONLY <3>7, SeqLen
    <3> QED BY <2>6, <3>1, <3>2, <3>6, <3>8
  <2>10. /\ fr.ph = "needed" /\ fr.start = 1 /\ fr.at = 1 /\ fr.k = 1 /\ fr.dir = 1 /\ fr.path = <<>>
         /\ fr.list = <<>> /\ fr.slot = 0 /\ fr.run = FALSE /\ fr.entered = {}
         /\ DOMAIN fr = FrameFields
    BY <2>4 DEF Frame, FrameFields
  <2>11. FrameOk(world, g, fr)
    <3>1. AtOk(world, g, fr)
      <4>1. fr.run \in BOOLEAN /\ ~fr.run
        BY <2>10
      <4>2. 1 \in Nat \ {0} /\ 1 <= Len(g.objs) /\ 1 <= Len(g.objs) + 1
        BY <2>9
      <4> QED BY <2>10, <4>1, <4>2 DEF AtOk, Before
    <3>2. PICK e : e = <<>>
      OBVIOUS
    <3>3. IsSeq(e) /\ Range(e) = {} /\ fr.list = e /\ fr.path = e
      BY <2>8, <2>10, <3>2
    <3> QED BY <2>10, <3>1, <3>3 DEF FrameOk
  <2>12. SlotsOk(g)
    BY <2>6, <2>7, <2>8 DEF SlotsOk
  <2>13. PICK s : s = <<fr>>
    OBVIOUS
  <2>14. IsSeq(s) /\ Len(s) = 1 /\ DOMAIN s = 1..1 /\ s[1] = fr /\ s # <<>>
    <3>1. s \in Seq({fr}) /\ Len(s) = 1 /\ s[1] = fr
      BY <2>13
    <3>2. IsSeq(s) /\ DOMAIN s = 1..1
      BY ONLY <3>1, SeqIs
    <3>4. IsSeq(s) /\ Len(s) # 0
      BY <3>1, <3>2
    <3>3. s # <<>>
      BY ONLY <3>4, SeqLen
    <3> QED BY <3>1, <3>2, <3>3
  <2>15. CallsOk'
    <3>1. calls' = s /\ d' = g
      BY <2>5, <2>13
    <3>2. IsSeq(s) /\ \A x \in DOMAIN s : FrameOk(world, g, s[x])
      BY <2>11, <2>14
    <3>3. \A x \in DOMAIN s : ~(x < Len(s))
      BY <2>14
    <3>4. g.objs # <<>> /\ g.status = "loading"
      BY <2>6, <2>7, <2>9
    <3> QED BY <1>1, <3>1, <3>2, <3>3, <3>4 DEF CallsOk
  <2>16. GotState'
    <3>1. Top' = fr
      BY <2>5, <2>13, <2>14 DEF Top, Last
    <3>2. GotsAt(g, fr)
      BY <2>6, <2>9, <2>10 DEF GotsAt, Pending
    <3> QED BY <2>5, <2>13, <2>14, <3>1, <3>2 DEF GotState
  <2>17. CodeRunsLinked'
    <3>1. Range(s) = {fr}
      BY <2>14 DEF Range
    <3> QED BY <2>5, <2>10, <2>13, <3>1 DEF CodeRunsLinked
  <2> QED BY <1>1, <2>2, <2>3, <2>5, <2>6, <2>7, <2>12, <2>15, <2>16, <2>17 DEF Inv
<1>12. CASE r.err # "ok"
  <2>1. Kept(m, r.d)
    BY <1>9, <1>12 DEF Loaded
  <2>2. DInv(world, r.d)
    BY <1>3, <2>1, KeptInv
  <2>3. CASE r.err = "assert"
    <3>1. PICK e : e = r.d
      OBVIOUS
    <3>2. PICK g : g = [e EXCEPT !.fault = "assert"]
      OBVIOUS
    <3>3. d' = g
      BY <1>4, <2>3, <3>1, <3>2 DEF Die
    <3>4. DInv(world, e) /\ DOMAIN e = DyldFields
      BY <2>2, <3>1 DEF DInv, Shape
    <3>5. Only(e, g, OtherFields) /\ g.fault = "assert"
      BY <3>2, <3>4 DEF Only, OtherFields, DyldFields
    <3>6. DInv(world, g)
      BY <3>4, <3>5, OtherInv
    <3> QED BY <1>1, <1>10, <1>12, <3>3, <3>5, <3>6 DEF Inv
  <2>4. CASE r.err # "assert"
    <3>1. DyldClear(r.d, "failed")
      BY <1>4, <1>12, <2>4
    <3> QED BY <1>1, <2>2, <3>1, ClearInv
  <2> QED BY <2>3, <2>4
<1> QED BY <1>11, <1>12

(* A linker step, but the first, is one of a load in progress. *)
LEMMA InLoads ==
  ASSUME Inv, NEW ph, In(ph)
  PROVE  Loads /\ Top.ph = ph /\ ~Top.run
BY DEF In, Loads

(* The object that load_object asks for *)
LEMMA OpenObjectInv ==
  ASSUME Inv, OpenObject
  PROVE  Inv'
<1>1. Loads /\ Top.ph = "open" /\ ~Top.run
  BY InLoads DEF OpenObject
<1>2. PICK done : done = [Top EXCEPT !.ph = "needed", !.dir = 1]
  OBVIOUS
<1>3. FrameOk(world, d, Top) /\ WorldOk(world) /\ DInv(world, d) /\ Len(d.objs) \in Nat \ {0}
      /\ DOMAIN d.objs = 1..Len(d.objs)
  BY <1>1, LoadsIs
<1>4. /\ done.ph = "needed" /\ done.dir = 1 /\ DOMAIN done = FrameFields
      /\ \A y \in FrameFields \ {"ph", "dir"} : done[y] = Top[y]
  BY <1>2, <1>3 DEF FrameOk, AtOk, FrameFields
<1>5. /\ done.start = Top.start /\ done.at = Top.at /\ done.k = Top.k /\ done.path = Top.path
      /\ done.list = Top.list /\ done.slot = Top.slot /\ done.run = Top.run /\ done.entered = Top.entered
  BY <1>4 DEF FrameFields
<1>6. ASSUME NEW e, Went(world, d, e), Len(e.objs) = Len(d.objs) + 1
      PROVE  FrameOk(world, e, done)
  <2>1. AtOk(world, e, done)
    BY <1>1, <1>3, <1>4, <1>5, <1>6 DEF FrameOk, AtOk, Before
  <2> QED BY <1>3, <1>4, <1>5, <1>6, <2>1, FrameMoved
<1>7. Wanted(done)
  BY <1>1, <1>4, <1>5, <1>6 DEF Wanted
<1>8. PICK name : name = [fixed |-> "none", slot |-> Top.slot, gen |-> Top.gen]
  OBVIOUS
<1>9. SearchAndLoadObject(Top.name, name, done) /\ world' = world
  BY <1>2, <1>8 DEF OpenObject
<1>10. \A i \in DOMAIN world.dirs : Top.name \in DOMAIN world.dirs[i]
  <2>1. PICK x : x = 1
    OBVIOUS
  <2>2. x \in DOMAIN d.objs
    BY <1>3, <2>1
  <2>3. WellFormed(world, d.objs[x].file)
    BY <1>3, <2>2 DEF DInv, Shape, ObjOk
  <2>4. Top.name \in world.open
    BY <1>1, <1>3 DEF FrameOk, AtOk
  <2> QED BY <2>3, <2>4 DEF WellFormed
<1> QED BY <1>1, <1>7, <1>9, <1>10, SearchInv

\* Areas and the table
PlaceFields == {"membase", "pages", "tabbase", "table", "stack", "heap", "grown"}

(* The list of objects is as it was while areas and the table change. *)
LEMMA WentPlaces ==
  ASSUME Loads, NEW e, DInv(world, e), Only(d, e, PlaceFields)
  PROVE  Went(world, d, e) /\ e.objs = d.objs /\ e.left = d.left
<1>1. /\ e.objs = d.objs /\ e.left = d.left /\ e.status = d.status /\ e.fault = d.fault
      /\ e.slots = d.slots /\ e.lsize = d.lsize
  BY DEF Only, PlaceFields, DyldFields
<1>2. SlotsOk(e) /\ Len(d.objs) <= Len(e.objs)
  BY <1>1, LoadsIs DEF SlotsOk
<1> QED BY <1>1, <1>2 DEF Went

(* The list of objects with another binding. *)
LEMMA WentPut ==
  ASSUME Loads, NEW e, NEW x \in DOMAIN d.objs, NEW p, DInv(world, e),
         Only(d, e, {"table", "objs"}), e.objs = Put(d.objs, x, p),
         Linked(d.objs[x]) => Linked(p)
  PROVE  /\ Went(world, d, e) /\ e.left = d.left
         /\ Len(e.objs) = Len(d.objs) /\ DOMAIN e.objs = DOMAIN d.objs /\ e.objs[x] = p
         /\ \A y \in DOMAIN d.objs : y # x => e.objs[y] = d.objs[y]
<1>1. /\ e.left = d.left /\ e.status = d.status /\ e.fault = d.fault
      /\ e.slots = d.slots /\ e.lsize = d.lsize
  BY DEF Only, DyldFields
<1>2. IsSeq(d.objs) /\ Len(d.objs) \in Nat
  BY LoadsIs
<1>3. /\ Len(e.objs) = Len(d.objs) /\ DOMAIN e.objs = DOMAIN d.objs /\ e.objs[x] = p
      /\ \A y \in DOMAIN d.objs : y # x => e.objs[y] = d.objs[y]
  BY <1>2, SeqExcept
<1>4. SlotsOk(e) /\ Len(d.objs) <= Len(e.objs)
  BY <1>1, <1>2, <1>3, LoadsIs DEF SlotsOk
<1>5. \A y \in DOMAIN d.objs : y \in DOMAIN e.objs /\ (Linked(d.objs[y]) => Linked(e.objs[y]))
  BY <1>3
<1> QED BY <1>1, <1>3, <1>4, <1>5 DEF Went

\* A frame in which only the fields F may have changed
Moved(c, g, F) ==
    /\ DOMAIN c = FrameFields /\ DOMAIN g = FrameFields
    /\ \A y \in FrameFields \ F : g[y] = c[y]
Turning == {"ph", "at", "k", "dir", "run"}

(* The innermost load turns to something else. *)
LEMMA GoingOn ==
  ASSUME Loads, NEW e, NEW g, Went(world, d, e), Moved(Top, g, Turning), AtOk(world, e, g),
         GotsAt(e, g)
  PROVE  Going(world, e, g)
<1>1. /\ g.entered = Top.entered /\ g.list = Top.list /\ g.path = Top.path /\ DOMAIN g = FrameFields
  BY DEF Moved, Turning, FrameFields
<1>2. FrameOk(world, d, Top) /\ Entered(d, Top)
  BY LoadsIs
<1>3. FrameOk(world, e, g)
  BY <1>1, <1>2, FrameMoved
<1>4. Entered(e, Top)
  BY <1>2, EnteredStays
<1> QED BY <1>1, <1>3, <1>4 DEF Going, Entered

(* ... without a change of the linker. *)
LEMMA TurnInv ==
  ASSUME Loads, NEW g, Moved(Top, g, Turning), AtOk(world, d, g), GotsAt(d, g),
         d' = d, SetTop(g), world' = world
  PROVE  Inv'
BY WentSelf, GoingOn, StepInv

\* A load whose objects are linked
Passive(c) == c.ph \notin {"open", "needed", "got"}

(* No more is asked of it. *)
LEMMA PassiveGots ==
  ASSUME Loads, Passive(Top), NEW e, Went(world, d, e), DOMAIN e.objs = DOMAIN d.objs,
         NEW g, Passive(g)
  PROVE  GotsAt(e, g)
<1>1. \A x \in DOMAIN e.objs : Settled(e, x)
  BY SettledBelow DEF Passive
<1> QED BY <1>1 DEF GotsAt, Passive

(* GOT and PLT are indexed by imports. *)
LEMMA GotsAre ==
  ASSUME NEW w, NEW o, ObjOk(w, o)
  PROVE  /\ Len(o.file.imports) \in Nat
         /\ \A i \in DOMAIN o.got : i \in Nat \ {0} /\ i <= Len(o.file.imports)
         /\ DOMAIN o.got = Gots(o.file) /\ DOMAIN o.plt = Plts(o.file)
<1>1. o.file.imports \in Seq(Range(o.file.imports)) /\ DOMAIN o.got = Gots(o.file)
      /\ DOMAIN o.plt = Plts(o.file)
  BY DEF ObjOk, WellFormed
<1>2. Len(o.file.imports) \in Nat /\ DOMAIN o.file.imports = 1..Len(o.file.imports)
  BY <1>1
<1> QED BY <1>1, <1>2 DEF Gots

(* What the turns of the loops do to a frame *)
LEMMA TurnsAre ==
  ASSUME NEW c, DOMAIN c = FrameFields, NEW ph
  PROVE  /\ Moved(c, NextItem(c), Turning) /\ Moved(c, NextObject(c), Turning)
         /\ Moved(c, Goto(c, ph), Turning)
         /\ NextItem(c).ph = c.ph /\ NextItem(c).start = c.start /\ NextItem(c).at = c.at
         /\ NextItem(c).k = c.k + 1 /\ NextItem(c).dir = 1 /\ NextItem(c).run = c.run
         /\ NextItem(c).slot = c.slot /\ NextItem(c).name = c.name /\ NextItem(c).entered = c.entered
         /\ NextObject(c).ph = c.ph /\ NextObject(c).start = c.start /\ NextObject(c).at = c.at + 1
         /\ NextObject(c).k = 1 /\ NextObject(c).dir = c.dir /\ NextObject(c).run = c.run
         /\ NextObject(c).slot = c.slot /\ NextObject(c).name = c.name
         /\ Goto(c, ph).ph = ph /\ Goto(c, ph).start = c.start /\ Goto(c, ph).at = c.start
         /\ Goto(c, ph).k = 1 /\ Goto(c, ph).dir = c.dir /\ Goto(c, ph).run = c.run
         /\ Goto(c, ph).slot = c.slot /\ Goto(c, ph).name = c.name
<1>1. /\ DOMAIN NextItem(c) = FrameFields /\ DOMAIN NextObject(c) = FrameFields
      /\ DOMAIN Goto(c, ph) = FrameFields
  BY DEF NextItem, NextObject, Goto
<1>2. Moved(c, NextItem(c), Turning)
  BY <1>1 DEF Moved, Turning, FrameFields, NextItem
<1>3. Moved(c, NextObject(c), Turning)
  BY <1>1 DEF Moved, Turning, FrameFields, NextObject
<1>4. Moved(c, Goto(c, ph), Turning)
  BY <1>1 DEF Moved, Turning, FrameFields, Goto
<1>5. /\ NextItem(c).ph = c.ph /\ NextItem(c).start = c.start /\ NextItem(c).at = c.at
      /\ NextItem(c).k = c.k + 1 /\ NextItem(c).dir = 1 /\ NextItem(c).run = c.run
      /\ NextItem(c).slot = c.slot /\ NextItem(c).name = c.name /\ NextItem(c).entered = c.entered
  BY DEF NextItem, FrameFields
<1>6. /\ NextObject(c).ph = c.ph /\ NextObject(c).start = c.start /\ NextObject(c).at = c.at + 1
      /\ NextObject(c).k = 1 /\ NextObject(c).dir = c.dir /\ NextObject(c).run = c.run
      /\ NextObject(c).slot = c.slot /\ NextObject(c).name = c.name
  BY DEF NextObject, FrameFields
<1>7. /\ Goto(c, ph).ph = ph /\ Goto(c, ph).start = c.start /\ Goto(c, ph).at = c.start
      /\ Goto(c, ph).k = 1 /\ Goto(c, ph).dir = c.dir /\ Goto(c, ph).run = c.run
      /\ Goto(c, ph).slot = c.slot /\ Goto(c, ph).name = c.name
  BY DEF Goto, FrameFields
<1> QED BY <1>2, <1>3, <1>4, <1>5, <1>6, <1>7

(* One turn of dyld_load_needed_objects *)
LEMMA LoadNeededInv ==
  ASSUME Inv, LoadNeeded
  PROVE  Inv'
<1>1. Loads /\ Top.ph = "needed" /\ ~Top.run /\ world' = world
  BY InLoads DEF LoadNeeded
<1>2. PICK fr : fr = Top
  OBVIOUS
<1>3. /\ FrameOk(world, d, fr) /\ WorldOk(world) /\ DInv(world, d) /\ Len(d.objs) \in Nat \ {0}
      /\ DOMAIN d.objs = 1..Len(d.objs) /\ GotsAt(d, fr)
  BY <1>1, <1>2, LoadsIs
<1>4. /\ DOMAIN fr = FrameFields /\ AtOk(world, d, fr) /\ fr.ph = "needed" /\ ~fr.run
      /\ fr.run \in BOOLEAN
      /\ fr.start \in Nat \ {0} /\ fr.at \in Nat \ {0} /\ fr.k \in Nat \ {0} /\ fr.at >= fr.start
  BY <1>1, <1>2, <1>3 DEF FrameOk, AtOk
<1>5. PICK needs : needs = d.objs[fr.at].file.needs
  OBVIOUS
<1>6. PICK n : n = needs[fr.k]
  OBVIOUS
<1>7. PICK found : found = FindObjectByName(d, n)
  OBVIOUS
<1>8. CASE fr.at > Len(d.objs)
  <2>1. PICK g : g = Goto(fr, "got")
    OBVIOUS
  <2>2. d' = d /\ SetTop(g)
    BY <1>2, <1>3, <1>4, <1>8, <2>1 DEF LoadNeeded
  <2>3. /\ Moved(Top, g, Turning) /\ g.ph = "got" /\ g.start = fr.start /\ g.at = fr.start
        /\ g.k = 1 /\ g.dir = fr.dir /\ g.run = fr.run /\ g.slot = fr.slot
    BY <1>2, <1>4, <2>1, TurnsAre
  <2>4. AtOk(world, d, g)
    BY <1>4, <2>3 DEF AtOk, Before
  <2>5. GotsAt(d, g)
    <3>1. ASSUME NEW x \in DOMAIN d.objs PROVE Settled(d, x) \/ Pending(g, x)
      BY <1>3, <1>4, <2>3 DEF GotsAt, Pending
    <3>2. ASSUME NEW x \in DOMAIN d.objs, x >= g.at PROVE Fresh(d.objs[x])
      BY <1>3, <1>4, <2>3, <3>2 DEF GotsAt
    <3>3. ASSUME NEW x \in DOMAIN d.objs, NEW i \in DOMAIN d.objs[x].got PROVE i \in Nat \ {0}
      <4>1. ObjOk(world, d.objs[x])
        BY <1>3 DEF DInv, Shape
      <4> QED BY <4>1, GotsAre
    <3>4. \A x \in DOMAIN d.objs : x \in Nat
      BY <1>3
    <3>5. \A x \in DOMAIN d.objs : x > g.at => Fresh(d.objs[x])
      BY <1>4, <2>3, <3>2, <3>4
    <3>6. \A x \in DOMAIN d.objs : x = g.at => Fresh(d.objs[x])
      BY <1>4, <2>3, <3>2
    <3> QED BY <2>3, <3>1, <3>3, <3>5, <3>6 DEF GotsAt, Fresh
  <2> QED BY <1>1, <2>2, <2>3, <2>4, <2>5, TurnInv
<1>9. CASE fr.at <= Len(d.objs) /\ fr.k > Len(needs)
  <2>1. PICK g : g = NextObject(fr)
    OBVIOUS
  <2>2. d' = d /\ SetTop(g)
    BY <1>2, <1>4, <1>3, <1>5, <1>9, <2>1 DEF LoadNeeded
  <2>3. /\ Moved(Top, g, Turning) /\ g.ph = fr.ph /\ g.start = fr.start /\ g.at = fr.at + 1
        /\ g.k = 1 /\ g.dir = fr.dir /\ g.run = fr.run /\ g.slot = fr.slot /\ g.name = fr.name
    BY <1>2, <1>4, <2>1, TurnsAre
  <2>4. AtOk(world, d, g)
    BY <1>4, <2>3 DEF AtOk, Before
  <2>5. GotsAt(d, g)
    BY <1>3, <1>4, <2>3 DEF GotsAt, Pending
  <2> QED BY <1>1, <2>2, <2>3, <2>4, <2>5, TurnInv
<1>10. CASE ~(fr.at > Len(d.objs)) /\ ~(fr.at <= Len(d.objs) /\ fr.k > Len(needs))
  <2>1. PICK g : g = NextItem(fr)
    OBVIOUS
  <2>2. \/ d' = d /\ SetTop(g)
        \/ Die(d, "stale")
        \/ SearchAndLoadObject(n, Fixed(n), g)
    BY <1>2, <1>5, <1>6, <1>7, <1>10, <2>1 DEF LoadNeeded
  <2>3. /\ Moved(Top, g, Turning) /\ g.ph = fr.ph /\ g.start = fr.start /\ g.at = fr.at
        /\ g.k = fr.k + 1 /\ g.dir = 1 /\ g.run = fr.run /\ g.slot = fr.slot /\ g.name = fr.name
        /\ g.entered = Top.entered
    BY <1>2, <1>4, <2>1, TurnsAre
  <2>4. CASE d' = d /\ SetTop(g)
    <3>1. AtOk(world, d, g)
      BY <1>4, <2>3 DEF AtOk, Before
    <3>2. GotsAt(d, g)
      BY <1>3, <1>4, <2>3 DEF GotsAt, Pending
    <3> QED BY <1>1, <2>3, <2>4, <3>1, <3>2, TurnInv
  <2>5. CASE Die(d, "stale")
    BY <1>1, <2>5, WentSelf, DieInv
  <2>6. CASE SearchAndLoadObject(n, Fixed(n), g)
    <3>1. ASSUME NEW e, Went(world, d, e), Len(e.objs) = Len(d.objs) + 1
          PROVE  FrameOk(world, e, g)
      <4>1. AtOk(world, e, g)
        BY <1>3, <1>4, <2>3, <3>1 DEF AtOk, Before
      <4>2. g.entered = fr.entered /\ g.list = fr.list /\ g.path = fr.path /\ DOMAIN g = FrameFields
        BY <1>2, <2>3 DEF Moved, Turning, FrameFields
      <4> QED BY <1>3, <3>1, <4>1, <4>2, FrameMoved
    <3>2. Wanted(g)
      BY <1>1, <1>2, <2>3, <3>1 DEF Wanted
    <3>3. \A i \in DOMAIN world.dirs : n \in DOMAIN world.dirs[i]
      <4>1. fr.at \in DOMAIN d.objs
        BY <1>3, <1>4, <1>10
      <4>2. WellFormed(world, d.objs[fr.at].file)
        BY <1>3, <4>1 DEF DInv, Shape, ObjOk
      <4>3. needs \in Seq(Range(needs))
        BY <1>5, <4>2 DEF WellFormed
      <4>4. Len(needs) \in Nat /\ DOMAIN needs = 1..Len(needs)
        BY <4>3
      <4>5. fr.k \in DOMAIN needs
        BY <1>3, <1>4, <1>10, <4>4
      <4>6. n \in Range(needs)
        BY <1>6, <4>5 DEF Range
      <4> QED BY <1>5, <4>2, <4>6 DEF WellFormed
    <3>4. PICK name : name = Fixed(n)
      OBVIOUS
    <3>5. SearchAndLoadObject(n, name, g)
      BY <2>6, <3>4
    <3> QED BY <1>1, <3>2, <3>3, <3>5, SearchInv
  <2> QED BY <2>2, <2>4, <2>5, <2>6
<1> QED BY <1>8, <1>9, <1>10

(* One turn of dyld_resolve_all_got_symbols *)
LEMMA ResolveAllGotInv ==
  ASSUME Inv, ResolveAllGot
  PROVE  Inv'
<1>1. Loads /\ Top.ph = "got" /\ ~Top.run /\ world' = world
  BY InLoads DEF ResolveAllGot
<1>2. PICK fr : fr = Top
  OBVIOUS
<1>3. /\ FrameOk(world, d, fr) /\ WorldOk(world) /\ DInv(world, d) /\ Len(d.objs) \in Nat \ {0}
      /\ DOMAIN d.objs = 1..Len(d.objs) /\ GotsAt(d, fr)
  BY <1>1, <1>2, LoadsIs
<1>4. /\ DOMAIN fr = FrameFields /\ AtOk(world, d, fr) /\ fr.ph = "got" /\ ~fr.run
      /\ fr.run \in BOOLEAN
      /\ fr.start \in Nat \ {0} /\ fr.at \in Nat \ {0} /\ fr.k \in Nat \ {0} /\ fr.at >= fr.start
  BY <1>1, <1>2, <1>3 DEF FrameOk, AtOk
<1>5. PICK f : f = d.objs[fr.at].file
  OBVIOUS
<1>6. \A x \in DOMAIN d.objs : x \in Nat /\ ObjOk(world, d.objs[x])
  BY <1>3 DEF DInv, Shape
<1>7. CASE fr.at > Len(d.objs)
  <2>1. PICK ph : ph = (CASE fr.slot # 0 -> "init"
                          [] fr.slot = 0 /\ world.bindnow -> "plt"
                          [] OTHER -> "layout")
    OBVIOUS
  <2>2. ph \in {"init", "plt", "layout"} /\ (ph # "init" => fr.slot = 0)
    BY <2>1
  <2>3. PICK g : g = Goto(fr, ph)
    OBVIOUS
  <2>4. d' = d /\ SetTop(g)
    BY <1>2, <1>3, <1>4, <1>7, <2>1, <2>3 DEF ResolveAllGot
  <2>5. /\ Moved(Top, g, Turning) /\ g.ph = ph /\ g.start = fr.start /\ g.at = fr.start
        /\ g.k = 1 /\ g.dir = fr.dir /\ g.run = fr.run /\ g.slot = fr.slot
    BY <1>2, <1>4, <2>3, TurnsAre
  <2>6. AtOk(world, d, g)
    BY <1>4, <2>2, <2>5 DEF AtOk, Before
  <2>7. GotsAt(d, g)
    <3>1. ASSUME NEW x \in DOMAIN d.objs PROVE Settled(d, x)
      BY <1>3, <1>4, <1>7 DEF GotsAt, Pending
    <3> QED BY <2>2, <2>5, <3>1 DEF GotsAt
  <2> QED BY <1>1, <2>4, <2>5, <2>6, <2>7, TurnInv
<1>8. CASE fr.at <= Len(d.objs) /\ fr.k > Len(f.imports)
  <2>1. PICK g : g = NextObject(fr)
    OBVIOUS
  <2>2. d' = d /\ SetTop(g)
    BY <1>2, <1>4, <1>3, <1>5, <1>8, <2>1 DEF ResolveAllGot
  <2>3. /\ Moved(Top, g, Turning) /\ g.ph = fr.ph /\ g.start = fr.start /\ g.at = fr.at + 1
        /\ g.k = 1 /\ g.dir = fr.dir /\ g.run = fr.run /\ g.slot = fr.slot /\ g.name = fr.name
    BY <1>2, <1>4, <2>1, TurnsAre
  <2>4. AtOk(world, d, g)
    BY <1>4, <2>3 DEF AtOk, Before
  <2>5. fr.at \in DOMAIN d.objs
    BY <1>3, <1>4, <1>8
  <2>6. Linked(d.objs[fr.at])
    <3> SUFFICES ASSUME NEW i \in DOMAIN d.objs[fr.at].got PROVE d.objs[fr.at].got[i] # Unset
      BY DEF Linked
    <3>1. i \in Nat /\ i <= Len(f.imports) /\ Len(f.imports) \in Nat
      BY <1>5, <1>6, <2>5, GotsAre
    <3>2. i < fr.k
      BY <1>4, <1>8, <3>1
    <3> QED BY <1>3, <1>4, <2>5, <3>2 DEF GotsAt
  <2>7. ASSUME NEW x \in DOMAIN d.objs PROVE Settled(d, x) \/ Pending(g, x)
    <3>1. Settled(d, x) \/ x >= fr.at
      BY <1>3, <1>4 DEF GotsAt, Pending
    <3>2. x = fr.at \/ Settled(d, x) \/ x >= fr.at + 1
      BY <1>4, <1>6, <3>1
    <3> QED BY <1>4, <2>3, <2>6, <3>2 DEF Settled, Pending
  <2>8. ASSUME NEW x \in DOMAIN d.objs, x >= g.at PROVE Fresh(d.objs[x])
    <3>1. x > fr.at
      BY <1>4, <1>6, <2>3, <2>8
    <3> QED BY <1>3, <1>4, <3>1 DEF GotsAt
  <2>9. GotsAt(d, g)
    <3>1. \A x \in DOMAIN d.objs : x > g.at => Fresh(d.objs[x])
      BY <1>4, <1>6, <2>3, <2>8
    <3>2. \A x \in DOMAIN d.objs : x = g.at => Fresh(d.objs[x])
      BY <1>4, <2>3, <2>8
    <3>3. ASSUME NEW x \in DOMAIN d.objs, NEW i \in DOMAIN d.objs[x].got PROVE i \in Nat \ {0}
      BY <1>6, GotsAre
    <3> QED BY <1>4, <2>3, <2>7, <3>1, <3>2, <3>3 DEF GotsAt, Fresh
  <2> QED BY <1>1, <2>2, <2>3, <2>4, <2>9, TurnInv
<1>9. CASE ~(fr.at > Len(d.objs)) /\ ~(fr.at <= Len(d.objs) /\ fr.k > Len(f.imports))
  <2>1. PICK g : g = NextItem(fr)
    OBVIOUS
  <2>2. \/ fr.k \in Gots(f) /\ Outcome(ResolveGotSymbol(d, fr.at, fr.k), g)
        \/ fr.k \notin Gots(f) /\ d' = d /\ SetTop(g)
    BY <1>2, <1>5, <1>9, <2>1 DEF ResolveAllGot
  <2>3. /\ Moved(Top, g, Turning) /\ g.ph = fr.ph /\ g.start = fr.start /\ g.at = fr.at
        /\ g.k = fr.k + 1 /\ g.dir = 1 /\ g.run = fr.run /\ g.slot = fr.slot /\ g.name = fr.name
        /\ g.entered = Top.entered
    BY <1>2, <1>4, <2>1, TurnsAre
  <2>4. fr.at \in DOMAIN d.objs
    BY <1>3, <1>4, <1>9
  <2>5. PICK o : o = d.objs[fr.at]
    OBVIOUS
  <2>6. /\ \A i \in DOMAIN o.got : i \in Nat \ {0}
        /\ DOMAIN o.got = Gots(f) /\ DOMAIN o = ObjFields
    BY <1>5, <1>6, <2>4, <2>5, GotsAre DEF ObjOk
  <2>7. \A i \in DOMAIN o.got :
           /\ i >= fr.k => o.got[i] = Unset
           /\ i < fr.k => o.got[i] # Unset /\ o.seen = Len(d.objs)
    BY <1>3, <1>4, <2>4, <2>5 DEF GotsAt
  <2>8. CASE fr.k \notin Gots(f) /\ d' = d /\ SetTop(g)
    <3>1. AtOk(world, d, g)
      BY <1>4, <2>3 DEF AtOk, Before
    <3>2. \A i \in DOMAIN o.got :
           /\ i >= g.k => o.got[i] = Unset
           /\ i < g.k => o.got[i] # Unset /\ o.seen = Len(d.objs)
      <4> TAKE i \in DOMAIN o.got
      <4>1. i \in Nat /\ i # fr.k
        BY <2>6, <2>8
      <4>2. (i >= g.k => i >= fr.k) /\ (i < g.k => i < fr.k)
        BY <1>4, <2>3, <4>1
      <4> QED BY <2>7, <4>2
    <3>3. GotsAt(d, g)
      BY <1>3, <1>4, <2>3, <2>5, <3>2 DEF GotsAt, Pending
    <3> QED BY <1>1, <2>3, <2>8, <3>1, <3>3, TurnInv
  <2>9. CASE fr.k \in Gots(f) /\ Outcome(ResolveGotSymbol(d, fr.at, fr.k), g)
    <3>1. PICK r : r = ResolveGotSymbol(d, fr.at, fr.k)
      OBVIOUS
    <3>2. PICK N : N = Len(d.objs)
      OBVIOUS
    <3>3. \A j \in DOMAIN d.objs[fr.at].got :
             d.objs[fr.at].got[j] # Unset => d.objs[fr.at].seen = Len(d.objs)
      <4>1. \A j \in DOMAIN o.got : j >= fr.k \/ j < fr.k
        BY <1>4, <2>6
      <4> QED BY <2>5, <2>7, <4>1
    <3>4. fr.k \in DOMAIN d.objs[fr.at].got
      BY <2>5, <2>6, <2>9
    <3>5. GotResolved(world, d, fr.at, fr.k, r)
      BY <1>3, <2>4, <3>1, <3>3, <3>4, ResolveGotIs
    <3>6. CASE r.err # "ok"
      <4>1. Only(d, r.d, {"table"}) /\ DInv(world, r.d)
        BY <3>5, <3>6 DEF GotResolved
      <4>2. Only(d, r.d, PlaceFields)
        BY <4>1 DEF Only, PlaceFields
      <4>3. Went(world, d, r.d)
        BY <1>1, <4>1, <4>2, WentPlaces
      <4>4. Outcome(r, g)
        BY <2>9, <3>1
      <4> QED BY <1>1, <3>6, <4>3, <4>4, OutcomeInv
    <3>7. CASE r.err = "ok"
      <4>1. PICK v \in Nat : r.d.objs = Put(d.objs, fr.at, GotSet(d.objs[fr.at], fr.k, v, Len(d.objs)))
        BY <3>5, <3>7 DEF GotResolved
      <4>2. PICK p : p = GotSet(o, fr.k, v, N)
        OBVIOUS
      <4>3. /\ p.seen = N /\ DOMAIN p.got = DOMAIN o.got /\ p.got[fr.k] = v
            /\ \A j \in DOMAIN o.got : j # fr.k => p.got[j] = o.got[j]
        BY <2>5, <2>6, <3>4, <4>2, GotSetIs
      <4>4. PICK e : e = r.d
        OBVIOUS
      <4>5. DInv(world, e) /\ Only(d, e, {"table", "objs"}) /\ e.objs = Put(d.objs, fr.at, p)
        BY <2>5, <3>2, <3>5, <3>7, <4>1, <4>2, <4>4 DEF GotResolved
      <4>6. v # Unset
        BY DEF Unset
      <4>7. Linked(d.objs[fr.at]) => Linked(p)
        BY <2>5, <4>3, <4>6 DEF Linked
      <4>8. /\ Went(world, d, e) /\ e.left = d.left
            /\ Len(e.objs) = N /\ DOMAIN e.objs = DOMAIN d.objs /\ e.objs[fr.at] = p
            /\ \A y \in DOMAIN d.objs : y # fr.at => e.objs[y] = d.objs[y]
        <5>1. PICK x : x = fr.at
          OBVIOUS
        <5>2. Loads /\ x \in DOMAIN d.objs
          BY <1>1, <2>4, <5>1
        <5>3. /\ DInv(world, e) /\ Only(d, e, {"table", "objs"}) /\ e.objs = Put(d.objs, x, p)
              /\ (Linked(d.objs[x]) => Linked(p))
          BY <4>5, <4>7, <5>1
        <5>4. /\ Went(world, d, e) /\ e.left = d.left
              /\ Len(e.objs) = Len(d.objs) /\ DOMAIN e.objs = DOMAIN d.objs /\ e.objs[x] = p
              /\ \A y \in DOMAIN d.objs : y # x => e.objs[y] = d.objs[y]
          BY ONLY <5>2, <5>3, WentPut
        <5> QED BY <3>2, <5>1, <5>4
      <4>9. AtOk(world, e, g)
        BY <1>4, <2>3, <3>2, <4>8 DEF AtOk, Before
      <4>10. ASSUME NEW x \in DOMAIN e.objs PROVE Settled(e, x) \/ Pending(g, x)
        <5>1. x \in DOMAIN d.objs /\ (Settled(d, x) \/ x >= fr.at)
          BY <1>3, <1>4, <4>8 DEF GotsAt, Pending
        <5>2. Settled(d, x) => Settled(e, x)
          BY <4>8, <5>1 DEF Settled, Went
        <5> QED BY <1>4, <2>3, <5>1, <5>2 DEF Pending
      <4>11. ASSUME NEW x \in DOMAIN e.objs, x > g.at PROVE Fresh(e.objs[x])
        <5>1. x \in DOMAIN d.objs /\ x > fr.at /\ x # fr.at
          BY <1>4, <1>6, <2>3, <4>8, <4>11
        <5> QED BY <1>3, <1>4, <4>8, <5>1 DEF GotsAt
      <4>12. ASSUME NEW i \in DOMAIN p.got
             PROVE  /\ i >= g.k => p.got[i] = Unset
                    /\ i < g.k => p.got[i] # Unset /\ p.seen = Len(e.objs)
        <5>1. CASE i = fr.k
          BY <1>4, <2>3, <4>3, <4>6, <4>8, <5>1
        <5>2. CASE i # fr.k
          <6>1. i \in DOMAIN o.got /\ i \in Nat /\ p.got[i] = o.got[i]
            BY <2>6, <4>3, <5>2
          <6>2. (i >= g.k => i >= fr.k) /\ (i < g.k => i < fr.k)
            BY <1>4, <2>3, <5>2, <6>1
          <6> QED BY <2>7, <4>3, <4>8, <6>1, <6>2
        <5> QED BY <5>1, <5>2
      <4>13. GotsAt(e, g)
        BY <1>4, <2>3, <4>8, <4>10, <4>11, <4>12 DEF GotsAt
      <4>14. Going(world, e, g)
        BY <1>1, <2>3, <4>8, <4>9, <4>13, GoingOn
      <4>15. Outcome(r, g)
        BY <2>9, <3>1
      <4> QED BY <1>1, <4>4, <4>8, <4>14, <4>15, OutcomeInv
    <3> QED BY <3>6, <3>7
  <2> QED BY <2>2, <2>8, <2>9
<1> QED BY <1>7, <1>8, <1>9

(* What the resolution of a PLT entry leaves, for a load in progress *)
LEMMA WentPlt ==
  ASSUME Loads, NEW x \in DOMAIN d.objs, NEW i \in DOMAIN d.objs[x].plt,
         NEW r, r = ResolvePlt(d, x, i)
  PROVE  /\ IsResult(r) /\ DInv(world, r.d) /\ Went(world, d, r.d)
         /\ DOMAIN r.d.objs = DOMAIN d.objs /\ Len(r.d.objs) = Len(d.objs)
         /\ r.err = "ok" => r.d.objs[x].plt[i] # Null /\ i \in DOMAIN r.d.objs[x].plt
<1>1. DInv(world, d)
  BY LoadsIs
<1>2. PltResolved(world, d, x, i, r)
  BY <1>1, ResolvePltIs
<1>3. CASE r.err # "ok"
  <2>1. Only(d, r.d, {"table"}) /\ DInv(world, r.d) /\ IsResult(r)
    BY <1>2, <1>3 DEF PltResolved
  <2>2. Only(d, r.d, PlaceFields)
    BY <2>1 DEF Only, PlaceFields
  <2>3. Went(world, d, r.d) /\ r.d.objs = d.objs
    BY <2>1, <2>2, WentPlaces
  <2> QED BY <1>3, <2>1, <2>3
<1>4. CASE r.err = "ok"
  <2>1. PICK fn : fn # Null /\ r.d.objs = Put(d.objs, x, PltSet(d.objs[x], i, fn))
    BY <1>2, <1>4 DEF PltResolved
  <2>2. PICK o : o = d.objs[x]
    OBVIOUS
  <2>3. PICK p : p = PltSet(o, i, fn)
    OBVIOUS
  <2>4. DOMAIN o = ObjFields /\ i \in DOMAIN o.plt
    BY <1>1, <2>2 DEF DInv, Shape, ObjOk
  <2>5. p.got = o.got /\ DOMAIN p.plt = DOMAIN o.plt /\ p.plt[i] = fn
    BY ONLY <2>3, <2>4, PltSetIs
  <2>6. PICK e : e = r.d
    OBVIOUS
  <2>7. /\ DInv(world, e) /\ Only(d, e, {"table", "objs"}) /\ e.objs = Put(d.objs, x, p)
        /\ (Linked(d.objs[x]) => Linked(p))
    BY <1>2, <1>4, <2>1, <2>2, <2>3, <2>5, <2>6 DEF PltResolved, Linked
  <2>8. Loads /\ x \in DOMAIN d.objs
    OBVIOUS
  <2>9. /\ Went(world, d, e) /\ Len(e.objs) = Len(d.objs) /\ DOMAIN e.objs = DOMAIN d.objs
        /\ e.objs[x] = p
    BY ONLY <2>7, <2>8, WentPut
  <2>10. IsResult(r)
    BY <1>2 DEF PltResolved
  <2> QED BY <2>1, <2>2, <2>4, <2>5, <2>6, <2>7, <2>9, <2>10
<1> QED BY <1>3, <1>4

(* ... and that of the loop body of dyld_resolve_plt_symbols *)
LEMMA WentPltSymbol ==
  ASSUME Loads, NEW x \in DOMAIN d.objs, NEW i \in DOMAIN d.objs[x].plt,
         NEW r, r = ResolvePltSymbol(d, x, i)
  PROVE  Went(world, d, r.d) /\ DOMAIN r.d.objs = DOMAIN d.objs /\ Len(r.d.objs) = Len(d.objs)
<1>1. PICK s : s = ResolvePlt(d, x, i)
  OBVIOUS
<1>2. Went(world, d, s.d) /\ DOMAIN s.d.objs = DOMAIN d.objs /\ Len(s.d.objs) = Len(d.objs)
  BY <1>1, WentPlt
<1>3. r = s \/ r = Result(s.d, 0, "ok")
  BY <1>1 DEF ResolvePltSymbol
<1>4. r.d = s.d
  BY <1>3 DEF Result
<1> QED BY <1>2, <1>4

(* A passive load goes on, whatever the areas, the table and the bindings are. *)
LEMMA PassiveInv ==
  ASSUME Loads, Passive(Top), NEW r, Went(world, d, r.d), DOMAIN r.d.objs = DOMAIN d.objs,
         Len(r.d.objs) = Len(d.objs),
         NEW g, Passive(g), Moved(Top, g, Turning), AtOk(world, d, g), Outcome(r, g), world' = world
  PROVE  Inv'
<1>1. GotsAt(r.d, g)
  BY PassiveGots
<1>2. AtOk(world, r.d, g)
  BY DEF AtOk
<1> QED BY <1>1, <1>2, GoingOn, OutcomeInv

(* ... without a change of the linker. *)
LEMMA PassiveTurn ==
  ASSUME Loads, Passive(Top), NEW g, Passive(g), Moved(Top, g, Turning), AtOk(world, d, g),
         d' = d, SetTop(g), world' = world
  PROVE  Inv'
<1>1. Went(world, d, d)
  BY WentSelf
<1>2. GotsAt(d, g)
  BY <1>1, PassiveGots
<1> QED BY <1>2, TurnInv

(* One turn of dyld_resolve_all_plt_symbols *)
LEMMA ResolveAllPltInv ==
  ASSUME Inv, ResolveAllPlt
  PROVE  Inv'
<1>1. Loads /\ Top.ph = "plt" /\ ~Top.run /\ world' = world
  BY InLoads DEF ResolveAllPlt
<1>2. PICK fr : fr = Top
  OBVIOUS
<1>3. /\ FrameOk(world, d, fr) /\ DInv(world, d) /\ Len(d.objs) \in Nat \ {0}
      /\ DOMAIN d.objs = 1..Len(d.objs)
  BY <1>1, <1>2, LoadsIs
<1>4. /\ DOMAIN fr = FrameFields /\ AtOk(world, d, fr) /\ fr.ph = "plt" /\ ~fr.run
      /\ fr.run \in BOOLEAN /\ fr.slot = 0
      /\ fr.start \in Nat \ {0} /\ fr.at \in Nat \ {0} /\ fr.k \in Nat \ {0}
  BY <1>1, <1>2, <1>3 DEF FrameOk, AtOk
<1>5. PICK f : f = d.objs[fr.at].file
  OBVIOUS
<1>6. Passive(Top)
  BY <1>1 DEF Passive
<1>7. CASE fr.at > Len(d.objs)
  <2>1. PICK g : g = Goto(fr, "layout")
    OBVIOUS
  <2>2. d' = d /\ SetTop(g)
    BY <1>2, <1>3, <1>4, <1>7, <2>1 DEF ResolveAllPlt
  <2>3. /\ Moved(Top, g, Turning) /\ g.ph = "layout" /\ g.start = fr.start /\ g.at = fr.start
        /\ g.k = 1 /\ g.dir = fr.dir /\ g.run = fr.run /\ g.slot = fr.slot
    BY <1>2, <1>4, <2>1, TurnsAre
  <2>4. AtOk(world, d, g) /\ Passive(g)
    BY <1>4, <2>3 DEF AtOk, Before, Passive
  <2> QED BY <1>1, <1>6, <2>2, <2>3, <2>4, PassiveTurn
<1>8. CASE fr.at <= Len(d.objs) /\ fr.k > Len(f.imports)
  <2>1. PICK g : g = NextObject(fr)
    OBVIOUS
  <2>2. d' = d /\ SetTop(g)
    BY <1>2, <1>4, <1>3, <1>5, <1>8, <2>1 DEF ResolveAllPlt
  <2>3. /\ Moved(Top, g, Turning) /\ g.ph = fr.ph /\ g.start = fr.start /\ g.at = fr.at + 1
        /\ g.k = 1 /\ g.dir = fr.dir /\ g.run = fr.run /\ g.slot = fr.slot /\ g.name = fr.name
    BY <1>2, <1>4, <2>1, TurnsAre
  <2>4. AtOk(world, d, g) /\ Passive(g)
    BY <1>4, <2>3 DEF AtOk, Before, Passive
  <2> QED BY <1>1, <1>6, <2>2, <2>3, <2>4, PassiveTurn
<1>9. CASE ~(fr.at > Len(d.objs)) /\ ~(fr.at <= Len(d.objs) /\ fr.k > Len(f.imports))
  <2>1. PICK g : g = NextItem(fr)
    OBVIOUS
  <2>2. \/ fr.k \in Plts(f) /\ Outcome(ResolvePltSymbol(d, fr.at, fr.k), g)
        \/ d' = d /\ SetTop(g)
    BY <1>2, <1>5, <1>9, <2>1 DEF ResolveAllPlt
  <2>3. /\ Moved(Top, g, Turning) /\ g.ph = fr.ph /\ g.start = fr.start /\ g.at = fr.at
        /\ g.k = fr.k + 1 /\ g.dir = 1 /\ g.run = fr.run /\ g.slot = fr.slot /\ g.name = fr.name
    BY <1>2, <1>4, <2>1, TurnsAre
  <2>4. AtOk(world, d, g) /\ Passive(g)
    BY <1>4, <2>3 DEF AtOk, Before, Passive
  <2>5. CASE d' = d /\ SetTop(g)
    BY <1>1, <1>6, <2>3, <2>4, <2>5, PassiveTurn
  <2>6. CASE fr.k \in Plts(f) /\ Outcome(ResolvePltSymbol(d, fr.at, fr.k), g)
    <3>1. PICK r : r = ResolvePltSymbol(d, fr.at, fr.k)
      OBVIOUS
    <3>2. fr.at \in DOMAIN d.objs
      BY <1>3, <1>4, <1>9
    <3>3. fr.k \in DOMAIN d.objs[fr.at].plt
      BY <1>3, <1>5, <2>6, <3>2 DEF DInv, Shape, ObjOk
    <3>4. Went(world, d, r.d) /\ DOMAIN r.d.objs = DOMAIN d.objs /\ Len(r.d.objs) = Len(d.objs)
      BY <1>1, <3>1, <3>2, <3>3, WentPltSymbol
    <3>5. Outcome(r, g)
      BY <2>6, <3>1
    <3> QED BY <1>1, <1>6, <2>3, <2>4, <3>4, <3>5, PassiveInv
  <2> QED BY <2>2, <2>5, <2>6
<1> QED BY <1>7, <1>8, <1>9

(* The end of dyld_load *)
LEMMA LayoutInv ==
  ASSUME Inv, Layout
  PROVE  Inv'
<1>1. Loads /\ Top.ph = "layout" /\ ~Top.run /\ world' = world
  BY InLoads DEF Layout
<1>2. PICK fr : fr = Top
  OBVIOUS
<1>3. FrameOk(world, d, fr) /\ DInv(world, d)
  BY <1>1, <1>2, LoadsIs
<1>4. DOMAIN fr = FrameFields /\ AtOk(world, d, fr) /\ fr.ph = "layout" /\ ~fr.run /\ fr.start \in Nat \ {0}
  BY <1>1, <1>2, <1>3 DEF FrameOk, AtOk
<1>5. PICK g : g = Goto(fr, "init")
  OBVIOUS
<1>6. PICK r \in IF d.pie THEN AllocateStackAndHeap(d) ELSE {Result(d, 0, "ok")} : Outcome(r, g)
  BY <1>2, <1>5 DEF Layout
<1>7. /\ Moved(Top, g, Turning) /\ g.ph = "init" /\ g.start = fr.start /\ g.at = fr.start
      /\ g.k = 1 /\ g.dir = fr.dir /\ g.run = fr.run /\ g.slot = fr.slot
  BY <1>2, <1>4, <1>5, TurnsAre
<1>8. AtOk(world, d, g) /\ Passive(g) /\ Passive(Top)
  BY <1>1, <1>4, <1>7 DEF AtOk, Before, Passive
<1>9. Went(world, d, r.d) /\ r.d.objs = d.objs
  <2>1. CASE r \in AllocateStackAndHeap(d)
    <3>1. DInv(world, r.d) /\ Only(d, r.d, {"membase", "pages", "stack", "heap"})
      BY <1>3, <2>1, StackAndHeapInv
    <3>2. Only(d, r.d, PlaceFields)
      BY <3>1 DEF Only, PlaceFields
    <3> QED BY <1>1, <3>1, <3>2, WentPlaces
  <2>2. CASE r = Result(d, 0, "ok")
    <3>1. r.d = d
      BY <2>2 DEF Result
    <3> QED BY <1>1, <3>1, WentSelf
  <2> QED BY <1>6, <2>1, <2>2
<1> QED BY <1>1, <1>6, <1>7, <1>8, <1>9, PassiveInv

(* The begin of dyld_execute_all_init_funcs *)
LEMMA ExecuteInitFuncsInv ==
  ASSUME Inv, ExecuteInitFuncs
  PROVE  Inv'
<1>1. Loads /\ Top.ph = "init" /\ ~Top.run /\ world' = world
  BY InLoads DEF ExecuteInitFuncs
<1>2. PICK fr : fr = Top
  OBVIOUS
<1>3. FrameOk(world, d, fr) /\ DInv(world, d)
  BY <1>1, <1>2, LoadsIs
<1>4. DOMAIN fr = FrameFields /\ AtOk(world, d, fr) /\ fr.ph = "init" /\ ~fr.run /\ fr.start \in Nat \ {0}
  BY <1>1, <1>2, <1>3 DEF FrameOk, AtOk
<1>5. PICK g : g = Goto(fr, "sort")
  OBVIOUS
<1>6. Die(d, "assert") \/ (d' = d /\ SetTop(g))
  BY <1>2, <1>5 DEF ExecuteInitFuncs
<1>7. CASE Die(d, "assert")
  BY <1>1, <1>7, WentSelf, DieInv
<1>8. CASE d' = d /\ SetTop(g)
  <2>1. /\ Moved(Top, g, Turning) /\ g.ph = "sort" /\ g.start = fr.start /\ g.at = fr.start
        /\ g.k = 1 /\ g.dir = fr.dir /\ g.run = fr.run /\ g.slot = fr.slot
    BY <1>2, <1>4, <1>5, TurnsAre
  <2>2. AtOk(world, d, g) /\ Passive(g) /\ Passive(Top)
    BY <1>1, <1>4, <2>1 DEF AtOk, Before, Passive
  <2> QED BY <1>1, <1>8, <2>1, <2>2, PassiveTurn
<1> QED BY <1>6, <1>7, <1>8

(* dyld_find_object_by_name *)
LEMMA FindIs ==
  ASSUME NEW dd, NEW n, NEW j, IsSeq(dd.objs), j = FindObjectByName(dd, n)
  PROVE  j = 0 \/ j = Unset \/ (j \in DOMAIN dd.objs /\ j \in Nat /\ j > 1)
<1>1. PICK hits : hits = {i \in 2..Len(dd.objs) : NameOf(dd, dd.objs[i]) \in {n, Stale}}
  OBVIOUS
<1>2. PICK x : x = First(hits)
  OBVIOUS
<1>3. DOMAIN dd.objs = 1..Len(dd.objs) /\ Len(dd.objs) \in Nat
  BY SeqLen
<1>4. j = IF hits = {} THEN 0 ELSE IF NameOf(dd, dd.objs[x]) = Stale THEN Unset ELSE x
  BY <1>1, <1>2 DEF FindObjectByName, First
<1>5. hits # {} => x \in DOMAIN dd.objs /\ x \in Nat /\ x > 1
  <2> HAVE hits # {}
  <2>1. hits \in SUBSET Nat
    BY <1>1, <1>3
  <2>2. x \in hits
    BY <1>2, <2>1, FirstIs
  <2>3. x \in 2..Len(dd.objs)
    BY <1>1, <2>2
  <2> QED BY <1>3, <2>3
<1> QED BY <1>4, <1>5

\* The part of a frame that tsort_visit works on
Sorted(dd, c) ==
    /\ IsSeq(c.list) /\ Range(c.list) \subseteq DOMAIN dd.objs
    /\ IsSeq(c.path) /\ \A n \in Range(c.path) : NodeOk(dd, n)

(* A passive load goes on with another list, path or code. *)
LEMMA PassiveStep ==
  ASSUME Loads, Passive(Top), NEW e, Went(world, d, e), DOMAIN e.objs = DOMAIN d.objs,
         Len(e.objs) = Len(d.objs),
         NEW g, Passive(g), DOMAIN g = FrameFields, AtOk(world, d, g), Sorted(d, g),
         g.entered \subseteq DOMAIN d.objs,
         d' = e, SetTop(g), world' = world
  PROVE  Inv'
<1>1. GotsAt(e, g)
  BY PassiveGots
<1>2. AtOk(world, e, g)
  BY DEF AtOk
<1>3. FrameOk(world, e, g)
  BY <1>2 DEF FrameOk, Sorted, NodeOk
<1>4. Entered(e, g)
  <2>1. \A x \in DOMAIN d.objs : Settled(e, x)
    BY SettledBelow DEF Passive
  <2> QED BY <2>1 DEF Entered, Settled
<1> QED BY <1>1, <1>3, <1>4, StepInv DEF Going

(* One more element on the path, or in the list. *)
LEMMA RangeAppend ==
  ASSUME NEW s, NEW x, NEW t, IsSeq(s), t = Plus(s, x)
  PROVE  IsSeq(t) /\ \A y \in Range(t) : y \in Range(s) \/ y = x
<1>1. /\ IsSeq(t) /\ \A i \in DOMAIN s : i \in DOMAIN t /\ t[i] = s[i]
      /\ t[Len(t)] = x /\ \A i \in DOMAIN t : i \in DOMAIN s \/ i = Len(t)
  BY PlusIs
<1> QED BY <1>1 DEF Range

(* The last element of the path. *)
LEMMA LastIs ==
  ASSUME NEW s, IsSeq(s), s # <<>>
  PROVE  Last(s) \in Range(s) /\ Len(s) \in DOMAIN s /\ Last(s) = s[Len(s)]
<1>1. Len(s) \in Nat /\ DOMAIN s = 1..Len(s) /\ Len(s) # 0
  BY SeqLen
<1> QED BY <1>1 DEF Last, Range

(* tsort_visit marks an object that is not visited yet. *)
LEMMA WentVisit ==
  ASSUME Loads, NEW x \in DOMAIN d.objs, NEW e, e = Mark(d, x)
  PROVE  Went(world, d, e) /\ DOMAIN e.objs = DOMAIN d.objs /\ Len(e.objs) = Len(d.objs)
<1>1. DInv(world, d)
  BY LoadsIs
<1>2. DInv(world, e) /\ Only(d, e, {"objs"}) /\ e.objs = Put(d.objs, x, Visited(d.objs[x]))
  BY <1>1, VisitInv
<1>3. PICK p : p = Visited(d.objs[x])
  OBVIOUS
<1>4. DOMAIN d.objs[x] = ObjFields
  BY <1>1 DEF DInv, Shape, ObjOk
<1>5. p.got = d.objs[x].got
  BY <1>3, <1>4 DEF Visited, ObjFields
<1>6. /\ DInv(world, e) /\ Only(d, e, {"table", "objs"}) /\ e.objs = Put(d.objs, x, p)
      /\ (Linked(d.objs[x]) => Linked(p))
  BY <1>2, <1>3, <1>5 DEF Only, Linked
<1>7. Loads /\ x \in DOMAIN d.objs
  OBVIOUS
<1> QED BY ONLY <1>6, <1>7, WentPut

\* A visit in a turn of the sort: g is the frame when there is nothing to do.
VisitFrom(g, i) ==
    IF d.objs[i].visited THEN d' = d /\ SetTop(g)
    ELSE d' = [d EXCEPT !.objs[i].visited = TRUE] /\ SetTop(TsortEnter(g, i))

(* A visit marks an object, and no more. *)
LEMMA VisitFromInv ==
  ASSUME Loads, Passive(Top), NEW g, Passive(g), DOMAIN g = FrameFields, AtOk(world, d, g),
         Sorted(d, g), g.entered \subseteq DOMAIN d.objs, NEW i \in DOMAIN d.objs,
         VisitFrom(g, i), world' = world
  PROVE  Inv'
<1>1. CASE d.objs[i].visited
  <2>1. d' = d /\ SetTop(g)
    BY <1>1 DEF VisitFrom
  <2> QED BY <2>1, WentSelf, PassiveStep
<1>2. CASE ~d.objs[i].visited
  <2>1. PICK e : e = Mark(d, i)
    OBVIOUS
  <2>2. PICK h : h = TsortEnter(g, i)
    OBVIOUS
  <2>3. d' = e /\ SetTop(h)
    BY <1>2, <2>1, <2>2 DEF VisitFrom, Mark
  <2>4. Went(world, d, e) /\ DOMAIN e.objs = DOMAIN d.objs /\ Len(e.objs) = Len(d.objs)
    BY <2>1, WentVisit
  <2>5. PICK n : n = Node(i)
    OBVIOUS
  <2>6. NodeOk(d, n)
    BY <2>5 DEF Node, NodeOk
  <2>7. /\ DOMAIN h = FrameFields /\ h.path = Plus(g.path, n)
        /\ \A y \in FrameFields \ {"path"} : h[y] = g[y]
    BY <2>2, <2>5 DEF TsortEnter, Plus, FrameFields
  <2>8. /\ h.ph = g.ph /\ h.start = g.start /\ h.at = g.at /\ h.k = g.k /\ h.dir = g.dir
        /\ h.run = g.run /\ h.slot = g.slot /\ h.name = g.name /\ h.list = g.list
        /\ h.entered = g.entered
    BY <2>7 DEF FrameFields
  <2>9. AtOk(world, d, h) /\ Passive(h)
    BY <2>8 DEF AtOk, Passive
  <2>10. Sorted(d, h)
    <3>1. PICK q : q = h.path
      OBVIOUS
    <3>2. IsSeq(g.path) /\ q = Plus(g.path, n)
      BY <2>7, <3>1 DEF Sorted
    <3>3. IsSeq(q) /\ \A y \in Range(q) : y \in Range(g.path) \/ y = n
      BY ONLY <3>2, RangeAppend
    <3> QED BY <2>6, <2>8, <3>1, <3>3 DEF Sorted
  <2> QED BY <2>3, <2>4, <2>7, <2>8, <2>9, <2>10, PassiveStep
<1> QED BY <1>1, <1>2

(* One turn of the sort *)
LEMMA TsortInv ==
  ASSUME Inv, Tsort
  PROVE  Inv'
<1>1. Loads /\ Top.ph = "sort" /\ ~Top.run /\ world' = world
  BY InLoads DEF Tsort
<1>2. PICK fr : fr = Top
  OBVIOUS
<1>3. /\ FrameOk(world, d, fr) /\ DInv(world, d) /\ IsSeq(d.objs)
      /\ DOMAIN d.objs = 1..Len(d.objs) /\ Len(d.objs) \in Nat \ {0}
  BY <1>1, <1>2, LoadsIs
<1>4. /\ DOMAIN fr = FrameFields /\ AtOk(world, d, fr) /\ fr.ph = "sort" /\ ~fr.run
      /\ fr.start \in Nat \ {0} /\ fr.at \in Nat \ {0} /\ Sorted(d, fr)
      /\ fr.entered \subseteq DOMAIN d.objs
  BY <1>1, <1>2, <1>3 DEF FrameOk, AtOk, Sorted
<1>5. PICK top : top = Last(fr.path)
  OBVIOUS
<1>6. PICK needs : needs = d.objs[top.obj].file.needs
  OBVIOUS
<1>7. PICK j : j = FindObjectByName(d, needs[top.k])
  OBVIOUS
<1>8. PICK next : next = [fr EXCEPT !.path[Len(fr.path)].k = @ + 1]
  OBVIOUS
<1>9. Passive(Top) /\ Passive(fr)
  BY <1>1, <1>4 DEF Passive
<1>10. CASE fr.path = <<>> /\ fr.at > Len(d.objs)
  <2>1. PICK g : g = [fr EXCEPT !.ph = "reloc", !.at = 1]
    OBVIOUS
  <2>2. d' = d /\ SetTop(g)
    <3>1. fr.path = <<>> /\ ~(fr.at <= Len(d.objs)) /\ fr.at > Len(d.objs)
      BY <1>3, <1>4, <1>10
    <3> QED BY <1>2, <2>1, <3>1 DEF Tsort
  <2>3. DOMAIN g = FrameFields /\ g.ph = "reloc" /\ g.at = 1 /\ \A y \in FrameFields \ {"ph", "at"} : g[y] = fr[y]
    BY <1>4, <2>1 DEF FrameFields
  <2>4. Moved(Top, g, Turning)
    BY <1>2, <1>4, <2>3 DEF Moved, Turning
  <2>5. /\ g.start = fr.start /\ g.k = fr.k /\ g.dir = fr.dir /\ g.run = fr.run /\ g.slot = fr.slot
    BY <2>3 DEF FrameFields
  <2>6. AtOk(world, d, g) /\ Passive(g)
    BY <1>4, <2>3, <2>5 DEF AtOk, Passive, Before
  <2> QED BY <1>1, <1>9, <2>2, <2>4, <2>6, PassiveTurn
<1>11. CASE fr.path = <<>> /\ fr.at <= Len(d.objs)
  <2>1. PICK g : g = [fr EXCEPT !.at = @ + 1]
    OBVIOUS
  <2>2. VisitFrom(g, fr.at)
    BY <1>2, <1>3, <1>4, <1>11, <2>1 DEF Tsort, VisitFrom
  <2>3. DOMAIN g = FrameFields /\ g.at = fr.at + 1 /\ \A y \in FrameFields \ {"at"} : g[y] = fr[y]
    BY <1>4, <2>1 DEF FrameFields
  <2>4. /\ g.start = fr.start /\ g.k = fr.k /\ g.dir = fr.dir /\ g.run = fr.run /\ g.slot = fr.slot
        /\ g.ph = fr.ph /\ g.list = fr.list /\ g.path = fr.path /\ g.entered = fr.entered
    BY <2>3 DEF FrameFields
  <2>5. AtOk(world, d, g) /\ Passive(g) /\ Sorted(d, g)
    BY <1>4, <2>3, <2>4 DEF AtOk, Passive, Sorted
  <2>6. fr.at \in DOMAIN d.objs
    BY <1>3, <1>4, <1>11
  <2> QED BY <1>1, <1>4, <1>9, <2>2, <2>3, <2>4, <2>5, <2>6, VisitFromInv
<1>12. CASE fr.path # <<>>
  <2>1. IsSeq(fr.path) /\ \A n \in Range(fr.path) : NodeOk(d, n)
    BY <1>4 DEF Sorted
  <2>2. top \in Range(fr.path) /\ Len(fr.path) \in DOMAIN fr.path /\ top = fr.path[Len(fr.path)]
    BY <1>5, <1>12, <2>1, LastIs
  <2>3. top.obj \in DOMAIN d.objs /\ top.k \in Nat \ {0} /\ DOMAIN top = {"obj", "k"}
    BY <2>1, <2>2 DEF NodeOk
  <2>4. PICK leave : leave = TsortLeave(fr)
    OBVIOUS
  <2>5. \/ d' = d /\ SetTop(leave)
        \/ j > 0 /\ VisitFrom(next, j)
        \/ Die(d, "assert")
        \/ Die(d, "stale")
    BY <1>2, <1>5, <1>6, <1>7, <1>8, <1>12, <2>4 DEF Tsort, VisitFrom
  <2>6. CASE d' = d /\ SetTop(leave)
    <3>1. /\ DOMAIN leave = FrameFields /\ leave.path = Front(fr.path)
          /\ leave.list = Plus(fr.list, top.obj)
          /\ \A y \in FrameFields \ {"path", "list"} : leave[y] = fr[y]
      BY <1>4, <1>5, <2>4 DEF TsortLeave, Plus, FrameFields
    <3>2. /\ leave.ph = fr.ph /\ leave.start = fr.start /\ leave.at = fr.at /\ leave.k = fr.k
          /\ leave.dir = fr.dir /\ leave.run = fr.run /\ leave.slot = fr.slot
          /\ leave.entered = fr.entered
      BY <3>1 DEF FrameFields
    <3>3. AtOk(world, d, leave) /\ Passive(leave)
      BY <1>4, <3>2 DEF AtOk, Passive
    <3>4. IsSeq(leave.list) /\ Range(leave.list) \subseteq DOMAIN d.objs
      <4>1. PICK t : t = leave.list
        OBVIOUS
      <4>2. PICK x : x = top.obj
        OBVIOUS
      <4>3. IsSeq(fr.list) /\ t = Plus(fr.list, x)
        BY <1>4, <3>1, <4>1, <4>2 DEF Sorted
      <4>4. IsSeq(t) /\ \A y \in Range(t) : y \in Range(fr.list) \/ y = x
        BY ONLY <4>3, RangeAppend
      <4> QED BY <1>4, <2>3, <4>1, <4>2, <4>4 DEF Sorted
    <3>5. IsSeq(leave.path) /\ \A n \in Range(leave.path) : n \in Range(fr.path)
      <4>1. PICK q : q = leave.path
        OBVIOUS
      <4>2. /\ IsSeq(q) /\ DOMAIN q = 1..(Len(fr.path) - 1)
            /\ \A i \in 1..(Len(fr.path) - 1) : q[i] = fr.path[i] /\ i \in DOMAIN fr.path
        BY <1>12, <2>1, <3>1, <4>1, SeqFront
      <4> QED BY <4>1, <4>2 DEF Range
    <3>6. Sorted(d, leave)
      BY <2>1, <3>4, <3>5 DEF Sorted
    <3> QED BY <1>1, <1>4, <1>9, <2>6, <3>1, <3>2, <3>3, <3>6, WentSelf, PassiveStep
  <2>7. CASE j > 0 /\ VisitFrom(next, j)
    <3>1. j \in DOMAIN d.objs
      <4>1. j = 0 \/ j = Unset \/ (j \in DOMAIN d.objs /\ j \in Nat /\ j > 1)
        <5>1. PICK n : n = needs[top.k]
          OBVIOUS
        <5>2. IsSeq(d.objs) /\ j = FindObjectByName(d, n)
          BY <1>3, <1>7, <5>1
        <5> QED BY ONLY <5>2, FindIs
      <4> QED BY <2>7, <4>1 DEF Unset
    <3>2. /\ DOMAIN next = FrameFields /\ \A y \in FrameFields \ {"path"} : next[y] = fr[y]
          /\ next.path = [fr.path EXCEPT ![Len(fr.path)].k = @ + 1]
      BY <1>4, <1>8 DEF FrameFields
    <3>3. /\ next.ph = fr.ph /\ next.start = fr.start /\ next.at = fr.at /\ next.k = fr.k
          /\ next.dir = fr.dir /\ next.run = fr.run /\ next.slot = fr.slot
          /\ next.entered = fr.entered /\ next.list = fr.list
      BY <3>2 DEF FrameFields
    <3>4. AtOk(world, d, next) /\ Passive(next)
      BY <1>4, <3>3 DEF AtOk, Passive
    <3>5. PICK n : n = [top EXCEPT !.k = @ + 1]
      OBVIOUS
    <3>6. PICK q : q = Put(fr.path, Len(fr.path), n)
      OBVIOUS
    <3>7. next.path = q
      BY <2>2, <3>2, <3>5, <3>6 DEF Put
    <3>8. NodeOk(d, n)
      BY <2>3, <3>5 DEF NodeOk
    <3>9. /\ IsSeq(q) /\ DOMAIN q = DOMAIN fr.path /\ q[Len(fr.path)] = n
          /\ \A i \in DOMAIN fr.path : i # Len(fr.path) => q[i] = fr.path[i]
      BY <2>1, <2>2, <3>6, SeqExcept
    <3>10. \A m \in Range(q) : m = n \/ m \in Range(fr.path)
      BY <3>9 DEF Range
    <3>11. Sorted(d, next)
      BY <1>4, <2>1, <3>3, <3>7, <3>8, <3>9, <3>10 DEF Sorted
    <3> QED BY <1>1, <1>4, <1>9, <2>7, <3>1, <3>2, <3>3, <3>4, <3>11, VisitFromInv
  <2>8. CASE Die(d, "assert") \/ Die(d, "stale")
    BY <1>1, <2>8, WentSelf, DieInv
  <2> QED BY <2>5, <2>6, <2>7, <2>8
<1> QED BY <1>3, <1>4, <1>10, <1>11, <1>12

(* __wasm_apply_data_relocs *)
LEMMA ExecuteRelocInv ==
  ASSUME Inv, ExecuteReloc
  PROVE  Inv'
<1>1. Loads /\ Top.ph = "reloc" /\ ~Top.run /\ world' = world
  BY InLoads DEF ExecuteReloc
<1>2. FrameOk(world, d, Top) /\ Passive(Top)
  BY <1>1, LoadsIs DEF Passive
<1>3. DOMAIN Top = FrameFields /\ AtOk(world, d, Top) /\ Top.at \in Nat \ {0}
  BY <1>2 DEF FrameOk, AtOk
<1>4. PICK g : g = [Top EXCEPT !.ph = "ctor", !.at = 1]
  OBVIOUS
<1>5. PICK h : h = [Top EXCEPT !.at = @ + 1]
  OBVIOUS
<1>6. PICK err : err = IF d.objs[Top.list[Top.at]].file.reloc = "bad" THEN "EINVAL" ELSE "ok"
  OBVIOUS
<1>7. PICK r : r = Result(d, 0, err)
  OBVIOUS
<1>8. (d' = d /\ SetTop(g)) \/ Outcome(r, h)
  BY <1>4, <1>5, <1>6, <1>7 DEF ExecuteReloc
<1>9. CASE d' = d /\ SetTop(g)
  <2>1. DOMAIN g = FrameFields /\ g.ph = "ctor" /\ g.at = 1
        /\ \A y \in FrameFields \ {"ph", "at"} : g[y] = Top[y]
    BY <1>3, <1>4 DEF FrameFields
  <2>2. Moved(Top, g, Turning)
    BY <1>3, <2>1 DEF Moved, Turning
  <2>3. g.start = Top.start /\ g.k = Top.k /\ g.dir = Top.dir /\ g.run = Top.run /\ g.slot = Top.slot
    BY <2>1 DEF FrameFields
  <2>4. AtOk(world, d, g) /\ Passive(g)
    BY <1>1, <1>3, <2>1, <2>3 DEF AtOk, Passive
  <2> QED BY <1>1, <1>2, <1>9, <2>2, <2>4, PassiveTurn
<1>10. CASE Outcome(r, h)
  <2>1. DOMAIN h = FrameFields /\ h.at = Top.at + 1
        /\ \A y \in FrameFields \ {"at"} : h[y] = Top[y]
    BY <1>3, <1>5 DEF FrameFields
  <2>2. Moved(Top, h, Turning)
    BY <1>3, <2>1 DEF Moved, Turning
  <2>3. /\ h.start = Top.start /\ h.k = Top.k /\ h.dir = Top.dir /\ h.run = Top.run
        /\ h.slot = Top.slot /\ h.ph = Top.ph
    BY <2>1 DEF FrameFields
  <2>4. AtOk(world, d, h) /\ Passive(h)
    BY <1>1, <1>3, <2>1, <2>3 DEF AtOk, Passive
  <2>5. r.d = d
    BY <1>7 DEF Result
  <2>6. Went(world, d, r.d) /\ DOMAIN r.d.objs = DOMAIN d.objs /\ Len(r.d.objs) = Len(d.objs)
    BY <1>1, <2>5, WentSelf
  <2> QED BY <1>1, <1>2, <1>10, <2>2, <2>4, <2>6, PassiveInv
<1> QED BY <1>8, <1>9, <1>10

\* What the code that runs enters, or leaves, and whether it runs at all
RunFields == {"ph", "at", "run", "entered"}

(* A passive load goes on in the code it runs. *)
LEMMA PassiveGoing ==
  ASSUME Loads, Passive(Top), NEW e, Went(world, d, e), DOMAIN e.objs = DOMAIN d.objs,
         Len(e.objs) = Len(d.objs),
         NEW g, Passive(g), Moved(Top, g, RunFields), AtOk(world, d, g),
         g.entered \subseteq DOMAIN d.objs
  PROVE  Going(world, e, g)
<1>1. GotsAt(e, g)
  BY PassiveGots
<1>2. AtOk(world, e, g)
  BY DEF AtOk
<1>3. g.list = Top.list /\ g.path = Top.path /\ DOMAIN g = FrameFields
  BY DEF Moved, RunFields, FrameFields
<1>4. FrameOk(world, d, Top)
  BY LoadsIs
<1>5. FrameOk(world, e, g)
  BY <1>2, <1>3, <1>4 DEF FrameOk, NodeOk
<1>6. Entered(e, g)
  <2>1. \A x \in DOMAIN d.objs : Settled(e, x)
    BY SettledBelow DEF Passive
  <2> QED BY <2>1 DEF Entered, Settled
<1> QED BY <1>1, <1>5, <1>6 DEF Going

(* _initialize or __wasm_call_ctors *)
LEMMA ExecuteCtorInv ==
  ASSUME Inv, ExecuteCtor
  PROVE  Inv'
<1>1. Loads /\ Top.ph = "ctor" /\ ~Top.run /\ world' = world /\ Top.at <= Len(Top.list) /\ d' = d
  BY InLoads DEF ExecuteCtor
<1>2. FrameOk(world, d, Top) /\ Passive(Top)
  BY <1>1, LoadsIs DEF Passive
<1>3. DOMAIN Top = FrameFields /\ AtOk(world, d, Top) /\ Top.at \in Nat \ {0}
      /\ IsSeq(Top.list) /\ Range(Top.list) \subseteq DOMAIN d.objs
      /\ Top.entered \subseteq DOMAIN d.objs
  BY <1>2 DEF FrameOk, AtOk
<1>4. PICK i : i = Top.list[Top.at]
  OBVIOUS
<1>5. i \in DOMAIN d.objs
  <2>1. DOMAIN Top.list = 1..Len(Top.list) /\ Len(Top.list) \in Nat
    BY <1>3, SeqLen
  <2>2. Top.at \in DOMAIN Top.list
    BY <1>1, <1>3, <2>1
  <2> QED BY <1>3, <1>4, <2>2 DEF Range
<1>6. PICK g : g = [Top EXCEPT !.run = TRUE, !.entered = {i}]
  OBVIOUS
<1>7. PICK h : h = [Top EXCEPT !.at = @ + 1]
  OBVIOUS
<1>8. SetTop(g) \/ SetTop(h)
  BY <1>4, <1>6, <1>7 DEF ExecuteCtor
<1>9. ASSUME NEW c \in {g, h} PROVE Going(world, d, c)
  <2>1. /\ DOMAIN c = FrameFields /\ c.at \in Nat \ {0} /\ c.entered \subseteq DOMAIN d.objs
        /\ c.run \in BOOLEAN
        /\ \A y \in FrameFields \ RunFields : c[y] = Top[y]
        /\ c.ph = "ctor"
    <3>1. Top.run \in BOOLEAN /\ Top.ph = "ctor"
      BY <1>1, <1>3 DEF AtOk
    <3>2. CASE c = g
      <4>1. DOMAIN c = FrameFields /\ c.at = Top.at /\ c.entered = {i} /\ c.run = TRUE /\ c.ph = Top.ph
            /\ \A y \in FrameFields \ RunFields : c[y] = Top[y]
        BY <1>3, <1>6, <3>2 DEF FrameFields, RunFields
      <4> QED BY <1>3, <1>5, <3>1, <4>1
    <3>3. CASE c = h
      <4>1. DOMAIN c = FrameFields /\ c.at = Top.at + 1 /\ c.entered = Top.entered
            /\ c.run = Top.run /\ c.ph = Top.ph
            /\ \A y \in FrameFields \ RunFields : c[y] = Top[y]
        BY <1>3, <1>7, <3>3 DEF FrameFields, RunFields
      <4> QED BY <1>3, <3>1, <4>1
    <3> QED BY <1>9, <3>2, <3>3
  <2>2. Moved(Top, c, RunFields)
    BY <1>3, <2>1 DEF Moved
  <2>3. c.start = Top.start /\ c.k = Top.k /\ c.dir = Top.dir /\ c.slot = Top.slot
    BY <2>1 DEF FrameFields, RunFields
  <2>4. AtOk(world, d, c) /\ Passive(c)
    BY <1>1, <1>3, <2>1, <2>3 DEF AtOk, Passive
  <2> QED BY <1>1, <1>2, <2>1, <2>2, <2>4, WentSelf, PassiveGoing
<1> QED BY <1>1, <1>8, <1>9, WentSelf, StepInv

(* The main program starts, or load_object returns. *)
LEMMA LoadEndInv ==
  ASSUME Inv, LoadEnd
  PROVE  Inv'
<1>1. Loads /\ Top.ph = "ctor" /\ ~Top.run /\ world' = world
  BY InLoads DEF LoadEnd
<1>2. FrameOk(world, d, Top) /\ Passive(Top) /\ DInv(world, d) /\ SlotsOk(d) /\ DOMAIN d = DyldFields
      /\ Len(d.objs) \in Nat \ {0} /\ DOMAIN d.objs = 1..Len(d.objs)
  BY <1>1, LoadsIs DEF Passive
<1>3. DOMAIN Top = FrameFields /\ AtOk(world, d, Top) /\ Top.start \in 1..Len(d.objs)
  BY <1>1, <1>2 DEF FrameOk, AtOk
<1>4. PICK g : g = [Top EXCEPT !.ph = "main", !.run = TRUE, !.entered = {1}]
  OBVIOUS
<1>5. PICK e : e = [d EXCEPT !.slots[Top.slot].obj = Top.start, !.lsize = @ + 1,
                             !.handles = @ \cup {<<Top.slot, Top.start>>}]
  OBVIOUS
<1>6. \/ d' = d /\ SetTop(g)
      \/ Die(d, "stale")
      \/ d' = e /\ calls' = Front(calls)
  BY <1>4, <1>5 DEF LoadEnd
<1>7. CASE d' = d /\ SetTop(g)
  <2>1. /\ DOMAIN g = FrameFields /\ g.at = Top.at /\ g.entered = {1} /\ g.ph = "main"
        /\ \A y \in FrameFields \ RunFields : g[y] = Top[y]
    BY <1>3, <1>4 DEF FrameFields, RunFields
  <2>2. Moved(Top, g, RunFields)
    BY <1>3, <2>1 DEF Moved
  <2>3. g.start = Top.start /\ g.k = Top.k /\ g.dir = Top.dir /\ g.slot = Top.slot
    BY <2>1 DEF FrameFields, RunFields
  <2>4. g.run \in BOOLEAN
    BY <1>3, <1>4 DEF FrameFields
  <2>5. AtOk(world, d, g) /\ Passive(g)
    BY <1>1, <1>3, <2>1, <2>3, <2>4 DEF AtOk, Passive
  <2>6. g.entered \subseteq DOMAIN d.objs
    BY <1>2, <2>1
  <2>7. Going(world, d, g)
    BY <1>1, <1>2, <2>2, <2>5, <2>6, WentSelf, PassiveGoing
  <2> QED BY <1>1, <1>7, <2>7, WentSelf, StepInv
<1>8. CASE Die(d, "stale")
  BY <1>1, <1>8, WentSelf, DieInv
<1>9. CASE d' = e /\ calls' = Front(calls)
  <2>1. /\ Only(d, e, OtherFields) /\ e.objs = d.objs /\ e.left = d.left /\ e.status = d.status
        /\ e.fault = d.fault /\ e.lsize = d.lsize + 1
        /\ e.slots = [d.slots EXCEPT ![Top.slot].obj = Top.start]
    BY <1>2, <1>5 DEF Only, OtherFields, DyldFields
  <2>2. DInv(world, e)
    BY <1>2, <2>1, OtherInv
  <2>3. PICK s : s = d.slots
    OBVIOUS
  <2>4. PICK q : q = [s[Top.slot] EXCEPT !.obj = Top.start]
    OBVIOUS
  <2>5. PICK t : t = Put(s, Top.slot, q)
    OBVIOUS
  <2>6. e.slots = t
    BY <2>1, <2>3, <2>4, <2>5 DEF Put
  <2>7. /\ IsSeq(t) /\ DOMAIN t = DOMAIN s
        /\ Top.slot \in DOMAIN s => t[Top.slot] = q
        /\ \A h \in DOMAIN s : h # Top.slot => t[h] = s[h]
    BY <1>2, <2>3, <2>5, SeqExcept DEF SlotsOk
  <2>8. \A h \in DOMAIN t : DOMAIN t[h] = {"data", "obj"} /\ t[h].obj \in 0..Len(d.objs)
    <3> TAKE h \in DOMAIN t
    <3>1. DOMAIN s[h] = {"data", "obj"} /\ s[h].obj \in 0..Len(d.objs)
      BY <1>2, <2>3, <2>7 DEF SlotsOk
    <3>2. CASE h = Top.slot
      <4>1. t[h] = q /\ DOMAIN q = {"data", "obj"} /\ q.obj = Top.start
        BY <2>4, <2>7, <3>1, <3>2
      <4> QED BY <1>2, <1>3, <4>1
    <3>3. CASE h # Top.slot
      BY <2>7, <3>1, <3>3
    <3> QED BY <3>2, <3>3
  <2>9. SlotsOk(e)
    BY <1>2, <2>1, <2>6, <2>7, <2>8 DEF SlotsOk
  <2>10. Len(d.objs) <= Len(e.objs)
    BY <1>2, <2>1
  <2>11. Went(world, d, e)
    BY <2>1, <2>2, <2>9, <2>10 DEF Went
  <2>12. \A x \in DOMAIN e.objs : Settled(e, x)
    <3>1. \A x \in DOMAIN d.objs : Settled(e, x)
      BY <1>1, <1>2, <2>11, SettledBelow DEF Passive
    <3> QED BY <2>1, <3>1
  <2> QED BY <1>1, <1>9, <2>11, <2>12, PopInv
<1> QED BY <1>6, <1>7, <1>8, <1>9

(* The innermost load stays where it is. *)
LEMMA StayInv ==
  ASSUME Loads, NEW e, Went(world, d, e), Going(world, e, Top), d' = e, calls' = calls,
         world' = world
  PROVE  Inv'
<1>1. SetTop(Top)
  <2>1. IsSeq(calls) /\ Len(calls) \in DOMAIN calls /\ Top = calls[Len(calls)]
    BY LoadsIs
  <2>2. calls = [calls EXCEPT ![Len(calls)] = Top]
    BY <2>1 DEF IsSeq
  <2> QED BY <2>2 DEF SetTop
<1> QED BY <1>1, StepInv

(* The code of a load in progress runs. *)
LEMMA RunsIs ==
  ASSUME Inv, Running
  PROVE  /\ Loads /\ Top.run /\ Top.ph \in {"ctor", "main"} /\ Passive(Top)
         /\ FrameOk(world, d, Top) /\ AtOk(world, d, Top) /\ DOMAIN Top = FrameFields
         /\ Top.entered \subseteq DOMAIN d.objs /\ DInv(world, d) /\ SlotsOk(d)
         /\ DOMAIN d = DyldFields /\ Len(d.objs) \in Nat \ {0}
         /\ DOMAIN d.objs = 1..Len(d.objs) /\ Top.at \in Nat \ {0}
<1>1. Loads /\ Top.run
  BY DEF Running, Loads
<1>2. FrameOk(world, d, Top) /\ DInv(world, d) /\ SlotsOk(d) /\ DOMAIN d = DyldFields
      /\ Len(d.objs) \in Nat \ {0} /\ DOMAIN d.objs = 1..Len(d.objs)
  BY <1>1, LoadsIs
<1> QED BY <1>1, <1>2 DEF FrameOk, AtOk, Passive

(* The code enters other objects, or none. *)
LEMMA EnterGoing ==
  ASSUME Inv, Running, NEW e, Went(world, d, e), DOMAIN e.objs = DOMAIN d.objs,
         Len(e.objs) = Len(d.objs), NEW S, S \subseteq DOMAIN d.objs,
         NEW g, g = [Top EXCEPT !.entered = S]
  PROVE  Going(world, e, g)
<1>1. /\ Loads /\ Top.run /\ Top.ph \in {"ctor", "main"} /\ Passive(Top)
      /\ AtOk(world, d, Top) /\ DOMAIN Top = FrameFields
  BY RunsIs
<1>2. DOMAIN g = FrameFields /\ g.entered = S /\ \A y \in FrameFields \ {"entered"} : g[y] = Top[y]
  BY <1>1 DEF FrameFields
<1>3. Moved(Top, g, RunFields)
  BY <1>1, <1>2 DEF Moved, RunFields
<1>4. /\ g.start = Top.start /\ g.at = Top.at /\ g.k = Top.k /\ g.dir = Top.dir
      /\ g.slot = Top.slot /\ g.run = Top.run /\ g.ph = Top.ph /\ g.name = Top.name
  BY <1>2 DEF FrameFields
<1>5. AtOk(world, d, g) /\ Passive(g)
  BY <1>1, <1>4 DEF AtOk, Passive
<1> QED BY <1>1, <1>2, <1>3, <1>5, PassiveGoing

(* The code returns to the linker. *)
LEMMA ReturnFromCodeInv ==
  ASSUME Inv, ReturnFromCode
  PROVE  Inv'
<1>1. Running /\ world' = world
  BY DEF ReturnFromCode
<1>2. /\ Loads /\ Top.run /\ Top.ph \in {"ctor", "main"} /\ Passive(Top)
      /\ AtOk(world, d, Top) /\ DOMAIN Top = FrameFields /\ Top.at \in Nat \ {0}
      /\ DInv(world, d) /\ DOMAIN d.objs = 1..Len(d.objs)
  BY <1>1, RunsIs
<1>3. CASE Top.ph = "main"
  <2>1. DyldClear(d, "done") /\ WorldOk(world)
    BY <1>3 DEF ReturnFromCode, Inv
  <2> QED BY <1>1, <1>2, <2>1, ClearInv
<1>4. CASE Top.ph # "main"
  <2>1. PICK g : g = [Top EXCEPT !.run = FALSE, !.entered = {}, !.at = @ + 1]
    OBVIOUS
  <2>2. d' = d /\ SetTop(g)
    BY <1>4, <2>1 DEF ReturnFromCode
  <2>3. /\ DOMAIN g = FrameFields /\ g.at = Top.at + 1 /\ g.entered = {}
        /\ \A y \in FrameFields \ RunFields : g[y] = Top[y]
    BY <1>2, <2>1 DEF FrameFields, RunFields
  <2>4. g.ph = Top.ph /\ g.start = Top.start /\ g.k = Top.k /\ g.dir = Top.dir /\ g.slot = Top.slot
    BY <1>2, <2>1 DEF FrameFields
  <2>5. g.run = FALSE
    BY <1>2, <2>1 DEF FrameFields
  <2>6. g.run \in BOOLEAN /\ ~g.run
    BY <2>5
  <2>7. Moved(Top, g, RunFields)
    BY <1>2, <2>3 DEF Moved
  <2>8. AtOk(world, d, g) /\ Passive(g)
    BY <1>2, <2>3, <2>4, <2>6 DEF AtOk, Passive
  <2>9. Went(world, d, d) /\ g.entered \subseteq DOMAIN d.objs
    BY <1>2, <2>3, WentSelf
  <2>10. Going(world, d, g)
    BY <1>2, <2>7, <2>8, <2>9, PassiveGoing
  <2> QED BY <1>1, <1>2, <2>2, <2>9, <2>10, StepInv
<1> QED BY <1>3, <1>4

(* dyld_plt *)
LEMMA CallPltInv ==
  ASSUME Inv, CallPlt
  PROVE  Inv'
<1>1. Running /\ world' = world
  BY DEF CallPlt, ProgramStep
<1>2. /\ Loads /\ Top.entered \subseteq DOMAIN d.objs /\ DInv(world, d) /\ DOMAIN d.objs = 1..Len(d.objs)
      /\ DOMAIN Top = FrameFields
  BY <1>1, RunsIs
<1>30. PICK o \in Top.entered : \E i \in DOMAIN d.objs[o].plt :
         \E r \in {IF d.objs[o].plt[i] # Null THEN Result(d, 0, "ok")
                  ELSE ResolvePlt(d, o, i)} :
           LET to == CHOOSE j \in DOMAIN r.d.objs :
                       r.d.objs[j].id = r.d.objs[o].plt[i].o
           IN  Outcome(r, [Top EXCEPT !.entered = @ \cup {to}])
  BY DEF CallPlt
<1>3. PICK i \in DOMAIN d.objs[o].plt :
         \E r \in {IF d.objs[o].plt[i] # Null THEN Result(d, 0, "ok")
                  ELSE ResolvePlt(d, o, i)} :
           LET to == CHOOSE j \in DOMAIN r.d.objs :
                       r.d.objs[j].id = r.d.objs[o].plt[i].o
           IN  Outcome(r, [Top EXCEPT !.entered = @ \cup {to}])
  BY <1>30
<1>4. PICK r : /\ r = IF d.objs[o].plt[i] # Null THEN Result(d, 0, "ok") ELSE ResolvePlt(d, o, i)
               /\ LET to == CHOOSE j \in DOMAIN r.d.objs :
                           r.d.objs[j].id = r.d.objs[o].plt[i].o
                  IN  Outcome(r, [Top EXCEPT !.entered = @ \cup {to}])
  BY <1>3
<1>5. PICK to : to = CHOOSE j \in DOMAIN r.d.objs : r.d.objs[j].id = r.d.objs[o].plt[i].o
  OBVIOUS
<1>6. PICK S : S = Top.entered \cup {to}
  OBVIOUS
<1>7. PICK g : g = [Top EXCEPT !.entered = S]
  OBVIOUS
<1>8. Outcome(r, g)
  <2>1. g = [Top EXCEPT !.entered = @ \cup {to}]
    BY <1>6, <1>7
  <2> QED BY <1>4, <1>5, <2>1
<1>9. o \in DOMAIN d.objs
  BY <1>2
<1>10. /\ Went(world, d, r.d) /\ DInv(world, r.d)
       /\ DOMAIN r.d.objs = DOMAIN d.objs /\ Len(r.d.objs) = Len(d.objs)
       /\ r.err = "ok" => r.d.objs[o].plt[i] # Null /\ i \in DOMAIN r.d.objs[o].plt
  <2>1. CASE d.objs[o].plt[i] # Null
    <3>1. r = Result(d, 0, "ok")
      BY <1>4, <2>1
    <3>2. r.d = d
      BY <3>1 DEF Result
    <3> QED BY <1>2, <1>3, <2>1, <3>2, WentSelf
  <2>2. CASE d.objs[o].plt[i] = Null
    <3>1. r = ResolvePlt(d, o, i)
      BY <1>4, <2>2
    <3> QED BY <1>2, <1>3, <1>9, <3>1, WentPlt
  <2> QED BY <2>1, <2>2
<1>11. r.err = "ok" => S \subseteq DOMAIN d.objs
  <2> HAVE r.err = "ok"
  <2>1. PICK q : q = r.d.objs[o]
    OBVIOUS
  <2>2. PltIsFor(r.d, q, i)
    BY <1>9, <1>10, <2>1 DEF DInv, Bindings
  <2>3. PICK sym : sym = q.file.imports[i].sym
    OBVIOUS
  <2>4. PICK D : D = Definers(r.d, "func", sym)
    OBVIOUS
  <2>5. PICK x : x = First(D)
    OBVIOUS
  <2>6. D # {} /\ q.plt[i] = Func(r.d.objs[x], ExportOf(r.d.objs[x].file, "func", sym))
    BY <2>2, <2>3, <2>4, <2>5 DEF PltIsFor, FirstDefiner, First
  <2>7. D \in SUBSET Nat /\ D \subseteq DOMAIN r.d.objs
    BY <1>2, <1>10, <2>4 DEF Definers
  <2>8. x \in DOMAIN r.d.objs
    BY <2>5, <2>6, <2>7, FirstIs
  <2>9. r.d.objs[x].id = r.d.objs[o].plt[i].o
    BY <2>1, <2>6 DEF Func
  <2>10. to \in DOMAIN r.d.objs
    BY <1>5, <2>8, <2>9
  <2> QED BY <1>2, <1>6, <1>10, <2>10
<1>12. r.err = "ok" => Going(world, r.d, g)
  BY <1>1, <1>7, <1>10, <1>11, EnterGoing
<1> QED BY <1>1, <1>2, <1>8, <1>10, <1>12, OutcomeInv

(* memory.grow by the program *)
LEMMA MemoryGrowInv ==
  ASSUME Inv, MemoryGrow
  PROVE  Inv'
<1>1. Running /\ world' = world /\ calls' = calls
  BY DEF MemoryGrow, ProgramStep
<1>2. Loads /\ DInv(world, d) /\ DOMAIN Top = FrameFields /\ Top.entered \subseteq DOMAIN d.objs
  BY <1>1, RunsIs
<1>3. PICK e : e = [d EXCEPT !.pages = @ + 1, !.grown = @ \cup {d.pages}]
  OBVIOUS
<1>4. d' = e
  BY <1>3 DEF MemoryGrow
<1>5. DInv(world, e) /\ Only(d, e, {"pages", "grown"})
  BY <1>2, <1>3, GrowInv
<1>6. Only(d, e, PlaceFields)
  BY <1>5 DEF Only, PlaceFields
<1>7. Went(world, d, e) /\ e.objs = d.objs
  BY <1>2, <1>5, <1>6, WentPlaces
<1>8. Loads /\ FrameOk(world, d, Top) /\ Entered(d, Top) /\ IsSeq(d.objs) /\ Top.run /\ Passive(Top)
  BY <1>1, RunsIs, LoadsIs
<1>9. FrameOk(world, e, Top) /\ Entered(e, Top)
  BY <1>7, <1>8, FramesStay, EnteredStays
<1>10. GotsAt(e, Top)
  BY <1>7, <1>8, PassiveGots
<1> QED BY <1>1, <1>2, <1>4, <1>7, <1>9, <1>10, StayInv DEF Going

(* dyld_dlfcn_resolve_symbol, and a call of the function it gives *)
LEMMA DlResolveSymbolInv ==
  ASSUME Inv, NEW h, h \in Nat \ {0}, NEW k, k \in {"func", "data"}, NEW sym,
         DlResolveSymbol(h, k, sym)
  PROVE  Inv'
<1>1. Running /\ world' = world
  BY DEF DlResolveSymbol, ProgramStep
<1>2. /\ Loads /\ DInv(world, d) /\ DOMAIN Top = FrameFields /\ Top.entered \subseteq DOMAIN d.objs
      /\ SlotsOk(d) /\ DOMAIN d.objs = 1..Len(d.objs) /\ Len(d.objs) \in Nat \ {0}
  BY <1>1, RunsIs
<1>3. PICK x : x = d.slots[h].obj
  OBVIOUS
<1>4. PICK o : o = d.objs[x]
  OBVIOUS
<1>5. PICK r : r = ResolveSymbolInObj(d, o, k, sym)
  OBVIOUS
<1>6. PICK S : S = Top.entered \cup (IF k = "func" THEN {x} ELSE {})
  OBVIOUS
<1>7. PICK g : g = [Top EXCEPT !.entered = S]
  OBVIOUS
<1>8. \/ Die(d, "stale")
      \/ ~(h > Len(d.slots)) /\ x # 0 /\ d' = r.d /\ SetTop(g)
  BY <1>3, <1>4, <1>5, <1>6, <1>7 DEF DlResolveSymbol
<1>9. CASE Die(d, "stale")
  BY <1>1, <1>2, <1>9, WentSelf, DieInv
<1>10. CASE ~(h > Len(d.slots)) /\ x # 0 /\ d' = r.d /\ SetTop(g)
  <2>1. x \in DOMAIN d.objs
    <3>1. IsSeq(d.slots)
      BY <1>2 DEF SlotsOk
    <3>2. DOMAIN d.slots = 1..Len(d.slots) /\ Len(d.slots) \in Nat
      BY <3>1, SeqLen
    <3>3. h \in DOMAIN d.slots
      BY <1>10, <3>2
    <3>4. x \in 0..Len(d.objs)
      BY <1>2, <1>3, <3>3 DEF SlotsOk
    <3> QED BY <1>2, <1>10, <3>4
  <2>2. ResolvedIn(world, d, o, k, sym, r)
    BY <1>2, <1>4, <1>5, <2>1, ResolveInObjIs
  <2>3. DInv(world, r.d) /\ Only(d, r.d, {"table"})
    BY <2>2 DEF ResolvedIn
  <2>4. Only(d, r.d, PlaceFields)
    BY <2>3 DEF Only, PlaceFields
  <2>5. Went(world, d, r.d) /\ r.d.objs = d.objs
    BY <1>2, <2>3, <2>4, WentPlaces
  <2>6. S \subseteq DOMAIN d.objs
    BY <1>2, <1>6, <2>1
  <2>7. Going(world, r.d, g)
    BY <1>1, <1>7, <2>5, <2>6, EnterGoing
  <2> QED BY <1>1, <1>2, <1>10, <2>5, <2>7, StepInv
<1> QED BY <1>8, <1>9, <1>10

(* The code starts a load of its own. *)
LEMMA PushInv ==
  ASSUME Loads, Top.run, NEW e, NEW fr, Went(world, d, e), Going(world, e, fr),
         d' = e, calls' = Plus(calls, fr), world' = world
  PROVE  Inv'
<1>1. PICK s : s = Plus(calls, fr)
  OBVIOUS
<1>2. IsSeq(calls) /\ calls' = s
  BY <1>1, LoadsIs
<1>3. /\ IsSeq(s) /\ Len(s) = Len(calls) + 1 /\ DOMAIN s = 1..(Len(calls) + 1)
      /\ \A x \in DOMAIN calls : x \in DOMAIN s /\ s[x] = calls[x] /\ x < Len(s)
      /\ s[Len(s)] = fr /\ Len(s) \in DOMAIN s
      /\ \A x \in DOMAIN s : x \in DOMAIN calls \/ x = Len(s)
  BY <1>1, <1>2, PlusIs
<1>4. Len(s) \in Nat \ {0}
  BY <1>3, LoadsIs
<1>5. \A x \in DOMAIN calls : calls[x].run
  <2> TAKE x \in DOMAIN calls
  <2>1. x < Len(calls) \/ x = Len(calls)
    BY LoadsIs
  <2>2. Top = calls[Len(calls)] /\ (x < Len(calls) => calls[x].run)
    BY LoadsIs
  <2> QED BY <2>1, <2>2
<1>6. \A x \in DOMAIN s : x < Len(s) => s[x].run
  <2> TAKE x \in DOMAIN s
  <2> HAVE x < Len(s)
  <2>1. x \in DOMAIN calls
    BY <1>3, <1>4
  <2> QED BY <1>3, <1>5, <2>1
<1>7. \A x \in DOMAIN s : FrameOk(world, e, s[x]) /\ Entered(e, s[x])
  <2> TAKE x \in DOMAIN s
  <2>1. CASE x = Len(s)
    BY <1>3, <2>1 DEF Going
  <2>2. CASE x \in DOMAIN calls
    <3>1. FrameOk(world, d, s[x]) /\ Entered(d, s[x]) /\ s[x].run
      BY <1>3, <1>5, <2>2, LoadsIs
    <3>2. IsSeq(d.objs)
      BY LoadsIs
    <3>3. FrameOk(world, e, s[x])
      BY <3>1, <3>2, FramesStay
    <3> QED BY <3>1, <3>3, EnteredStays
  <2> QED BY <1>3, <2>1, <2>2
<1>8. DInv(world, e) /\ SlotsOk(e) /\ e.status = "loading" /\ e.fault = "none" /\ e.objs # <<>>
  <2>1. DInv(world, e) /\ SlotsOk(e) /\ e.status = "loading" /\ e.fault = "none"
        /\ Len(d.objs) <= Len(e.objs)
    BY LoadsIs DEF Went
  <2>2. IsSeq(e.objs)
    BY <2>1 DEF DInv, Shape
  <2> QED BY <2>1, <2>2, SeqLen, LoadsIs
<1>9. CallsOk'
  <2>1. s # <<>>
    BY <1>3, <1>4, SeqLen
  <2> QED BY <1>2, <1>3, <1>6, <1>7, <1>8, <2>1 DEF CallsOk
<1>10. GotState'
  <2>1. s # <<>>
    BY <1>3, <1>4, SeqLen
  <2>2. Top' = fr
    BY <1>2, <1>3 DEF Top, Last
  <2>3. GotsAt(e, fr)
    BY DEF Going
  <2> QED BY <1>2, <2>1, <2>2, <2>3 DEF GotState
<1>11. CodeRunsLinked'
  <2>1. \A c \in Range(s) : Entered(e, c)
    BY <1>7 DEF Range
  <2> QED BY <1>2, <2>1 DEF CodeRunsLinked, Entered
<1> QED BY <1>8, <1>9, <1>10, <1>11, LoadsIs DEF Inv

\* The array of slots, longer or not, with what load_object writes into it
Slot(data) == [data |-> data, obj |-> 0]
Longer(s, g) == s \o [i \in 1..g |-> Slot(0)]

(* The array grows at its end. *)
LEMMA LongerIs ==
  ASSUME NEW s, NEW g \in Nat, NEW t, IsSeq(s), t = Longer(s, g)
  PROVE  /\ IsSeq(t) /\ \A a \in DOMAIN t : (a \in DOMAIN s /\ t[a] = s[a]) \/ t[a] = Slot(0)
<1> DEFINE n == [i \in 1..g |-> Slot(0)]
           T == Range(s) \cup {Slot(0)}
<1>1. s \in Seq(T) /\ n \in Seq(T)
  <2>1. s \in Seq(Range(s))
    BY DEF IsSeq
  <2>2. DOMAIN s = 1..Len(s) /\ Len(s) \in Nat
    BY SeqLen
  <2>3. \A i \in 1..Len(s) : s[i] \in T
    BY <2>2 DEF Range
  <2>4. s \in Seq(T)
    BY <2>1, <2>3
  <2> QED BY <2>4
<1>2. t = s \o n
  BY DEF Longer
<1> HIDE DEF n
<1>3. t \in Seq(T) /\ Len(t) = Len(s) + Len(n)
      /\ \A a \in 1..(Len(s) + Len(n)) : t[a] = IF a <= Len(s) THEN s[a] ELSE n[a - Len(s)]
  BY <1>1, <1>2
<1>4. Len(n) = g /\ \A i \in 1..g : n[i] = Slot(0)
  BY DEF n
<1>5. IsSeq(t)
  BY <1>3, SeqIs
<1>6. Len(s) \in Nat /\ DOMAIN s = 1..Len(s) /\ DOMAIN t = 1..Len(t)
  BY <1>5, SeqLen
<1>7. ASSUME NEW a \in DOMAIN t
      PROVE  (a \in DOMAIN s /\ t[a] = s[a]) \/ t[a] = Slot(0)
  <2>1. CASE a <= Len(s)
    BY <1>3, <1>4, <1>6, <2>1
  <2>2. CASE a > Len(s)
    <3>1. a - Len(s) \in 1..g /\ t[a] = n[a - Len(s)]
      BY <1>3, <1>4, <1>6, <2>2
    <3> QED BY <1>4, <3>1
  <2> QED BY <1>6, <2>1, <2>2
<1> QED BY <1>5, <1>7

(* dyld_dlfcn_load_object, up to the object *)
LEMMA LoadObjectInv ==
  ASSUME Inv, NEW n \in world.open, NEW moved, LoadObject(n, moved)
  PROVE  Inv'
<1>1. Running /\ world' = world
  BY DEF LoadObject, ProgramStep
<1>2. /\ Loads /\ Top.run /\ Passive(Top) /\ DInv(world, d) /\ SlotsOk(d) /\ DOMAIN d = DyldFields
      /\ Len(d.objs) \in Nat \ {0} /\ DOMAIN d.objs = 1..Len(d.objs)
  BY <1>1, RunsIs
<1>3. PICK m : m = d.slots
  OBVIOUS
<1>4. PICK slot : slot = d.lsize + 1
  OBVIOUS
<1>5. PICK data : data = Len(d.data) + 1
  OBVIOUS
<1>6. PICK gen : gen = IF slot > Len(m) /\ moved THEN d.gen + 1 ELSE d.gen
  OBVIOUS
<1>7. PICK u : u = IF slot > Len(m) THEN Longer(m, slot - Len(m)) ELSE m
  OBVIOUS
<1>8. PICK t : t = Put(u, slot, Slot(data))
  OBVIOUS
<1>9. PICK e : e = [d EXCEPT !.slots = t, !.gen = gen, !.data = Append(@, [n |-> n, live |-> TRUE])]
  OBVIOUS
<1>10. PICK fr : fr = Frame("open", Len(d.objs) + 1, n, slot, data, gen)
  OBVIOUS
<1>11. d' = e /\ calls' = Plus(calls, fr)
  <2>1. u = IF slot > Len(m) THEN m \o [i \in 1..(slot - Len(m)) |-> [data |-> 0, obj |-> 0]] ELSE m
    BY <1>7 DEF Longer, Slot
  <2>2. t = [u EXCEPT ![slot] = [data |-> data, obj |-> 0]]
    BY <1>8 DEF Put, Slot
  <2> QED BY <1>3, <1>4, <1>5, <1>6, <1>9, <1>10, <2>1, <2>2 DEF LoadObject, Plus
<1>12. IsSeq(m) /\ Len(m) \in Nat /\ DOMAIN m = 1..Len(m) /\ slot \in Nat \ {0}
  <2>1. IsSeq(m) /\ d.lsize \in Nat
    BY <1>2, <1>3 DEF SlotsOk
  <2> QED BY <1>4, <2>1, SeqLen
<1>13. IsSeq(u) /\ \A a \in DOMAIN u : (a \in DOMAIN m /\ u[a] = m[a]) \/ u[a] = Slot(0)
  <2>1. CASE slot > Len(m)
    <3>1. PICK g \in Nat : g = slot - Len(m)
      BY <1>12, <2>1
    <3>2. u = Longer(m, g)
      BY <1>7, <2>1, <3>1
    <3>3. IsSeq(m)
      BY <1>12
    <3> QED BY ONLY <3>2, <3>3, LongerIs
  <2>2. CASE ~(slot > Len(m))
    BY <1>7, <1>12, <2>2
  <2> QED BY <2>1, <2>2
<1>14. PICK sl : sl = Slot(data)
  OBVIOUS
<1>15. /\ IsSeq(t) /\ DOMAIN t = DOMAIN u
       /\ slot \in DOMAIN u => t[slot] = sl
       /\ \A a \in DOMAIN u : a # slot => t[a] = u[a]
  BY <1>8, <1>13, <1>14, SeqExcept
<1>16. \A a \in DOMAIN t : DOMAIN t[a] = {"data", "obj"} /\ t[a].obj \in 0..Len(d.objs)
  <2> TAKE a \in DOMAIN t
  <2>1. \A v : DOMAIN Slot(v) = {"data", "obj"} /\ Slot(v).obj = 0
    BY DEF Slot
  <2>2. CASE a = slot
    BY <1>2, <1>14, <1>15, <2>1, <2>2
  <2>3. CASE a # slot
    <3>1. t[a] = u[a] /\ a \in DOMAIN u
      BY <1>15, <2>3
    <3>2. CASE a \in DOMAIN m /\ u[a] = m[a]
      BY <1>2, <1>3, <3>1, <3>2 DEF SlotsOk
    <3>3. CASE u[a] = Slot(0)
      BY <1>2, <2>1, <3>1, <3>3
    <3> QED BY <1>13, <3>1, <3>2, <3>3
  <2> QED BY <2>2, <2>3
<1>17. /\ Only(d, e, OtherFields) /\ e.slots = t /\ e.objs = d.objs /\ e.left = d.left
       /\ e.lsize = d.lsize /\ e.status = d.status /\ e.fault = d.fault
  BY <1>2, <1>9 DEF Only, OtherFields, DyldFields
<1>18. DInv(world, e)
  BY <1>2, <1>17, OtherInv
<1>19. SlotsOk(e)
  BY <1>2, <1>15, <1>16, <1>17 DEF SlotsOk
<1>20. Went(world, d, e)
  BY <1>2, <1>17, <1>18, <1>19 DEF Went
<1>21. PICK start : start = Len(d.objs) + 1
  OBVIOUS
<1>22. /\ fr.ph = "open" /\ fr.start = start /\ fr.at = start /\ fr.k = 1 /\ fr.dir = 1
       /\ fr.path = <<>> /\ fr.list = <<>> /\ fr.slot = slot /\ fr.name = n
       /\ fr.run = FALSE /\ fr.entered = {} /\ DOMAIN fr = FrameFields
  BY <1>10, <1>21 DEF Frame, FrameFields
<1>23. start \in Nat \ {0} /\ start = Len(e.objs) + 1 /\ slot # 0
  BY <1>2, <1>12, <1>17, <1>21
<1>24. fr.run \in BOOLEAN /\ ~fr.run
  BY <1>22
<1>25. AtOk(world, e, fr)
  BY <1>22, <1>23, <1>24 DEF AtOk, Before
<1>26. FrameOk(world, e, fr)
  <2>1. IsSeq(<<>>) /\ Range(<<>>) = {}
    <3>1. <<>> \in Seq({})
      OBVIOUS
    <3>2. IsSeq(<<>>)
      BY <3>1, SeqIs
    <3> QED BY <3>2 DEF Range
  <2> QED BY <1>22, <1>25, <2>1 DEF FrameOk
<1>27. \A x \in DOMAIN e.objs : Settled(e, x)
  BY <1>2, <1>17, <1>20, SettledBelow DEF Passive
<1>28. GotsAt(e, fr)
  BY <1>22, <1>27 DEF GotsAt
<1>29. Entered(e, fr)
  BY <1>22 DEF Entered
<1> QED BY <1>1, <1>2, <1>11, <1>20, <1>26, <1>28, <1>29, PushInv DEF Going

-----------------------------------------------------------------------------
(* The invariant.                                                          *)

(* A step of the linker, or of the code of the program *)
LEMMA NextInv ==
  ASSUME Inv, [Next]_vars
  PROVE  Inv'
<1>1. CASE LinkerStep
  BY <1>1, DyldLoadInv, OpenObjectInv, LoadNeededInv, ResolveAllGotInv, ResolveAllPltInv,
     LayoutInv, ExecuteInitFuncsInv, TsortInv, ExecuteRelocInv, ExecuteCtorInv, LoadEndInv
     DEF LinkerStep
<1>2. CASE ReturnFromCode \/ CallPlt \/ MemoryGrow
  BY <1>2, ReturnFromCodeInv, CallPltInv, MemoryGrowInv
<1>3. CASE \E n \in world.open, moved \in BOOLEAN : LoadObject(n, moved)
  BY <1>3, LoadObjectInv
<1>4. CASE \E h \in 1..MaxOps, k \in {"func", "data"}, sym \in Symbols : DlResolveSymbol(h, k, sym)
  <2>1. PICK h \in 1..MaxOps, k \in {"func", "data"}, sym \in Symbols : DlResolveSymbol(h, k, sym)
    BY <1>4
  <2>2. h \in Nat \ {0}
    BY DyldAssumption
  <2> QED BY <2>1, <2>2, DlResolveSymbolInv
<1>5. CASE UNCHANGED vars
  <2>1. world' = world /\ d' = d /\ calls' = calls
    BY <1>5 DEF vars
  <2> QED BY <2>1 DEF Inv, CallsOk, GotState, CodeRunsLinked, Top
<1> QED BY <1>1, <1>2, <1>3, <1>4, <1>5 DEF Next

(* The world is one of those that the assumption is about. *)
LEMMA InitWorld ==
  ASSUME Init
  PROVE  WorldOk(world)
<1>1. PICK w \in Worlds, b \in BindNow :
         world = [main |-> w.main, dirs |-> w.dirs, open |-> w.open, base |-> w.base, bindnow |-> b]
  BY DEF Init
<1>2. world.main = w.main /\ world.dirs = w.dirs /\ world.open = w.open
  BY <1>1
<1>3. FilesOf(world) = FilesOf(w)
  BY <1>2 DEF FilesOf
<1>4. IsSeq(w.dirs)
  BY DyldAssumption DEF IsSeq
<1>5. ASSUME NEW f \in FilesOf(w)
      PROVE  f = NoFile \/ (f # NoFile /\ (f.valid /\ f.dylink => WellFormed(world, f)))
  <2>1. f = NoFile \/ (f # NoFile /\ (f.valid /\ f.dylink => WellFormed(w, f)))
    BY DyldAssumption
  <2>2. WellFormed(w, f) => WellFormed(world, f)
    BY <1>2 DEF WellFormed
  <2> QED BY <2>1, <2>2
<1> QED BY <1>2, <1>3, <1>4, <1>5 DEF WorldOk

(* Nothing is loaded. *)
LEMMA InitInv ==
  ASSUME Init
  PROVE  Inv
<1>1. d = EmptyDyld /\ calls = <<>>
  BY DEF Init
<1>2. PICK e : e = [EmptyDyld EXCEPT !.status = "new"]
  OBVIOUS
<1>3. d = e
  BY <1>1, <1>2 DEF EmptyDyld
<1>4. DInv(world, d) /\ d.objs = <<>>
  BY <1>2, <1>3, EmptyInv
<1>5. IsSeq(<<>>) /\ Range(<<>>) = {} /\ DOMAIN <<>> = {}
  <2>1. <<>> \in Seq({})
    OBVIOUS
  <2>2. IsSeq(<<>>)
    BY <2>1, SeqIs
  <2>3. DOMAIN <<>> = {}
    OBVIOUS
  <2> QED BY <2>2, <2>3 DEF Range
<1>6. d.slots = <<>> /\ d.lsize = 0 /\ d.left = {}
  BY <1>1 DEF EmptyDyld
<1>7. CallsOk
  BY <1>1, <1>4, <1>5 DEF CallsOk
<1>8. SlotsOk(d)
  BY <1>5, <1>6 DEF SlotsOk
<1>9. GotState
  BY <1>1, <1>4, <1>5 DEF GotState
<1>10. CodeRunsLinked
  BY <1>1, <1>5 DEF CodeRunsLinked
<1> QED BY <1>4, <1>7, <1>8, <1>9, <1>10, InitWorld DEF Inv

(* The invariant holds in every state: the areas and bindings are as they    *)
(* should be, and whatever is not linked belongs to the load that goes on.   *)
THEOREM Invariance == Spec => []Inv
<1>1. Init => Inv
  BY InitInv
<1>2. Inv /\ [Next]_vars => Inv'
  BY NextInv
<1> QED BY <1>1, <1>2, PTL DEF Spec

(* No code of an object runs before its GOT is complete.                     *)
THEOREM CodeRunsLinkedHolds == Spec => []CodeRunsLinked
<1>1. Inv => CodeRunsLinked
  BY DEF Inv
<1> QED BY <1>1, Invariance, PTL

(* The exports of an object have one table entry each.                       *)
LEMMA InvEntries ==
  ASSUME Inv
  PROVE  OneEntryPerFunction
<1> SUFFICES ASSUME NEW o \in Range(d.objs), NEW a \in Area(o.exp, NExports(o.file))
             PROVE  /\ d.table[a + 1] # Null => d.table[a + 1].o = o.id
                    /\ \A b \in Area(o.exp, NExports(o.file)) \ {a} :
                         d.table[a + 1] = d.table[b + 1] => d.table[a + 1] = Null
  BY DEF OneEntryPerFunction
<1>1. PICK x \in DOMAIN d.objs : o = d.objs[x]
  BY DEF Range
<1>2. PICK mine : mine = Area(o.exp, NExports(o.file))
  OBVIOUS
<1>3. /\ \A b \in mine : d.table[b + 1] = Null \/ d.table[b + 1] \in FuncsOf(o)
      /\ \A b, c \in mine : b < c => (d.table[b + 1] = d.table[c + 1] => d.table[b + 1] = Null)
  BY <1>1, <1>2 DEF Inv, DInv, Entries
<1>4. \A fn \in FuncsOf(o) : fn.o = o.id
  BY DEF FuncsOf, Func
<1>5. ASSUME NEW b \in mine, b # a, d.table[a + 1] = d.table[b + 1]
      PROVE  d.table[a + 1] = Null
  <2>1. a \in Int /\ b \in Int
    BY <1>2 DEF Area
  <2>2. a < b \/ b < a
    BY <1>5, <2>1
  <2> QED BY <1>2, <1>3, <1>5, <2>2
<1> QED BY <1>2, <1>3, <1>4, <1>5

(* Every reference goes to the first object that defines the symbol, however *)
(* and whenever it was bound.                                                *)
THEOREM BindingsAgreeHolds == Spec => []BindingsAgree
<1>1. ASSUME Inv
      PROVE  BindingsAgree
  <2>1. ASSUME NEW o \in Range(d.objs)
        PROVE  /\ \A i \in DOMAIN o.got : o.got[i] # Unset => GotIsFor(d, o, i)
               /\ \A i \in DOMAIN o.plt : o.plt[i] # Null => PltIsFor(d, o, i)
    <3>1. PICK x \in DOMAIN d.objs : o = d.objs[x]
      BY DEF Range
    <3> QED BY <1>1, <3>1 DEF Inv, DInv, Bindings, GotOk
  <2> QED BY <1>1, <2>1, InvEntries DEF BindingsAgree
<1> QED BY <1>1, Invariance, PTL

\* One sequence behind another
Concat(s, t) == s \o t

(* Its elements are those of the two. *)
LEMMA ConcatIs ==
  ASSUME NEW s, NEW t, NEW u, IsSeq(s), IsSeq(t), u = Concat(s, t)
  PROVE  \A i \in DOMAIN u : \/ i \in DOMAIN s /\ u[i] = s[i]
                             \/ \E j \in DOMAIN t : i = Len(s) + j /\ u[i] = t[j]
<1> DEFINE T == Range(s) \cup Range(t)
<1>1. s \in Seq(T) /\ t \in Seq(T)
  <2>1. s \in Seq(Range(s)) /\ t \in Seq(Range(t))
    BY DEF IsSeq
  <2>2. DOMAIN s = 1..Len(s) /\ Len(s) \in Nat /\ DOMAIN t = 1..Len(t) /\ Len(t) \in Nat
    BY SeqLen
  <2>3. \A i \in 1..Len(s) : s[i] \in T
    BY <2>2 DEF Range
  <2>4. \A i \in 1..Len(t) : t[i] \in T
    BY <2>2 DEF Range
  <2> QED BY <2>1, <2>3, <2>4
<1> HIDE DEF T
<1>2. Len(s) \in Nat /\ Len(t) \in Nat /\ DOMAIN s = 1..Len(s) /\ DOMAIN t = 1..Len(t)
  BY SeqLen
<1>3. DOMAIN u = 1..(Len(s) + Len(t))
      /\ \A i \in 1..(Len(s) + Len(t)) : u[i] = IF i <= Len(s) THEN s[i] ELSE t[i - Len(s)]
  BY <1>1, <1>2 DEF Concat
<1> TAKE i \in DOMAIN u
<1>4. CASE i <= Len(s)
  BY <1>2, <1>3, <1>4
<1>5. CASE i > Len(s)
  <2>1. i - Len(s) \in DOMAIN t /\ i = Len(s) + (i - Len(s)) /\ u[i] = t[i - Len(s)]
    BY <1>2, <1>3, <1>5
  <2> QED BY <2>1
<1> QED BY <1>2, <1>3, <1>4, <1>5

(* Areas that are beside each other have nothing in common. *)
LEMMA AreasApart ==
  ASSUME NEW a \in Nat, NEW m \in Nat, NEW b \in Nat, NEW n \in Nat, a + m <= b \/ b + n <= a
  PROVE  Area(a, m) \cap Area(b, n) = {}
BY DEF Area

(* More pages are more memory. *)
LEMMA MorePages ==
  ASSUME NEW p \in Nat, NEW q \in Nat, NEW b \in Nat, p <= q
  PROVE  p * b \in Nat /\ q * b \in Nat /\ p * b <= q * b
<1>1. PICK k \in Nat : q = p + k
  <2>1. q - p \in Nat /\ q = p + (q - p)
    OBVIOUS
  <2> QED BY <2>1
<1>2. q * b = p * b + k * b
  BY <1>1
<1>3. p * b \in Nat /\ k * b \in Nat
  BY <1>1
<1> QED BY <1>2, <1>3

(* The pages that the program added are above what the linker allocated. *)
LEMMA GrownAbove ==
  ASSUME NEW dd, MemoryOk(dd)
  PROVE  /\ dd.membase \in Nat /\ dd.pages * PageSize \in Nat
         /\ dd.membase <= dd.pages * PageSize
         /\ \A p \in dd.grown : \A v \in Area(p * PageSize, PageSize) :
              v \in Nat /\ dd.membase <= v /\ v < dd.pages * PageSize
<1>1. PICK b \in Nat \ {0} : b = PageSize
  BY Sizes
<1>2. PICK m : m = Pages(dd.membase)
  OBVIOUS
<1>3. /\ dd.membase \in Nat /\ dd.pages \in Nat /\ dd.membase + b <= Space /\ m <= dd.pages
      /\ \A g \in dd.grown : g \in Nat /\ m <= g /\ g < dd.pages
  BY <1>1, <1>2 DEF MemoryOk
<1>4. Space \in Nat /\ dd.membase < Space
  BY <1>1, <1>3, Sizes
<1>5. m \in Nat /\ dd.membase <= m * b
  BY <1>1, <1>2, <1>3, <1>4, PagesOf
<1>6. m * b \in Nat /\ dd.pages * b \in Nat /\ m * b <= dd.pages * b
  BY <1>3, <1>5, MorePages
<1>7. dd.membase <= dd.pages * b
  BY <1>3, <1>5, <1>6
<1>8. ASSUME NEW p \in dd.grown, NEW v \in Area(p * b, b)
      PROVE  v \in Nat /\ dd.membase <= v /\ v < dd.pages * b
  <2>1. p \in Nat /\ m <= p /\ p + 1 \in Nat /\ p + 1 <= dd.pages
    BY <1>3
  <2>2. m * b <= p * b /\ p * b \in Nat
    BY <1>5, <2>1, MorePages
  <2>3. PICK q \in Nat : q = p + 1
    BY <2>1
  <2>4. q * b <= dd.pages * b /\ q * b \in Nat
    BY <1>3, <2>1, <2>3, MorePages
  <2>5. q * b = p * b + b
    BY <2>1, <2>3
  <2>6. PICK k \in Nat : k = p * b
    BY <2>2
  <2>7. v \in k..(k + b - 1)
    BY <2>6 DEF Area
  <2>8. PICK z \in Nat : z = dd.pages * b
    BY <1>6
  <2>9. k + b <= z /\ dd.membase <= k
    BY <1>3, <1>5, <1>6, <2>2, <2>4, <2>5, <2>6, <2>8
  <2> QED BY <1>3, <2>7, <2>8, <2>9
<1> QED BY <1>1, <1>3, <1>6, <1>7, <1>8

\* Sets that have nothing in common
ApartSets(s) == \A i, j \in DOMAIN s : i # j => s[i] \cap s[j] = {}
MemAreas(dd) == [i \in 1..Len(dd.objs) |-> Area(dd.objs[i].mem, dd.objs[i].file.size)]
TabAreas(dd) == [i \in 1..Len(dd.objs) |-> Area(dd.objs[i].tab, dd.objs[i].file.tsize)]
ExpAreas(dd) == [i \in 1..Len(dd.objs) |-> Area(dd.objs[i].exp, NExports(dd.objs[i].file))]
OtherAreas(dd) == <<Area(dd.stack[1], dd.stack[2] - dd.stack[1]),
                    Area(dd.heap[1], dd.heap[2] - dd.heap[1]),
                    UNION {Area(p * PageSize, PageSize) : p \in dd.grown}>>

(* What the objects have in memory *)
LEMMA MemAreasAre ==
  ASSUME NEW w, NEW dd, DInv(w, dd)
  PROVE  /\ IsSeq(MemAreas(dd)) /\ Len(MemAreas(dd)) = Len(dd.objs)
         /\ ApartSets(MemAreas(dd))
         /\ \A i \in DOMAIN MemAreas(dd) : \A v \in MemAreas(dd)[i] : v \in Nat /\ v < dd.membase
         /\ \A i \in DOMAIN MemAreas(dd) : \A x \in {"stack", "heap"} :
              MemAreas(dd)[i] \cap Area(dd[x][1], dd[x][2] - dd[x][1]) = {}
<1>1. PICK s : s = MemAreas(dd)
  OBVIOUS
<1>2. /\ Len(dd.objs) \in Nat /\ DOMAIN dd.objs = 1..Len(dd.objs) /\ dd.membase \in Nat
      /\ \A x \in DOMAIN dd.objs : ObjOk(w, dd.objs[x])
  BY SeqLen DEF DInv, Shape, Rooms, MemoryOk
<1>3. /\ DOMAIN s = 1..Len(dd.objs) /\ s = [i \in 1..Len(dd.objs) |-> s[i]]
      /\ \A i \in 1..Len(dd.objs) : s[i] = Area(dd.objs[i].mem, dd.objs[i].file.size)
  BY <1>1 DEF MemAreas
<1>4. IsSeq(s) /\ Len(s) = Len(dd.objs)
  BY <1>2, <1>3, SeqFcn
<1>5. ASSUME NEW i \in DOMAIN s, NEW j \in DOMAIN s, i < j
      PROVE  s[i] \cap s[j] = {}
  <2>1. /\ dd.objs[i].mem \in Nat /\ dd.objs[i].file.size \in Nat
        /\ dd.objs[j].mem \in Nat /\ dd.objs[j].file.size \in Nat
    BY <1>2, <1>3, ObjNumbers
  <2>2. dd.objs[i].mem + dd.objs[i].file.size <= dd.objs[j].mem
    BY <1>2, <1>3, <1>5 DEF DInv, Ordered
  <2>3. PICK a, m, b, n : /\ a = dd.objs[i].mem /\ m = dd.objs[i].file.size
                          /\ b = dd.objs[j].mem /\ n = dd.objs[j].file.size
    OBVIOUS
  <2>4. a \in Nat /\ m \in Nat /\ b \in Nat /\ n \in Nat /\ a + m <= b
    BY <2>1, <2>2, <2>3
  <2>5. s[i] = Area(a, m) /\ s[j] = Area(b, n)
    BY <1>3, <2>3
  <2>6. Area(a, m) \cap Area(b, n) = {}
    BY <2>4, AreasApart
  <2> QED BY <2>5, <2>6
<1>6. ApartSets(s)
  <2> SUFFICES ASSUME NEW i \in DOMAIN s, NEW j \in DOMAIN s, i # j
               PROVE  s[i] \cap s[j] = {}
    BY DEF ApartSets
  <2>1. i < j \/ j < i
    BY <1>2, <1>3
  <2> QED BY <1>5, <2>1
<1>7. ASSUME NEW i \in DOMAIN s, NEW v \in s[i]
      PROVE  v \in Nat /\ v < dd.membase
  <2>1. dd.objs[i].mem \in Nat /\ dd.objs[i].file.size \in Nat
    BY <1>2, <1>3, ObjNumbers
  <2>2. dd.objs[i].mem + dd.objs[i].file.size <= dd.membase
    BY <1>2, <1>3 DEF DInv, Ordered
  <2>3. PICK a, m : a = dd.objs[i].mem /\ m = dd.objs[i].file.size
    OBVIOUS
  <2>4. a \in Nat /\ m \in Nat /\ a + m <= dd.membase
    BY <2>1, <2>2, <2>3
  <2>5. v \in Area(a, m)
    BY <1>3, <2>3
  <2>6. v \in Nat /\ v < a + m
    BY <2>4, <2>5 DEF Area
  <2> QED BY <1>2, <2>4, <2>6
<1>8. ASSUME NEW i \in DOMAIN s, NEW x \in {"stack", "heap"}
      PROVE  s[i] \cap Area(dd[x][1], dd[x][2] - dd[x][1]) = {}
  <2>1. dd.objs[i].mem \in Nat /\ dd.objs[i].file.size \in Nat
    BY <1>2, <1>3, ObjNumbers
  <2>2. PICK lo, hi : lo = dd[x][1] /\ hi = dd[x][2]
    OBVIOUS
  <2>3. /\ lo \in Nat /\ hi \in Nat /\ lo <= hi
        /\ Beside(lo, hi, dd.objs[i].mem, dd.objs[i].mem + dd.objs[i].file.size)
    BY <1>2, <1>3, <2>2 DEF DInv, StackHeap
  <2>4. hi - lo \in Nat /\ lo + (hi - lo) = hi
    BY <2>3
  <2>5. PICK a, m, n : a = dd.objs[i].mem /\ m = dd.objs[i].file.size /\ n = hi - lo
    OBVIOUS
  <2>6. a \in Nat /\ m \in Nat /\ n \in Nat /\ (a + m <= lo \/ lo + n <= a)
    BY <2>1, <2>3, <2>4, <2>5 DEF Beside
  <2>7. s[i] = Area(a, m)
    BY <1>3, <2>5
  <2>8. Area(a, m) \cap Area(lo, n) = {}
    BY <2>3, <2>6, AreasApart
  <2> QED BY <2>2, <2>5, <2>7, <2>8
<1> QED BY <1>1, <1>4, <1>6, <1>7, <1>8

(* ... and the rest of it *)
LEMMA OtherAreasAre ==
  ASSUME NEW w, NEW dd, DInv(w, dd)
  PROVE  /\ IsSeq(OtherAreas(dd)) /\ DOMAIN OtherAreas(dd) = 1..3
         /\ OtherAreas(dd)[1] = Area(dd.stack[1], dd.stack[2] - dd.stack[1])
         /\ OtherAreas(dd)[2] = Area(dd.heap[1], dd.heap[2] - dd.heap[1])
         /\ OtherAreas(dd)[1] \cap OtherAreas(dd)[2] = {}
         /\ \A v \in OtherAreas(dd)[1] : v \in Nat /\ v < dd.membase
         /\ \A v \in OtherAreas(dd)[2] : v \in Nat /\ v < dd.membase
         /\ \A v \in OtherAreas(dd)[3] : v \in Nat /\ dd.membase <= v /\ v < dd.pages * PageSize
<1>1. PICK a, b, c, e : dd.stack[1] = a /\ dd.stack[2] = b /\ dd.heap[1] = c /\ dd.heap[2] = e
  OBVIOUS
<1>2. /\ a \in Nat /\ b \in Nat /\ c \in Nat /\ e \in Nat /\ a <= b /\ c <= e
      /\ b <= dd.membase /\ e <= dd.membase /\ Beside(a, b, c, e) /\ MemoryOk(dd)
  BY <1>1 DEF DInv, StackHeap, Rooms
<1>3. PICK S, H, G : /\ S = Area(a, b - a) /\ H = Area(c, e - c)
                     /\ G = UNION {Area(p * PageSize, PageSize) : p \in dd.grown}
  OBVIOUS
<1>4. OtherAreas(dd) = <<S, H, G>>
  BY <1>1, <1>3 DEF OtherAreas
<1>5. IsSeq(<<S, H, G>>)
  <2>1. <<S, H, G>> \in Seq({S, H, G})
    OBVIOUS
  <2> QED BY <2>1, SeqIs
<1>6. PICK m, n : m = b - a /\ n = e - c
  OBVIOUS
<1>7. m \in Nat /\ n \in Nat /\ (a + m <= c \/ c + n <= a)
  BY <1>2, <1>6 DEF Beside
<1>8. S \cap H = {}
  <2>1. Area(a, m) \cap Area(c, n) = {}
    BY <1>2, <1>7, AreasApart
  <2> QED BY <1>3, <1>6, <2>1
<1>9. dd.membase \in Nat
  BY <1>2 DEF MemoryOk
<1>10. /\ \A v \in S : v \in Nat /\ v < dd.membase
       /\ \A v \in H : v \in Nat /\ v < dd.membase
  BY <1>2, <1>3, <1>9 DEF Area
<1>11. \A v \in G : v \in Nat /\ dd.membase <= v /\ v < dd.pages * PageSize
  BY <1>2, <1>3, GrownAbove
<1>12. DOMAIN <<S, H, G>> = 1..3
  OBVIOUS
<1>13. <<S, H, G>>[1] = S /\ <<S, H, G>>[2] = H /\ <<S, H, G>>[3] = G
  OBVIOUS
<1> QED BY <1>1, <1>3, <1>4, <1>5, <1>8, <1>10, <1>11, <1>12, <1>13

(* The memory is divided. *)
LEMMA MemoryApart ==
  ASSUME NEW w, NEW dd, DInv(w, dd), NEW s, s = Concat(MemAreas(dd), OtherAreas(dd))
  PROVE  ApartSets(s) /\ UNION Range(s) \subseteq Area(0, dd.pages * PageSize)
<1>1. PICK M, X : M = MemAreas(dd) /\ X = OtherAreas(dd)
  OBVIOUS
<1>2. PICK S, H, G : S = X[1] /\ H = X[2] /\ G = X[3]
  OBVIOUS
<1>3. /\ IsSeq(M) /\ Len(M) \in Nat /\ DOMAIN M = 1..Len(M) /\ ApartSets(M)
      /\ \A i \in DOMAIN M : \A v \in M[i] : v \in Nat /\ v < dd.membase
  BY <1>1, MemAreasAre, SeqLen
<1>4. /\ IsSeq(X) /\ DOMAIN X = 1..3 /\ S \cap H = {}
      /\ \A v \in S : v \in Nat /\ v < dd.membase
      /\ \A v \in H : v \in Nat /\ v < dd.membase
      /\ \A v \in G : v \in Nat /\ dd.membase <= v /\ v < dd.pages * PageSize
  BY <1>1, <1>2, OtherAreasAre
<1>5. \A i \in DOMAIN M : M[i] \cap S = {} /\ M[i] \cap H = {}
  <2>1. \A i \in DOMAIN M : \A x \in {"stack", "heap"} :
              M[i] \cap Area(dd[x][1], dd[x][2] - dd[x][1]) = {}
    BY <1>1, MemAreasAre
  <2>2. dd["stack"] = dd.stack /\ dd["heap"] = dd.heap
    OBVIOUS
  <2>3. S = Area(dd.stack[1], dd.stack[2] - dd.stack[1]) /\ H = Area(dd.heap[1], dd.heap[2] - dd.heap[1])
    BY <1>1, <1>2, OtherAreasAre
  <2> QED BY <2>1, <2>2, <2>3
<1>6. dd.membase \in Nat /\ dd.pages * PageSize \in Nat /\ dd.membase <= dd.pages * PageSize
  BY GrownAbove DEF DInv, Rooms
<1>7. S \cap G = {} /\ H \cap G = {} /\ \A i \in DOMAIN M : M[i] \cap G = {}
  <2>1. \A v \in G : ~(v < dd.membase)
    BY <1>4, <1>6
  <2> QED BY <1>3, <1>4, <2>1
<1>8. \A i \in DOMAIN s : \/ i \in DOMAIN M /\ s[i] = M[i]
                          \/ i = Len(M) + 1 /\ s[i] = S
                          \/ i = Len(M) + 2 /\ s[i] = H
                          \/ i = Len(M) + 3 /\ s[i] = G
  <2> TAKE i \in DOMAIN s
  <2>1. (i \in DOMAIN M /\ s[i] = M[i]) \/ \E j \in DOMAIN X : i = Len(M) + j /\ s[i] = X[j]
    BY <1>1, <1>3, <1>4, ConcatIs
  <2>2. \A j \in 1..3 : j = 1 \/ j = 2 \/ j = 3
    OBVIOUS
  <2> QED BY <1>2, <1>4, <2>1, <2>2
<1>9. ApartSets(s)
  <2> SUFFICES ASSUME NEW i \in DOMAIN s, NEW j \in DOMAIN s, i # j
               PROVE  s[i] \cap s[j] = {}
    BY DEF ApartSets
  <2>1. CASE i \in DOMAIN M /\ s[i] = M[i] /\ j \in DOMAIN M /\ s[j] = M[j]
    BY <1>3, <2>1 DEF ApartSets
  <2>2. CASE i \in DOMAIN M /\ s[i] = M[i] /\ s[j] \in {S, H, G}
    BY <1>5, <1>7, <2>2
  <2>3. CASE j \in DOMAIN M /\ s[j] = M[j] /\ s[i] \in {S, H, G}
    BY <1>5, <1>7, <2>3
  <2>4. CASE \E x, y \in {1, 2, 3} : /\ i = Len(M) + x /\ j = Len(M) + y
                                     /\ s[i] = <<S, H, G>>[x] /\ s[j] = <<S, H, G>>[y]
    <3>1. PICK x, y \in {1, 2, 3} : /\ i = Len(M) + x /\ j = Len(M) + y
                                    /\ s[i] = <<S, H, G>>[x] /\ s[j] = <<S, H, G>>[y]
      BY <2>4
    <3>2. x # y
      BY <3>1
    <3>3. <<S, H, G>>[1] = S /\ <<S, H, G>>[2] = H /\ <<S, H, G>>[3] = G
      OBVIOUS
    <3> QED BY <1>4, <1>7, <3>1, <3>2, <3>3
  <2>5. <<S, H, G>>[1] = S /\ <<S, H, G>>[2] = H /\ <<S, H, G>>[3] = G
    OBVIOUS
  <2>6. \A k \in DOMAIN s : \/ k \in DOMAIN M /\ s[k] = M[k]
                            \/ /\ s[k] \in {S, H, G}
                               /\ \E x \in {1, 2, 3} : k = Len(M) + x /\ s[k] = <<S, H, G>>[x]
    BY <1>8, <2>5
  <2> QED BY <2>1, <2>2, <2>3, <2>4, <2>6
<1>10. UNION Range(s) \subseteq Area(0, dd.pages * PageSize)
  <2> SUFFICES ASSUME NEW i \in DOMAIN s, NEW v \in s[i]
               PROVE  v \in Area(0, dd.pages * PageSize)
    BY DEF Range
  <2>1. v \in Nat /\ v < dd.pages * PageSize
    BY <1>3, <1>4, <1>6, <1>8
  <2>2. PICK z \in Nat : z = dd.pages * PageSize
    BY <1>6
  <2>3. v \in 0..(0 + z - 1)
    BY <2>1, <2>2
  <2> QED BY <2>2, <2>3 DEF Area
<1> QED BY <1>9, <1>10

\* What an object has of the table, for its elements and for its exports
TabSet(o) == Area(o.tab, o.file.tsize)
ExpSet(o) == Area(o.exp, NExports(o.file))

(* The areas of the objects in the table *)
LEMMA TabSetsAre ==
  ASSUME NEW w, NEW dd, DInv(w, dd), NEW i \in DOMAIN dd.objs
  PROVE  /\ TabSet(dd.objs[i]) \cap ExpSet(dd.objs[i]) = {}
         /\ \A v \in TabSet(dd.objs[i]) \cup ExpSet(dd.objs[i]) : v \in Nat /\ v < dd.tabbase
         /\ \A j \in DOMAIN dd.objs : i < j =>
              (TabSet(dd.objs[i]) \cup ExpSet(dd.objs[i]))
                \cap (TabSet(dd.objs[j]) \cup ExpSet(dd.objs[j])) = {}
<1>1. \A x \in DOMAIN dd.objs : ObjOk(w, dd.objs[x])
  BY DEF DInv, Shape
<1>2. PICK o : o = dd.objs[i]
  OBVIOUS
<1>3. PICK a, m, e, n : a = o.tab /\ m = o.file.tsize /\ e = o.exp /\ n = NExports(o.file)
  OBVIOUS
<1>4. a \in Nat /\ m \in Nat /\ e \in Nat /\ n \in Nat
  BY <1>1, <1>2, <1>3, ObjNumbers
<1>5. dd.tabbase \in Nat
  BY DEF DInv, Rooms, TableOk
<1>6. a + m <= e /\ e + n <= dd.tabbase
  BY <1>2, <1>3 DEF DInv, Ordered
<1>7. TabSet(o) = a..(a + m - 1) /\ ExpSet(o) = e..(e + n - 1)
  BY <1>3 DEF TabSet, ExpSet, Area
<1>8. TabSet(o) \cap ExpSet(o) = {}
  BY <1>4, <1>6, <1>7
<1>9. \A v \in TabSet(o) \cup ExpSet(o) : v \in Nat /\ v < e + n
  BY <1>4, <1>6, <1>7
<1>10. \A v \in TabSet(o) \cup ExpSet(o) : v \in Nat /\ v < dd.tabbase
  BY <1>4, <1>5, <1>6, <1>9
<1>11. ASSUME NEW j \in DOMAIN dd.objs, i < j
       PROVE  (TabSet(o) \cup ExpSet(o)) \cap (TabSet(dd.objs[j]) \cup ExpSet(dd.objs[j])) = {}
  <2>1. PICK q : q = dd.objs[j]
    OBVIOUS
  <2>2. PICK b, k, f, l : b = q.tab /\ k = q.file.tsize /\ f = q.exp /\ l = NExports(q.file)
    OBVIOUS
  <2>3. b \in Nat /\ k \in Nat /\ f \in Nat /\ l \in Nat
    BY <1>1, <2>1, <2>2, ObjNumbers
  <2>4. b + k <= f /\ e + n <= b
    BY <1>2, <1>3, <1>11, <2>1, <2>2 DEF DInv, Ordered
  <2>5. TabSet(q) = b..(b + k - 1) /\ ExpSet(q) = f..(f + l - 1)
    BY <2>2 DEF TabSet, ExpSet, Area
  <2>6. \A v \in TabSet(q) \cup ExpSet(q) : v \in Nat /\ ~(v < e + n)
    BY <1>4, <2>3, <2>4, <2>5
  <2>7. (TabSet(o) \cup ExpSet(o)) \cap (TabSet(q) \cup ExpSet(q)) = {}
    BY <1>9, <2>6
  <2> QED BY <2>1, <2>7
<1> QED BY <1>2, <1>8, <1>10, <1>11

(* The table is divided. *)
LEMMA TableApart ==
  ASSUME NEW w, NEW dd, DInv(w, dd), NEW s, s = Concat(TabAreas(dd), ExpAreas(dd))
  PROVE  ApartSets(s) /\ UNION Range(s) \subseteq Area(0, Len(dd.table))
<1>1. PICK T, E : T = TabAreas(dd) /\ E = ExpAreas(dd)
  OBVIOUS
<1>2. /\ Len(dd.objs) \in Nat /\ DOMAIN dd.objs = 1..Len(dd.objs)
      /\ dd.tabbase \in Nat /\ Len(dd.table) = dd.tabbase
  BY SeqLen DEF DInv, Shape, Rooms, TableOk
<1>3. PICK n \in Nat : n = Len(dd.objs)
  BY <1>2
<1>4. /\ DOMAIN T = 1..n /\ T = [i \in 1..n |-> T[i]]
      /\ DOMAIN E = 1..n /\ E = [i \in 1..n |-> E[i]]
      /\ \A i \in 1..n : T[i] = TabSet(dd.objs[i]) /\ E[i] = ExpSet(dd.objs[i])
  BY <1>1, <1>3 DEF TabAreas, ExpAreas, TabSet, ExpSet
<1>5. IsSeq(T) /\ Len(T) = n /\ IsSeq(E) /\ Len(E) = n
  BY <1>4, SeqFcn
<1>6. \A i \in DOMAIN s : \/ i \in 1..n /\ s[i] = TabSet(dd.objs[i])
                          \/ \E j \in 1..n : i = n + j /\ s[i] = ExpSet(dd.objs[j])
  <2> TAKE i \in DOMAIN s
  <2>1. (i \in DOMAIN T /\ s[i] = T[i]) \/ \E j \in DOMAIN E : i = Len(T) + j /\ s[i] = E[j]
    BY <1>1, <1>5, ConcatIs
  <2>2. CASE i \in DOMAIN T /\ s[i] = T[i]
    BY <1>4, <2>2
  <2>3. CASE \E j \in DOMAIN E : i = Len(T) + j /\ s[i] = E[j]
    <3>1. PICK j \in DOMAIN E : i = Len(T) + j /\ s[i] = E[j]
      BY <2>3
    <3>2. j \in 1..n /\ i = n + j /\ s[i] = ExpSet(dd.objs[j])
      BY <1>4, <1>5, <3>1
    <3> QED BY <3>2
  <2> QED BY <2>1, <2>2, <2>3
<1>7. \A i \in 1..n : i \in DOMAIN dd.objs
  BY <1>2, <1>3
<1>8. ASSUME NEW i \in 1..n
      PROVE  /\ TabSet(dd.objs[i]) \cap ExpSet(dd.objs[i]) = {}
             /\ \A v \in TabSet(dd.objs[i]) \cup ExpSet(dd.objs[i]) : v \in Nat /\ v < dd.tabbase
             /\ \A j \in 1..n : i < j =>
                  (TabSet(dd.objs[i]) \cup ExpSet(dd.objs[i]))
                    \cap (TabSet(dd.objs[j]) \cup ExpSet(dd.objs[j])) = {}
  BY <1>7, TabSetsAre
<1>9. ASSUME NEW i \in 1..n, NEW j \in 1..n, i # j
      PROVE  (TabSet(dd.objs[i]) \cup ExpSet(dd.objs[i]))
               \cap (TabSet(dd.objs[j]) \cup ExpSet(dd.objs[j])) = {}
  <2>1. i < j \/ j < i
    BY <1>9
  <2> QED BY <1>8, <2>1
<1>10. ApartSets(s)
  <2> SUFFICES ASSUME NEW x \in DOMAIN s, NEW y \in DOMAIN s, x # y
               PROVE  s[x] \cap s[y] = {}
    BY DEF ApartSets
  <2>1. CASE \E i, j \in 1..n : i # j /\ s[x] \subseteq TabSet(dd.objs[i]) \cup ExpSet(dd.objs[i])
                                     /\ s[y] \subseteq TabSet(dd.objs[j]) \cup ExpSet(dd.objs[j])
    BY <1>9, <2>1
  <2>2. CASE \E i \in 1..n : \/ s[x] = TabSet(dd.objs[i]) /\ s[y] = ExpSet(dd.objs[i])
                             \/ s[y] = TabSet(dd.objs[i]) /\ s[x] = ExpSet(dd.objs[i])
    BY <1>8, <2>2
  <2>3. PICK i \in 1..n : \/ x = i /\ s[x] = TabSet(dd.objs[i])
                          \/ x = n + i /\ s[x] = ExpSet(dd.objs[i])
    BY <1>6
  <2>4. PICK j \in 1..n : \/ y = j /\ s[y] = TabSet(dd.objs[j])
                          \/ y = n + j /\ s[y] = ExpSet(dd.objs[j])
    BY <1>6
  <2>5. CASE i # j
    BY <2>1, <2>3, <2>4, <2>5
  <2>6. CASE i = j
    BY <2>2, <2>3, <2>4, <2>6
  <2> QED BY <2>5, <2>6
<1>11. UNION Range(s) \subseteq Area(0, Len(dd.table))
  <2> SUFFICES ASSUME NEW x \in DOMAIN s, NEW v \in s[x]
               PROVE  v \in Area(0, Len(dd.table))
    BY DEF Range
  <2>1. PICK i \in 1..n : v \in TabSet(dd.objs[i]) \cup ExpSet(dd.objs[i])
    BY <1>6
  <2>2. v \in Nat /\ v < dd.tabbase
    BY <1>8, <2>1
  <2>3. PICK z \in Nat : z = dd.tabbase
    BY <1>2
  <2>4. v \in 0..(0 + z - 1)
    BY <2>2, <2>3
  <2> QED BY <1>2, <2>3, <2>4 DEF Area
<1> QED BY <1>10, <1>11

(* The objects, the stack, the heap and what the program added are apart, in *)
(* the memory and in the table.                                              *)
THEOREM AreasDisjointHolds == Spec => []AreasDisjoint
<1>1. ASSUME Inv
      PROVE  AreasDisjoint
  <2>1. DInv(world, d)
    BY <1>1 DEF Inv
  <2>2. PICK s : s = Concat(MemAreas(d), OtherAreas(d))
    OBVIOUS
  <2>3. PICK t : t = Concat(TabAreas(d), ExpAreas(d))
    OBVIOUS
  <2>4. ApartSets(s) /\ UNION Range(s) \subseteq Area(0, d.pages * PageSize)
    BY <2>1, <2>2, MemoryApart
  <2>5. ApartSets(t) /\ UNION Range(t) \subseteq Area(0, Len(d.table))
    BY <2>1, <2>3, TableApart
  <2>6. \A o \in Range(d.objs) : o.mem % 2^o.file.align = 0
    BY <2>1 DEF DInv, Shape, ObjOk, Range
  <2>7. s = [i \in 1..Len(d.objs) |-> Area(d.objs[i].mem, d.objs[i].file.size)]
                 \o <<Area(d.stack[1], d.stack[2] - d.stack[1]),
                      Area(d.heap[1], d.heap[2] - d.heap[1]),
                      UNION {Area(p * PageSize, PageSize) : p \in d.grown}>>
    BY <2>2 DEF Concat, MemAreas, OtherAreas
  <2>8. t = [i \in 1..Len(d.objs) |-> Area(d.objs[i].tab, d.objs[i].file.tsize)]
                 \o [i \in 1..Len(d.objs) |-> Area(d.objs[i].exp, NExports(d.objs[i].file))]
    BY <2>3 DEF Concat, TabAreas, ExpAreas
  <2> QED BY ONLY <2>4, <2>5, <2>6, <2>7, <2>8 DEF AreasDisjoint, ApartSets
<1> QED BY <1>1, Invariance, PTL

=============================================================================
