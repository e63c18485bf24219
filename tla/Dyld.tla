-------------------------------- MODULE Dyld --------------------------------
(***************************************************************************)
(* The dynamic linker: libdyld/dyld.c, dyld_plt.c and the dlopen-like      *)
(* calls of dyld_dlfcn.c.                                                  *)
(*                                                                         *)
(* A file is a record of what the linker reads of a module: its dylink.0   *)
(* section, its imports and exports, whether it can be instantiated, which *)
(* init functions it has.  Symbols and library names are model strings.    *)
(* The linker loads the main module and, transitively, what it needs, then *)
(* fills the GOT of every object, then runs the init functions.  The code  *)
(* that runs there may call through the PLT, grow the memory and load more *)
(* objects, so that a load can happen in the middle of another one: the    *)
(* loads in progress are the stack "calls".                                *)
(***************************************************************************)
EXTENDS Integers, Sequences, FiniteSets, SequencesExt

CONSTANTS
    Worlds,         \* the file systems: [main |-> file, dirs |-> sequence of
                    \* functions from names to files, open |-> names the
                    \* program may load, base |-> is there a base import
                    \* object (WASI)?]
    PageShift,      \* the page size of the memory is 2^PageShift
    Space,          \* 2^32: addresses are computed modulo this
    TableMax,       \* the largest size of the function table
    StackSize,      \* dyld_options.stack_size
    BadNames,       \* names with a zero, a "/" or a ".."
    LayoutNames,    \* __heap_base, __heap_end, __stack_low, __stack_high
    BindNow,        \* values of the option bindnow
    MaxOps          \* bound on the calls the program makes

VARIABLES
    world,          \* the files and options of this execution
    d,              \* struct dyld
    calls,          \* loads in progress, the innermost one last
    ran,            \* history: init functions in the order they started
    ops             \* calls the program made

vars == <<world, d, calls, ran, ops>>

PageSize == 2^PageShift
NoFile == [valid |-> FALSE, missing |-> TRUE]

\* What is allocated at a time leaves room for its alignment, and in memory for
\* a page, in the 32 bits of an address.
Fits(sz, palign, room) == /\ sz \in Nat /\ 2^palign \in Nat \ {0}
                          /\ sz + 2^palign + room <= Space
FilesOf(w) == {w.main} \cup UNION {Range(w.dirs[i]) : i \in DOMAIN w.dirs}
\* The file of a library in a directory, and what the linker reads of a file.
WellFormed(w, f) ==
    /\ Fits(f.size, f.align, PageSize) /\ Fits(f.tsize, f.talign, 0)
    /\ ~f.pie => f.tsize > 0               \* element 0 is the null pointer
    /\ f.imports \in Seq(Range(f.imports)) /\ f.exports \in Seq(Range(f.exports))
    /\ f.needs \in Seq(Range(f.needs)) /\ Fits(Len(f.exports), 0, 0)
    /\ \A e \in Range(f.exports) : e.ix \in Nat
    /\ \A i \in DOMAIN w.dirs : Range(f.needs) \cup w.open \subseteq DOMAIN w.dirs[i]

ASSUME DyldAssumption ==
    /\ PageSize \in Nat \ {0} /\ Space \in Nat /\ Space % PageSize = 0
    /\ TableMax \in Nat /\ MaxOps \in Nat
    /\ Fits(StackSize, 0, PageSize) /\ Fits(0, 4, PageSize) /\ Fits(0, PageShift, PageSize)
    /\ \A w \in Worlds :
         /\ w.dirs \in Seq(Range(w.dirs))
         /\ \A f \in FilesOf(w) :
              \/ f = NoFile
              \/ f # NoFile /\ (f.valid /\ f.dylink => WellFormed(w, f))

Null == [o |-> 0, f |-> 0]      \* a null funcref
Unset == -1                     \* a GOT entry no symbol was resolved for

\* dyld_init.  "ids" counts objects, "data" are the names load_object made,
\* "slots" is the array dynobjs of psize elements and "gen" how often it was
\* moved, "grown" the pages the program added, "left" the objects of a load
\* that failed, "handles" what load_object returned.
EmptyDyld == [objs |-> <<>>, pie |-> FALSE, shared |-> FALSE,
              membase |-> 0, pages |-> 0, tabbase |-> 0, table |-> <<>>,
              stack |-> <<0, 0>>, heap |-> <<0, 0>>, ids |-> 0,
              data |-> <<>>, slots |-> <<>>, lsize |-> 0, gen |-> 0,
              grown |-> {}, left |-> {}, handles |-> {}, fault |-> "none",
              status |-> "new"]

-----------------------------------------------------------------------------
(* Memory and table of the program, shared by its objects.                 *)

AlignUpLog(v, palign) == (((v + 2^palign - 1) % Space) \div 2^palign) * 2^palign
\* Mutant: the last page is only counted when it is full.
HowMany_Floor(a, b) == a \div b
HowMany(a, b) == ((a + b - 1) % Space) \div b

Result(dd, at, err) == [d |-> dd, at |-> at, err |-> err]
\* The results of a call, if what comes before it did not fail
After(R, Op(_)) == {IF r.err = "ok" THEN Op(r) ELSE r : r \in R}

\* dyld_allocate_memory; an assertion that fails is the error "assert".
AllocateMemory(dd, palign, sz) ==
    LET aligned == AlignUpLog(dd.membase, palign)
        newbase == (aligned + sz) % Space
        oldnpg  == HowMany(dd.membase, PageSize)
        newnpg  == HowMany(newbase, PageSize)
        grow    == newnpg - oldnpg
    IN  IF newbase < dd.membase \/ grow < 0 THEN Result(dd, 0, "assert")
        ELSE IF grow > 0 /\ dd.pages + grow > Space \div PageSize
        THEN Result(dd, 0, "ENOMEM")
        ELSE IF grow > 0 /\ dd.pages # oldnpg THEN Result(dd, 0, "assert")
        ELSE Result([dd EXCEPT !.membase = newbase, !.pages = @ + grow], aligned, "ok")

\* dyld_allocate_table
AllocateTable(dd, palign, sz) ==
    LET aligned == AlignUpLog(dd.tabbase, palign)
        newbase == (aligned + sz) % Space
        grow    == newbase - dd.tabbase
    IN  IF grow < 0 THEN Result(dd, 0, "assert")
        ELSE IF grow > 0 /\ Len(dd.table) + grow > TableMax
        THEN Result(dd, 0, "ENOMEM")
        ELSE IF grow > 0 /\ Len(dd.table) # dd.tabbase THEN Result(dd, 0, "assert")
        ELSE Result([dd EXCEPT !.tabbase = newbase,
                               !.table = @ \o [i \in 1..grow |-> Null]], aligned, "ok")

-----------------------------------------------------------------------------
(* Objects.                                                                *)

IsGotMem(im) == im.k = "GOT.mem" /\ im.sym \notin LayoutNames
IsGot(im) == IsGotMem(im) \/ im.k = "GOT.func"
Gots(f) == {i \in DOMAIN f.imports : IsGot(f.imports[i])}
Plts(f) == {i \in DOMAIN f.imports : f.imports[i].k = "env"}
\* obj->nexports
NExports(f) == Cardinality({i \in DOMAIN f.exports : f.exports[i].k = "func"})

\* dyld_create_got, with the object it belongs to; GOT and PLT are indexed by
\* the imports they are for.  "load" is history: the first object of the load.
NewObject(id, key, name, f) ==
    [id |-> id, name |-> name, file |-> f, mem |-> 0, tab |-> 0, exp |-> 0,
     got |-> [i \in Gots(f) |-> Unset], plt |-> [i \in Plts(f) |-> Null],
     seen |-> 0, visited |-> FALSE, key |-> key,
     load |-> IF calls = <<>> THEN 1 ELSE Last(calls).start]

\* dyld_create_shared_import_objects: memory, table, stack pointer and layout
\* globals, from now on at the head of the list of import objects
CreateSharedImportObjects(dd) == [dd EXCEPT !.shared = TRUE]

\* dyld_create_shared_resources for a main module that is pie
CreateSharedResources(dd) ==
    [dd EXCEPT !.pie = TRUE, !.tabbase = 1, !.table = <<Null>>,
               !.pages = HowMany(dd.membase, PageSize)]

\* dyld_adopt_shared_resources from a main module that is not, and the import
\* objects for them
AdoptSharedResources(dd, id, f) ==
    IF ~f.adopt THEN Result(dd, 0, "ENOENT")
    ELSE Result(CreateSharedImportObjects(
                  [dd EXCEPT !.membase = f.size, !.pages = HowMany(f.size, PageSize),
                             !.tabbase = f.tsize,
                             !.table = [i \in 1..f.tsize |->
                                IF i = 1 THEN Null ELSE [o |-> id, f |-> -i]]]),
                0, "ok")

\* instance_create as the linker sees it: the element segments of an object
\* go to its area of the table before the data segments, which may trap.
InstanceCreate(dd, obj) ==
    IF obj.file.inst = "noimport" THEN Result(dd, 0, "ENOENT")
    ELSE Result([dd EXCEPT !.table =
                   [i \in DOMAIN @ |->
                      IF i - 1 \in obj.tab..(obj.tab + obj.file.tsize - 1)
                      THEN [o |-> obj.id, f |-> -i] ELSE @[i]]],
                0, IF obj.file.inst = "trap" THEN "EFAULT" ELSE "ok")

\* The areas of an object: dyld_allocate_memory_for_obj,
\* dyld_allocate_table_for_obj, dyld_allocate_table_for_obj_exports.
AllocateMemoryForObj(dd, n) ==
    LET f == dd.objs[n].file
        r == AllocateMemory(dd, f.align, f.size)
    IN  IF r.err # "ok" THEN r ELSE Result([r.d EXCEPT !.objs[n].mem = r.at], 0, "ok")
AllocateTableForObj(dd, n) ==
    LET f == dd.objs[n].file
        r == AllocateTable(dd, f.talign, f.tsize)
    IN  IF r.err # "ok" THEN r ELSE Result([r.d EXCEPT !.objs[n].tab = r.at], 0, "ok")
AllocateTableForObjExports(dd, n) ==
    LET r == AllocateTable(dd, 0, NExports(dd.objs[n].file))
    IN  IF r.err # "ok" THEN r ELSE Result([r.d EXCEPT !.objs[n].exp = r.at], 0, "ok")

\* dyld_object_destroy for the object that could not be made: its entries of
\* the table stay, and the areas it reserved.
ObjectDestroy(r) == [r EXCEPT !.d.objs = Front(@)]

\* dyld_load_object_from_file: its result, from those of its steps for the
\* object n.  The object is the last of the list while it is made.
StartObject(dd, key, name, f) ==
    [IF dd.objs = <<>> /\ f.pie THEN CreateSharedImportObjects(CreateSharedResources(dd))
     ELSE dd
     EXCEPT !.ids = @ + 1, !.objs = Append(@, NewObject(dd.ids + 1, key, name, f))]
LoadObjectFromFile(dd, key, name, f) ==
    LET n         == Len(dd.objs) + 1
        lib       == dd.objs # <<>> \/ f.pie
        Memory(r) == IF lib THEN AllocateMemoryForObj(r.d, n) ELSE r
        Table(r)  == IF lib THEN AllocateTableForObj(r.d, n) ELSE r
        Create(r) == IF ~(r.d.shared \/ world.base) THEN Result(r.d, 0, "assert")
                     ELSE InstanceCreate(r.d, r.d.objs[n])
        Adopt(r)  == IF lib THEN r ELSE AdoptSharedResources(r.d, dd.ids + 1, f)
        Exports(r) == AllocateTableForObjExports(r.d, n)
    IN  CASE f = NoFile -> {Result(dd, 0, "ENOENT")}
          [] f # NoFile /\ ~(f.valid /\ f.dylink) -> {Result(dd, 0, "EINVAL")}
          [] OTHER -> {IF r.err = "ok" THEN r ELSE ObjectDestroy(r) :
               r \in After(After(After(After(After({Result(StartObject(dd, key, name, f), 0, "ok")},
                           Memory), Table), Create), Adopt), Exports)}

\* The name of an object: a constant of the module that needs it, or the
\* element of dynobjs its load used, by way of a pointer into that array.
Fixed(n) == [fixed |-> n, slot |-> 0, gen |-> 0]
Stale == "stale"
NameOf(dd, o) ==
    LET s == dd.slots[o.name.slot]
    IN  CASE o.name.slot = 0 -> o.name.fixed
          [] o.name.slot > 0 /\ o.name.gen # dd.gen -> Stale
          [] OTHER -> IF s.data = 0 \/ ~dd.data[s.data].live THEN Stale
                      ELSE dd.data[s.data].n

\* dyld_find_object_by_name: the index of the object, 0, or Unset when a name
\* is read that is gone.  All names have one length: compare_name reads them.
FindObjectByName(dd, n) ==
    LET hits == {i \in 2..Len(dd.objs) : NameOf(dd, dd.objs[i]) \in {n, Stale}}
        i    == CHOOSE i \in hits : \A j \in hits : i <= j
    IN  IF hits = {} THEN 0
        ELSE IF NameOf(dd, dd.objs[i]) = Stale THEN Unset ELSE i

-----------------------------------------------------------------------------
(* Symbols.                                                                *)

Func(o, e) == [o |-> o.id, f |-> e.ix]

\* The export of an object that a symbol can be resolved to, if it has one: a
\* function, or the constant global with the offset of a datum.
ExportsOf(f, k, sym) == {e \in Range(f.exports) : e.sym = sym /\ e.k = k}
ExportOf(f, k, sym) == CHOOSE e \in ExportsOf(f, k, sym) : TRUE

\* dyld_register_funcinst
RegisterFuncinst(dd, o, fn) ==
    LET free == {i \in o.exp..(o.exp + NExports(o.file) - 1) :
                   dd.table[i + 1] \in {fn, Null}}
        at   == CHOOSE i \in free : \A j \in free : i <= j
    IN  IF free = {} THEN Result(dd, 0, "ok")
        ELSE Result([dd EXCEPT !.table[at + 1] = fn], at, "ok")

\* dyld_resolve_symbol_in_obj
ResolveSymbolInObj(dd, o, k, sym) ==
    LET e == ExportOf(o.file, k, sym)
    IN  IF ExportsOf(o.file, k, sym) = {} THEN Result(dd, 0, "ENOENT")
        ELSE IF k = "func" THEN RegisterFuncinst(dd, o, Func(o, e))
        ELSE Result(dd, (e.ix + o.mem) % Space, "ok")

\* The first object, in the order of the list, that has the symbol
Definers(dd, k, sym) ==
    {i \in DOMAIN dd.objs : ExportsOf(dd.objs[i].file, k, sym) # {}}
FirstDefiner(dd, k, sym) ==
    CHOOSE i \in Definers(dd, k, sym) :
      \A j \in Definers(dd, k, sym) : i <= j

\* Mutant: the referring object is searched before the others.
ResolveSymbol_SelfFirst(dd, ref, k, sym) ==
    IF ExportsOf(dd.objs[ref].file, k, sym) # {}
    THEN ResolveSymbolInObj(dd, dd.objs[ref], k, sym)
    ELSE IF Definers(dd, k, sym) # {}
    THEN ResolveSymbolInObj(dd, dd.objs[FirstDefiner(dd, k, sym)], k, sym)
    ELSE Result(dd, 0, IF sym \in dd.objs[ref].file.weak THEN "ok" ELSE "ENOENT")

\* dyld_resolve_symbol
ResolveSymbol(dd, ref, k, sym) ==
    IF Definers(dd, k, sym) # {}
    THEN ResolveSymbolInObj(dd, dd.objs[FirstDefiner(dd, k, sym)], k, sym)
    ELSE Result(dd, 0, IF sym \in dd.objs[ref].file.weak THEN "ok" ELSE "ENOENT")

SymType(im) == IF im.k = "GOT.mem" THEN "data" ELSE "func"

\* Mutant: a symbol nobody has is passed over.
ResolveGotSymbol_SkipMissing(dd, ref, i) ==
    LET im == dd.objs[ref].file.imports[i]
        s  == ResolveSymbol(dd, ref, SymType(im), im.sym)
    IN  IF s.err # "ok" THEN Result(dd, 0, "ok")
        ELSE Result([s.d EXCEPT !.objs[ref].got[i] = s.at,
                                !.objs[ref].seen = Len(s.d.objs)], 0, "ok")

\* The body of the loop of dyld_resolve_got_symbols, which stops at the first
\* symbol nobody has.  "seen" is history: the objects there were.
ResolveGotSymbol(dd, ref, i) ==
    LET im == dd.objs[ref].file.imports[i]
        s  == ResolveSymbol(dd, ref, SymType(im), im.sym)
    IN  IF s.err # "ok" THEN s
        ELSE Result([s.d EXCEPT !.objs[ref].got[i] = s.at,
                                !.objs[ref].seen = Len(s.d.objs)], 0, "ok")

\* table_get_func: a null entry and another type are a trap
FuncType(dd, fn) ==
    LET o == CHOOSE o \in Range(dd.objs) : o.id = fn.o
    IN  (CHOOSE e \in Range(o.file.exports) : e.k = "func" /\ e.ix = fn.f).ft

\* dyld_resolve_plt
ResolvePlt(dd, ref, i) ==
    LET im == dd.objs[ref].file.imports[i]
        s  == ResolveSymbol(dd, ref, "func", im.sym)
        fn == s.d.table[s.at + 1]
    IN  IF s.err # "ok" THEN s
        ELSE IF fn = Null THEN Result(s.d, 0, "EFAULT")
        ELSE IF FuncType(s.d, fn) # im.ft THEN Result(s.d, 0, "EFAULT")
        ELSE Result([s.d EXCEPT !.objs[ref].plt[i] = fn], 0, "ok")

\* The body of the loop of dyld_resolve_plt_symbols: what is weak may stay
\* unresolved
ResolvePltSymbol(dd, ref, i) ==
    LET f == dd.objs[ref].file
        s == ResolvePlt(dd, ref, i)
    IN  IF s.err # "ok" /\ f.imports[i].sym \in f.weak
        THEN Result(s.d, 0, "ok") ELSE s

-----------------------------------------------------------------------------
(* Steps of a load.                                                        *)

\* A load in progress: its first object, where it is ("at" an object, "k" an
\* element of what it has, "dir" a directory), the list of tsort_visit and the
\* calls of it, the element of dynobjs and the name of load_object, and the
\* objects whose code is entered.
Frame(ph, start, name, slot, data, gen) ==
    [ph |-> ph, start |-> start, at |-> start, k |-> 1, dir |-> 1,
     path |-> <<>>, list |-> <<>>, name |-> name, slot |-> slot, data |-> data,
     gen |-> gen, run |-> FALSE, entered |-> {}]

Top == Last(calls)
In(ph) == /\ d.fault = "none" /\ calls # <<>>
          /\ Top.ph = ph /\ ~Top.run
Goto(fr, ph) == [fr EXCEPT !.ph = ph, !.at = fr.start, !.k = 1]
NextObject(fr) == [fr EXCEPT !.at = @ + 1, !.k = 1]
SetTop(fr) == calls' = [calls EXCEPT ![Len(calls)] = fr]
Die(dd, why) == d' = [dd EXCEPT !.fault = why] /\ calls' = calls

\* dyld_clear: frees, among others, the names in dynobjs
DyldClear(dd, status) ==
    /\ calls' = <<>>
    /\ d' = IF \E i \in 1..dd.lsize :
                 \/ i > Len(dd.slots) \/ dd.slots[i].data = 0
                 \/ ~dd.data[dd.slots[i].data].live
            THEN [dd EXCEPT !.fault = "stale"]
            ELSE [EmptyDyld EXCEPT !.status = status]

\* A load that fails: dyld_load and its caller clear everything, load_object
\* frees the name ("TODO: implement cleanup") and returns to the program.
Abandon(dd) ==
    IF Top.slot = 0 THEN DyldClear(dd, "failed")
    ELSE /\ d' = [dd EXCEPT !.data[Top.data].live = FALSE,
                            !.left = @ \cup (Top.start..Len(dd.objs))]
         /\ calls' = Front(calls)

Outcome(r, fr) ==
    CASE r.err = "ok" -> d' = r.d /\ SetTop(fr)
      [] r.err \in {"assert", "stale"} -> Die(r.d, r.err)
      [] OTHER -> Abandon(r.d)

\* dyld_load, up to the main object
DyldLoad ==
    /\ d.status = "new" /\ d.fault = "none"
    /\ \E r \in LoadObjectFromFile([d EXCEPT !.status = "loading"], "<main>",
                                    Fixed("<main>"), world.main) :
           CASE r.err = "ok" -> d' = r.d /\ calls' = <<Frame("needed", 1, "main", 0, 0, 0)>>
             [] r.err = "assert" -> Die(r.d, r.err)
             [] OTHER -> DyldClear(r.d, "failed")
    /\ UNCHANGED <<world, ran, ops>>

\* Mutant: the loop goes on without its increment.
NextItem_Stay(fr) == [fr EXCEPT !.dir = 1]
NextItem(fr) == [fr EXCEPT !.k = @ + 1, !.dir = 1]

\* One turn of dyld_search_and_load_object_from_file: ENOENT, whatever it is
\* about, goes on to the next directory.
SearchAndLoadObject(key, name, done) ==
    LET dir == Top.dir
        err == CASE key \in BadNames -> "EPERM"
                 [] key \notin BadNames /\ dir > Len(world.dirs) -> "ENOENT"
                 [] OTHER -> "ok"
    IN  IF err # "ok" THEN Outcome(Result(d, 0, err), done)
        ELSE \E r \in LoadObjectFromFile(d, key, name, world.dirs[dir][key]) :
               IF r.err = "ENOENT" THEN d' = r.d /\ SetTop([Top EXCEPT !.dir = @ + 1])
               ELSE Outcome(r, done)

\* The object that load_object asks for
OpenObject ==
    /\ In("open")
    /\ SearchAndLoadObject(Top.name, [fixed |-> "none", slot |-> Top.slot, gen |-> Top.gen],
                           [Top EXCEPT !.ph = "needed", !.dir = 1])
    /\ UNCHANGED <<world, ran, ops>>

\* One turn of dyld_load_needed_objects, over a list that it makes longer
LoadNeeded ==
    /\ In("needed")
    /\ LET fr    == Top
           needs == d.objs[fr.at].file.needs
           n     == needs[fr.k]
           found == FindObjectByName(d, n)
       IN  CASE fr.at > Len(d.objs) -> d' = d /\ SetTop(Goto(fr, "got"))
             [] fr.at <= Len(d.objs) /\ fr.k > Len(needs)
                  -> d' = d /\ SetTop(NextObject(fr))
             [] OTHER ->
                  CASE found > 0 -> d' = d /\ SetTop(NextItem(fr))
                    [] found = Unset -> Die(d, "stale")
                    [] OTHER -> SearchAndLoadObject(n, Fixed(n), NextItem(fr))
    /\ UNCHANGED <<world, ran, ops>>

\* One turn of dyld_resolve_all_got_symbols
ResolveAllGot ==
    /\ In("got")
    /\ LET fr == Top
           f  == d.objs[fr.at].file
       IN  CASE fr.at > Len(d.objs) ->
                  /\ d' = d
                  /\ SetTop(Goto(fr, CASE fr.slot # 0 -> "init"
                                       [] fr.slot = 0 /\ world.bindnow -> "plt"
                                       [] OTHER -> "layout"))
             [] fr.at <= Len(d.objs) /\ fr.k > Len(f.imports)
                  -> d' = d /\ SetTop(NextObject(fr))
             [] OTHER -> IF fr.k \in Gots(f)
                         THEN \E r \in {ResolveGotSymbol(d, fr.at, fr.k)} : Outcome(r, NextItem(fr))
                         ELSE d' = d /\ SetTop(NextItem(fr))
    /\ UNCHANGED <<world, ran, ops>>

\* One turn of dyld_resolve_all_plt_symbols
ResolveAllPlt ==
    /\ In("plt")
    /\ LET fr == Top
           f  == d.objs[fr.at].file
       IN  CASE fr.at > Len(d.objs) -> d' = d /\ SetTop(Goto(fr, "layout"))
             [] fr.at <= Len(d.objs) /\ fr.k > Len(f.imports)
                  -> d' = d /\ SetTop(NextObject(fr))
             [] OTHER -> IF fr.k \in Plts(f)
                         THEN \E r \in {ResolvePltSymbol(d, fr.at, fr.k)} : Outcome(r, NextItem(fr))
                         ELSE d' = d /\ SetTop(NextItem(fr))
    /\ UNCHANGED <<world, ran, ops>>

\* dyld_allocate_stack and dyld_allocate_heap: the stack ends at 16 bytes, the
\* heap at the page.
AllocateStackAndHeap(dd) ==
    LET Alloc(r, palign, sz) == AllocateMemory(r.d, palign, sz)
        Low(r)  == Alloc(r, 0, StackSize)
        High(r) == Alloc([r EXCEPT !.d.stack = <<r.at, r.at>>], 4, 0)
        Base(r) == Alloc([r EXCEPT !.d.stack = <<@[1], r.at>>], 0, 0)
        End(r)  == Alloc([r EXCEPT !.d.heap = <<r.at, r.at>>], PageShift, 0)
        Set(r)  == [r EXCEPT !.d.heap = <<@[1], r.at>>]
    IN  After(After(After(After(After({Result(dd, 0, "ok")}, Low), High), Base), End), Set)

\* The end of dyld_load; a main module that is not pie has its own stack
Layout ==
    /\ In("layout")
    /\ \E r \in IF d.pie THEN AllocateStackAndHeap(d) ELSE {Result(d, 0, "ok")} :
         Outcome(r, Goto(Top, "init"))
    /\ UNCHANGED <<world, ran, ops>>

-----------------------------------------------------------------------------
(* Init functions, and the code they run.                                  *)

\* The begin of dyld_execute_all_init_funcs, with its assertion
ExecuteInitFuncs ==
    /\ In("init")
    /\ IF \E i \in Top.start..Len(d.objs) : d.objs[i].visited THEN Die(d, "assert")
       ELSE d' = d /\ SetTop(Goto(Top, "sort"))
    /\ UNCHANGED <<world, ran, ops>>

Node(i) == [obj |-> i, k |-> 1]
\* Mutant: what is needed waits until the others have been visited.
TsortEnter_Queue(fr, i) == [fr EXCEPT !.path = <<Node(i)>> \o @]
\* tsort_visit is called for an object that is not visited yet.
TsortEnter(fr, i) == [fr EXCEPT !.path = Append(@, Node(i))]
\* ... and returns, with the object at the end of the list
TsortLeave(fr) == [fr EXCEPT !.path = Front(@), !.list = Append(@, Last(fr.path).obj)]

\* One turn of the loop of tsort_visit, or of the loop that calls it; "path"
\* are the calls of it that have not returned.  The assertion in it is about
\* the result of the search for the needed object.
Tsort ==
    /\ In("sort")
    /\ LET fr    == Top
           top   == Last(fr.path)
           needs == d.objs[top.obj].file.needs
           Visit(g, i) ==
             IF d.objs[i].visited THEN d' = d /\ SetTop(g)
             ELSE d' = [d EXCEPT !.objs[i].visited = TRUE] /\ SetTop(TsortEnter(g, i))
           j     == FindObjectByName(d, needs[top.k])
           next  == [fr EXCEPT !.path[Len(fr.path)].k = @ + 1]
       IN  CASE fr.path = <<>> /\ fr.at > Len(d.objs)
                  -> d' = d /\ SetTop([fr EXCEPT !.ph = "reloc", !.at = 1])
             [] fr.path = <<>> /\ fr.at <= Len(d.objs)
                  -> Visit([fr EXCEPT !.at = @ + 1], fr.at)
             [] fr.path # <<>> /\ top.k > Len(needs) -> d' = d /\ SetTop(TsortLeave(fr))
             [] OTHER -> CASE j > 0 -> Visit(next, j)
                           [] j = 0 -> Die(d, "assert")
                           [] OTHER -> Die(d, "stale")
    /\ UNCHANGED <<world, ran, ops>>

\* dyld_execute_obj_init_func for __wasm_apply_data_relocs, which calls nothing
ExecuteReloc ==
    /\ In("reloc")
    /\ LET i == Top.list[Top.at]
           f == d.objs[i].file
       IN  CASE Top.at > Len(Top.list) ->
                  /\ d' = d /\ ran' = ran
                  /\ SetTop([Top EXCEPT !.ph = "ctor", !.at = 1])
             [] OTHER ->
                  /\ Outcome(Result(d, 0, IF f.reloc = "bad" THEN "EINVAL" ELSE "ok"),
                             [Top EXCEPT !.at = @ + 1])
                  /\ ran' = IF f.reloc = "none" THEN ran
                            ELSE Append(ran, <<"reloc", i>>)
    /\ UNCHANGED <<world, ops>>

\* ... and for _initialize or __wasm_call_ctors, which run the program's code
ExecuteCtor ==
    /\ In("ctor") /\ Top.at <= Len(Top.list)
    /\ LET i == Top.list[Top.at]
       IN  IF d.objs[i].file.ctor
           THEN /\ SetTop([Top EXCEPT !.run = TRUE, !.entered = {i}])
                /\ ran' = Append(ran, <<"ctor", i>>)
           ELSE SetTop([Top EXCEPT !.at = @ + 1]) /\ ran' = ran
    /\ UNCHANGED <<world, d, ops>>

\* After the last one the main program starts, or load_object returns: it
\* writes to the element of dynobjs it found when it was called.
LoadEnd ==
    /\ In("ctor") /\ Top.at > Len(Top.list)
    /\ CASE Top.slot = 0 ->
              /\ d' = d
              /\ SetTop([Top EXCEPT !.ph = "main", !.run = TRUE, !.entered = {1}])
         [] Top.slot # 0 /\ Top.gen # d.gen -> Die(d, "stale")
         [] OTHER -> /\ d' = [d EXCEPT !.slots[Top.slot].obj = Top.start,
                                       !.lsize = @ + 1,
                                       !.handles = @ \cup {<<Top.slot, Top.start>>}]
                     /\ calls' = Front(calls)
    /\ UNCHANGED <<world, ran, ops>>

Running == d.fault = "none" /\ calls # <<>> /\ Top.run
ProgramStep == Running /\ ops < MaxOps /\ ops' = ops + 1

\* The code returns to the linker; the end of main is the end of everything.
ReturnFromCode ==
    /\ Running
    /\ IF Top.ph = "main" THEN DyldClear(d, "done")
       ELSE d' = d /\ SetTop([Top EXCEPT !.run = FALSE, !.entered = {}, !.at = @ + 1])
    /\ UNCHANGED <<world, ran, ops>>

\* dyld_plt: a call of an import of env, resolved when it is first made
CallPlt ==
    /\ ProgramStep
    /\ \E o \in Top.entered : \E i \in DOMAIN d.objs[o].plt :
         \E r \in {IF d.objs[o].plt[i] # Null THEN Result(d, 0, "ok")
                  ELSE ResolvePlt(d, o, i)} :
           LET to == CHOOSE j \in DOMAIN r.d.objs :
                       r.d.objs[j].id = r.d.objs[o].plt[i].o
           IN  Outcome(r, [Top EXCEPT !.entered = @ \cup {to}])
    /\ UNCHANGED <<world, ran>>

\* memory.grow of one page by the program, for its heap
MemoryGrow ==
    /\ ProgramStep
    /\ d.pages < Space \div PageSize
    /\ d' = [d EXCEPT !.pages = @ + 1, !.grown = @ \cup {d.pages}]
    /\ UNCHANGED <<world, calls, ran>>

\* dyld_dlfcn_load_object up to the object itself: the array dynobjs grows,
\* and may move, when its next element is not there yet.
LoadObject(n, moved) ==
    /\ ProgramStep
    /\ LET slot == d.lsize + 1
           more == slot > Len(d.slots)
           data == Len(d.data) + 1
           gen  == IF more /\ moved THEN d.gen + 1 ELSE d.gen
           all  == d.slots \o [i \in 1..(slot - Len(d.slots)) |->
                                 [data |-> 0, obj |-> 0]]
           dd   == [d EXCEPT !.slots = [(IF more THEN all ELSE @) EXCEPT ![slot] =
                                          [data |-> data, obj |-> 0]],
                             !.gen = gen,
                             !.data = Append(@, [n |-> n, live |-> TRUE])]
       IN  /\ moved => more
           /\ d' = dd
           /\ calls' = Append(calls, Frame("open", Len(d.objs) + 1, n, slot, data, gen))
    /\ UNCHANGED <<world, ran>>

\* dyld_dlfcn_resolve_symbol, and a call of the function it gives
DlResolveSymbol(h, k, sym) ==
    /\ ProgramStep
    /\ h <= d.lsize
    /\ LET obj == d.slots[h].obj
           r   == ResolveSymbolInObj(d, d.objs[obj], k, sym)
       IN  IF h > Len(d.slots) \/ obj = 0 THEN Die(d, "stale")
           ELSE /\ r.err = "ok"
                /\ d' = r.d
                /\ SetTop([Top EXCEPT !.entered = @ \cup
                             (IF k = "func" THEN {obj} ELSE {})])
    /\ UNCHANGED <<world, ran>>

-----------------------------------------------------------------------------
Symbols == UNION {{im.sym : im \in Range(o.file.imports)} : o \in Range(d.objs)}

Init ==
    /\ \E w \in Worlds, b \in BindNow :
         world = [main |-> w.main, dirs |-> w.dirs, open |-> w.open,
                  base |-> w.base, bindnow |-> b]
    /\ d = EmptyDyld /\ calls = <<>> /\ ran = <<>> /\ ops = 0

LinkerStep ==
    \/ DyldLoad \/ OpenObject \/ LoadNeeded \/ ResolveAllGot \/ ResolveAllPlt
    \/ Layout \/ ExecuteInitFuncs \/ Tsort \/ ExecuteReloc \/ ExecuteCtor \/ LoadEnd

Next ==
    \/ LinkerStep \/ ReturnFromCode \/ CallPlt \/ MemoryGrow
    \/ \E n \in world.open, moved \in BOOLEAN : LoadObject(n, moved)
    \/ \E h \in 1..MaxOps, k \in {"func", "data"}, sym \in Symbols :
         DlResolveSymbol(h, k, sym)

\* The linker is a function its caller waits for: it runs on.
Spec == Init /\ [][Next]_vars /\ WF_vars(LinkerStep)

-----------------------------------------------------------------------------
(* Properties.                                                             *)

Linked(o) == \A i \in DOMAIN o.got : o.got[i] # Unset

\* Where a symbol is, as a value of the GOT: no function of another object
\* gets in the way, and the table entry holds the function.
GotIsFor(dd, o, i) ==
    LET im  == o.file.imports[i]
        def == {j \in Definers(dd, SymType(im), im.sym) : j <= o.seen}
        p   == dd.objs[CHOOSE j \in def : \A j2 \in def : j <= j2]
        e   == ExportOf(p.file, SymType(im), im.sym)
    IN  IF def = {} THEN im.sym \in o.file.weak /\ o.got[i] = 0
        ELSE IF SymType(im) = "data" THEN o.got[i] = (e.ix + p.mem) % Space
        ELSE dd.table[o.got[i] + 1] = Func(p, e)

\* The function that a PLT entry was bound to
PltIsFor(dd, o, i) ==
    LET sym == o.file.imports[i].sym
        p   == dd.objs[FirstDefiner(dd, "func", sym)]
    IN  /\ Definers(dd, "func", sym) # {}
        /\ o.plt[i] = Func(p, ExportOf(p.file, "func", sym))

Area(from, size) == from..(from + size - 1)

\* A function has at most one entry among those made for exports, so that
\* pointers to it compare equal in every object (the note in
\* dyld_register_funcinst), and the entry is in the area of its object.
OneEntryPerFunction ==
    \A o \in Range(d.objs) :
      LET mine == Area(o.exp, NExports(o.file))
      IN  \A a \in mine :
            /\ d.table[a + 1] # Null => d.table[a + 1].o = o.id
            /\ \A b \in mine \ {a} :
                 d.table[a + 1] = d.table[b + 1] => d.table[a + 1] = Null

\* Every reference of every object, by its GOT or by its PLT, bound early or
\* late, before or after more objects were loaded, goes to the first object
\* of the load order that defines the symbol (dyld_resolve_symbol): all
\* objects agree on what a symbol is, and on the address of a function.
BindingsAgree ==
  /\ OneEntryPerFunction
  /\ \A o \in Range(d.objs) :
      /\ \A i \in DOMAIN o.got : o.got[i] # Unset => GotIsFor(d, o, i)
      /\ \A i \in DOMAIN o.plt : o.plt[i] # Null => PltIsFor(d, o, i)

\* No code of an object runs before its GOT is complete, whichever way the
\* code is entered (dyld_resolve_dependencies comes before the init functions
\* of every load).  The objects a failed load_object leaves in the list, for
\* want of a cleanup, are the only exception.
CodeRunsLinked ==
    \A c \in Range(calls) : \A i \in c.entered :
      Linked(d.objs[i]) \/ i \in d.left

\* The objects that are called what i needs, and what it needs by way of
\* others; the names of objects that a failed load left may have changed.
Needed(dd, i) ==
    {j \in 2..Len(dd.objs) : Contains(dd.objs[i].file.needs, dd.objs[j].key)}
Closed(dd, S) == \A x \in S : Needed(dd, x) \cup dd.left \subseteq S
Needs(dd, i) ==
    {j \in DOMAIN dd.objs : \A S \in SUBSET DOMAIN dd.objs :
       Needed(dd, i) \cup dd.left \subseteq S /\ Closed(dd, S) => j \in S}

\* Init functions run once, whatever was loaded in the middle of them; the
\* relocations of an object come before its constructors, and the
\* constructors of what it needs of the same load before its own, unless that
\* needs the object (dyld_execute_all_init_funcs).  By way of a cycle an
\* object may need one whose constructors run after its own, and so may one
\* that a constructor loads, of the load that is going on.
InitOrder ==
    \A p \in DOMAIN ran :
      LET i == ran[p][2] IN
      /\ \A q \in DOMAIN ran : ran[q] = ran[p] => q = p
      /\ ran[p][1] = "ctor" /\ d.objs # <<>> =>
           /\ d.objs[i].file.reloc # "none" => \E q \in 1..p : ran[q] = <<"reloc", i>>
           /\ \A j \in Needed(d, i) \ (d.left \cup {i}) :
                d.objs[j].load = d.objs[i].load /\ d.objs[j].file.ctor =>
                  (\E q \in 1..p : ran[q] = <<"ctor", j>>) \/ i \in Needs(d, j)

\* The memory of the objects, the stack, the heap and what the program added
\* with memory.grow are apart from each other and inside of the memory, and
\* so are the areas of the table (dyld_allocate_memory, dyld_allocate_table).
AreasDisjoint ==
    LET n     == Len(d.objs)
        areas == [i \in 1..n |-> Area(d.objs[i].mem, d.objs[i].file.size)]
                 \o <<Area(d.stack[1], d.stack[2] - d.stack[1]),
                      Area(d.heap[1], d.heap[2] - d.heap[1]),
                      UNION {Area(p * PageSize, PageSize) : p \in d.grown}>>
        tabs  == [i \in 1..n |-> Area(d.objs[i].tab, d.objs[i].file.tsize)]
                 \o [i \in 1..n |-> Area(d.objs[i].exp, NExports(d.objs[i].file))]
        Apart(s) == \A i, j \in DOMAIN s : i # j => s[i] \cap s[j] = {}
    IN  /\ Apart(areas) /\ UNION Range(areas) \subseteq Area(0, d.pages * PageSize)
        /\ Apart(tabs) /\ UNION Range(tabs) \subseteq Area(0, Len(d.table))
        /\ \A o \in Range(d.objs) : o.mem % 2^o.file.align = 0

\* A load comes to its end, with objects that need each other or themselves:
\* the code of the program runs, or the load has failed.
Loading == d.status = "loading" /\ ~Running /\ d.fault = "none"
LoadEnds == Loading ~> ~Loading

\* The assertions about the size of the memory and the needed objects hold.
NoAssertionFails == d.fault # "assert"
=============================================================================
