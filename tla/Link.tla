-------------------------------- MODULE Link --------------------------------
(***************************************************************************)
(* Instances, import objects and the command line: lib/instance.c,         *)
(* lib/import_object.c, lib/shared_memory.c, lib/dummy_host_func.c and     *)
(* cli/repl.c with the options of cli/main.c.                              *)
(*                                                                         *)
(* Modules are loaded, their exports registered under a name, later        *)
(* modules import them, functions are invoked, and a reset destroys it     *)
(* all.  None of the pointers between these structures is counted: an      *)
(* instance points to functions, tables, memories and globals of others,   *)
(* an import object to those of an instance and to names in its module, a  *)
(* table to functions of anybody, WASI to the memory of the last module.   *)
(* The order of the commands and of the steps of a load that fails decide  *)
(* whether they are valid.                                                 *)
(*                                                                         *)
(* An object is <<kind, owner, index>>; the owner of what a load creates   *)
(* is the number of that load, 0 is WASI.  The world w is what a command   *)
(* reads and writes; w.err is its return value.                            *)
(***************************************************************************)
EXTENDS Integers, Sequences, FiniteSets, SequencesExt

CONSTANTS
    Modules,        \* the files: a function from file names to contents
    Names,          \* names the user gives to modules, integers
    RegNames,       \* names modules are registered under, integers
    WasiName,       \* wasi_snapshot_preview1
    ThreadsName,    \* the module name of wasi-threads
    MemoryName,     \* "memory", the name cconv_memory looks for
    StartName,      \* "_start"
    SharedFlag,     \* MEMTYPE_FLAG_SHARED
    Unlimited,      \* UINT32_MAX as a maximum
    Options,        \* command line options an execution may be given
    Fuel,           \* exec_options.max_frames
    Failures,       \* the steps of a load that may run out of memory
    MaxLoads, MaxOps

VARIABLES
    opts,           \* timeout, unresolved, wasi
    phase,          \* main is in its "options", the "repl", or has "exit"ed
    w,              \* struct repl_state and the heap
    abandoned,      \* history: did a load fail after it began to initialize?
    ops

vars == <<opts, phase, w, abandoned, ops>>

ASSUME LinkAssumption ==
    /\ Fuel \in Nat /\ MaxLoads \in Nat /\ MaxOps \in Nat
    /\ \A o \in Options : o.timeout \in BOOLEAN /\ o.unresolved \in BOOLEAN

Null == <<"null", 0, 0>>
NoName == -1
Kinds == {"func", "mem", "global", "table", "tag"}
Groups == <<"func", "mem", "global", "table", "tag">>  \* order of creation

\* struct repl_module_state, cleared
NoMod == [i |-> 0, m |-> Null, name |-> NoName, inst |-> FALSE,
          extra |-> Null, dummies |-> Null]

\* toywasm_repl_state_init; mem is the memory WASI works on
EmptyWorld == [mods |-> <<>>, imports |-> Null, nreg |-> 0, wasi |-> FALSE,
               threads |-> FALSE, mem |-> Null, heap |-> <<>>, imo |-> <<>>,
               inst |-> <<>>, n |-> 0, cur |-> NoMod, fault |-> "", err |-> ""]

-----------------------------------------------------------------------------
(* The heap.                                                               *)

Fail(v, e) == [v EXCEPT !.err = e]
Fault(v, f) == [v EXCEPT !.fault = f, !.err = f]
\* "v; if (ret != 0) goto fail; Op", where x is the value of v
Then(v, Op(_)) == CHOOSE y \in {IF x.err = "" THEN Op(x) ELSE x : x \in {v}} : TRUE
\* "v; Op", whatever v returned
After(v, Op(_)) == CHOOSE y \in {IF x.fault = "" THEN Op(x) ELSE x : x \in {v}} : TRUE

Alloc(v, new) == [v EXCEPT !.heap = new @@ @]
\* mem_free of the objects of S that are not NULL
Free(v, S) ==
    LET P == S \ {Null}
    IN  IF P \subseteq DOMAIN v.heap
        THEN [v EXCEPT !.heap = Restrict(@, DOMAIN @ \ P)]
        ELSE Fault(v, "stale")

Plain(ty) == [ty |-> ty, size |-> 0, cells |-> <<>>]
Body(ty, k) == [ty |-> ty,
                size |-> IF k \in {"table", "mem"} THEN ty.min ELSE 0,
                cells |-> IF k = "table" THEN [i \in 1..ty.min |-> Null] ELSE <<>>]
NoType == [a |-> 0, min |-> 0, max |-> 0]

-----------------------------------------------------------------------------
(* Import objects.                                                         *)

Entry(mod, name, k, ref, src) ==
    [mod |-> mod, name |-> name, k |-> k, ref |-> ref, src |-> src]

\* import_object_alloc; bin is use_binary_search, own what the destructor frees
ImportObjectAlloc(v, o, entries, bin, own) ==
    [v EXCEPT !.imo = (o :> [entries |-> entries, bin |-> bin, own |-> own,
                             next |-> Null]) @@ @]

\* import_object_destroy, with the destructors of shared_memory.c,
\* dummy_host_func.c and host_instance.c
ImportObjectDestroy(v, o) ==
    IF o = Null THEN v
    ELSE IF o \notin DOMAIN v.imo THEN Fault(v, "stale")
    ELSE Free([v EXCEPT !.imo = Restrict(@, DOMAIN @ \ {o})], v.imo[o].own)

\* The list of import objects that starts at o.
RECURSIVE Chain(_, _)
Chain(v, o) == IF o \notin DOMAIN v.imo THEN <<>>
               ELSE <<o>> \o Chain(v, v.imo[o].next)

\* im->next = state->imports; state->imports = im
PushImport(v, o) == [v EXCEPT !.imo[o].next = v.imports, !.imports = o]

MatchLimits(a, b, actual) ==
    /\ actual >= b.min
    /\ b.max = Unlimited \/ (a.max # Unlimited /\ a.max <= b.max)

\* check_functype, check_tabletype, check_memtype, check_globaltype and
\* check_tagtype: may the object be imported as a "ty"?
Check(v, ref, k, ty) ==
    LET x == v.heap[ref]
    IN  x.ty.a = ty.a /\ (k \in {"table", "mem"} => MatchLimits(x.ty, ty, x.size))

NotFound == [err |-> "ENOENT", ref |-> Null]
Mismatch == [err |-> "EINVAL", ref |-> Null]
Compare(v, e, im) ==
    IF e.k = im.k /\ Check(v, e.ref, im.k, im.ty)
    THEN [err |-> "", ref |-> e.ref] ELSE Mismatch

\* The binary search of import_object_find_entry, positions left..right-1.
\* Mutant: the right half begins after the middle and the left one ends before.
RECURSIVE Bisect_OffByOne(_, _, _, _, _)
Bisect_OffByOne(v, es, im, left, right) ==
    IF left >= right THEN NotFound
    ELSE LET mid == (left + right) \div 2
             e   == es[mid + 1]
         IN  CASE e.name = im.name -> Compare(v, e, im)
               [] e.name < im.name -> Bisect_OffByOne(v, es, im, mid + 1, right)
               [] OTHER -> Bisect_OffByOne(v, es, im, left, mid - 1)
RECURSIVE Bisect(_, _, _, _, _)
Bisect(v, es, im, left, right) ==
    IF left >= right THEN NotFound
    ELSE LET mid == (left + right) \div 2
             e   == es[mid + 1]
         IN  CASE e.name = im.name -> Compare(v, e, im)
               [] e.name < im.name -> Bisect(v, es, im, mid + 1, right)
               [] OTHER -> Bisect(v, es, im, left, mid)

\* The linear search: an entry of another kind ends it, one of another type
\* does not.
Scan(v, es, im) ==
    LET hits == {i \in DOMAIN es : es[i].mod = im.mod /\ es[i].name = im.name}
        ends == {i \in hits : es[i].k # im.k \/ Compare(v, es[i], im).err = ""}
    IN  CASE hits = {} -> NotFound
          [] ends = {} -> Mismatch
          [] OTHER -> Compare(v, es[Min(ends)], im)

\* import_object_find_entry
FindEntry(v, o, im) ==
    LET es == v.imo[o].entries
    IN  IF ~v.imo[o].bin THEN Scan(v, es, im)
        ELSE IF es = <<>> \/ es[1].mod # im.mod THEN NotFound
        ELSE Bisect(v, es, im, 0, Len(es))

\* find_entry_for_import: the first import object that has a match, even if
\* one before it has an entry of the name that does not match
FindEntryForImport(v, head, im) ==
    LET c    == Chain(v, head)
        hits == {i \in DOMAIN c : FindEntry(v, c[i], im).err = ""}
    IN  IF hits = {} THEN NotFound ELSE FindEntry(v, c[Min(hits)], im)

-----------------------------------------------------------------------------
(* Instances.                                                              *)

ImportsOf(m, k) == SelectSeq(m.imports, LAMBDA im : im.k = k)
\* What the module itself defines, by kind.
Own(m, k) == CASE k = "func" -> [i \in DOMAIN m.funcs |-> m.funcs[i].ty]
               [] k = "table" -> m.tables [] k = "mem" -> m.mems
               [] k = "global" -> m.globals [] OTHER -> m.tags
\* module_find_export
FindExport(m, name, k) ==
    LET hits == {i \in DOMAIN m.exports : m.exports[i].name = name /\ m.exports[i].k = k}
    IN  IF hits = {} THEN 0 ELSE m.exports[CHOOSE i \in hits : TRUE].idx

\* resolve_imports: the imported part of the vectors of the instance
ResolveImports(v, head, m) ==
    [k \in Kinds |->
        LET ims == ImportsOf(m, k)
        IN  [i \in DOMAIN ims |-> FindEntryForImport(v, head, ims[i])]]
Resolved(r) == \A k \in Kinds : \A i \in DOMAIN r[k] : r[k][i].err = ""

\* instance_destroy: what was not created yet is NULL, what is imported is
\* not the instance's.  It reads the module for the number of imports.
InstanceDestroy(v, i) ==
    LET x == v.inst[i]
    IN  IF <<"module", i, 0>> \notin DOMAIN v.heap THEN Fault(v, "stale")
        ELSE Free([v EXCEPT !.inst = Restrict(@, DOMAIN @ \ {i})],
                  UNION {{x.vec[k][j] : j \in {j \in DOMAIN x.vec[k] :
                             j > Len(ImportsOf(x.m, k))}} : k \in Kinds})

\* instance_create_no_init for load i.  "fail" = "inst" is an allocation that
\* fails after the functions, the memories and the globals, before the tables.
InstanceCreateNoInit(v, i, m, head, fail) ==
    LET found == ResolveImports(v, head, m)
        made  == IF fail = "inst" THEN {"func", "mem", "global"} ELSE Kinds
        vec   == [k \in Kinds |->
                     [j \in DOMAIN found[k] |-> found[k][j].ref]
                     \o [j \in DOMAIN Own(m, k) |->
                            IF k \in made THEN <<k, i, j>> ELSE Null]]
        refs  == UNION {{<<k, i, j>> : j \in DOMAIN Own(m, k)} : k \in made}
        x     == Alloc([v EXCEPT !.inst = (i :> [m |-> m, vec |-> vec,
                                                 dropped |-> {}]) @@ @],
                       [r \in refs |-> Body(Own(m, r[1])[r[3]], r[1])])
    IN  CASE ~Resolved(found) -> Fail(v, "ENOENT")
          [] fail = "inst" -> Fail(InstanceDestroy(x, i), "ENOMEM")
          [] OTHER -> x

\* table_init: the segment is empty once dropped
TableInit(v, i, e, at) ==
    LET x  == v.inst[i]
        s  == x.m.elems[e]
        t  == x.vec["table"][s.table]
        fs == IF e \in x.dropped THEN <<>> ELSE s.funcs
        n  == Len(s.funcs)
    IN  IF t \notin DOMAIN v.heap THEN Fault(v, "stale")
        ELSE IF at + n > v.heap[t].size \/ Len(fs) < n THEN Fail(v, "TRAP")
        ELSE [v EXCEPT !.heap[t].cells = [j \in DOMAIN @ |->
                 IF j \in at + 1 .. at + n THEN x.vec["func"][fs[j - at]] ELSE @[j]]]

\* table_grow and memory_grow; a size that would exceed the maximum is refused
Grow(v, r, k) ==
    LET x == v.heap[r]
    IN  IF r \notin DOMAIN v.heap THEN Fault(v, "stale")
        ELSE IF x.ty.max # Unlimited /\ x.size >= x.ty.max THEN v
        ELSE [v EXCEPT !.heap[r] =
                 [x EXCEPT !.size = @ + 1,
                           !.cells = IF k = "table" THEN Append(@, Null) ELSE @]]

\* invoke and the execution of the function, as far as other instances see
\* it.  A function has one operation.  With a timeout, "late" is whether it
\* has expired when the function is interrupted.
RECURSIVE Run(_, _, _, _)
Run(v, ref, fuel, late) ==
    IF ref \notin DOMAIN v.heap THEN Fault(v, "stale")
    ELSE IF ref[1] = "host"
    THEN CASE ref[3] = 2 -> Fail(v, "TRAP")             \* proc_exit
           [] v.mem = Null -> Fail(v, "TRAP")           \* the others use
           [] v.mem \notin DOMAIN v.heap -> Fault(v, "stale")   \* the memory
           [] OTHER -> v
    ELSE IF ref[1] = "thost" THEN v
    ELSE IF ref[1] = "dummy" \/ fuel = 0 THEN Fail(v, "TRAP")
    ELSE IF late THEN Fail(v, "ETIMEDOUT")
    ELSE LET i == ref[2]
             x == v.inst[i]
             f == x.m.funcs[ref[3]]
             t == x.vec["table"][1]
             c == v.heap[t].cells
         IN  CASE f.op = "nop" -> v
               [] f.op = "trap" -> Fail(v, "TRAP")
               [] f.op = "loop" -> Fail(v, IF opts.timeout THEN "ETIMEDOUT" ELSE "LOOP")
               [] f.op = "table.grow" -> Grow(v, t, "table")
               [] f.op = "memory.grow" -> Grow(v, x.vec["mem"][1], "mem")
               [] f.op = "table.init" -> TableInit(v, i, f.arg, 0)
               [] f.op = "call" -> Run(v, x.vec["func"][f.arg], fuel - 1, late)
               [] f.op = "call_indirect" ->
                    IF f.arg > Len(c) \/ c[f.arg] = Null THEN Fail(v, "TRAP")
                    ELSE IF c[f.arg] \notin DOMAIN v.heap THEN Fault(v, "stale")
                    ELSE IF v.heap[c[f.arg]].ty # f.ty THEN Fail(v, "TRAP")
                    ELSE Run(v, c[f.arg], fuel - 1, late)

\* instance_execute_init: element segments, data segments, start function
ExecuteInit(v, i, late) ==
    LET m == v.inst[i].m
        Elem(y, e) ==
            Then(y, LAMBDA z :
                Then(IF m.elems[e].mode = "active"
                     THEN TableInit(z, i, e, m.elems[e].at) ELSE z,
                     LAMBDA u : IF m.elems[e].mode = "passive" THEN u
                                ELSE [u EXCEPT !.inst[i].dropped = @ \cup {e}]))
        Data(y, j) ==
            Then(y, LAMBDA z :
                IF m.datas[j].end > z.heap[z.inst[i].vec["mem"][m.datas[j].mem]].size
                THEN Fail(z, "TRAP") ELSE z)
    IN  Then(FoldLeftDomain(Elem, v, m.elems), LAMBDA y :
        Then(FoldLeftDomain(Data, y, m.datas), LAMBDA z :
             IF m.start = 0 THEN z
             ELSE Run(z, z.inst[i].vec["func"][m.start], Fuel, late)))

-----------------------------------------------------------------------------
(* The modules of the repl.                                                *)

\* repl_unload: the slot v.cur or a module of the list.  The memory contexts
\* of the module are cleared last: nothing of it may be left.
Unload(v, mod) ==
    After(IF mod.inst THEN InstanceDestroy(v, mod.i) ELSE v, LAMBDA a :
    After(Free(a, {mod.m}), LAMBDA b :
    After(ImportObjectDestroy(b, mod.extra), LAMBDA c :
    After(ImportObjectDestroy(c, mod.dummies), LAMBDA d :
    IF mod.i # 0 /\ \E r \in DOMAIN d.heap : r[2] = mod.i
    THEN Fault(d, "leak") ELSE d))))

\* create_satisfying_shared_memories: one memory for every shared memory the
\* module imports.  When the last one cannot be created, the one before it is
\* freed by the import object and once more by the function.
CreateSharedMemories(v, i, m, fail) ==
    LET ims == SelectSeq(m.imports, LAMBDA im : im.k = "mem" /\ im.ty.a = SharedFlag)
        o   == <<"extra", i, 0>>
        own == [j \in DOMAIN ims |-> <<"xmem", i, j>>]
    IN  IF fail = "shared"
        THEN IF Len(ims) > 1 THEN Fault(v, "double") ELSE Fail(v, "ENOMEM")
        ELSE [ImportObjectAlloc(
                 Alloc(v, [r \in {own[j] : j \in DOMAIN ims} |-> Body(ims[r[3]].ty, "mem")]),
                 o, [j \in DOMAIN ims |-> Entry(ims[j].mod, ims[j].name, "mem", own[j], v.cur.m)],
                 FALSE, {own[j] : j \in DOMAIN ims})
              EXCEPT !.cur.extra = o, !.imo[o].next = v.imports]

\* create_satisfying_functions: a function that traps for every function the
\* module imports.  mem_zalloc of no functions breaks an assertion.
CreateSatisfyingFunctions(v, i, m, fail) ==
    LET ims == ImportsOf(m, "func")
        o   == <<"dummies", i, 0>>
        own == [j \in DOMAIN ims |-> <<"dummy", i, j>>]
    IN  CASE ims = <<>> -> Fault(v, "empty")
          [] fail = "dummies" -> Fail(v, "ENOMEM")
          [] OTHER -> [ImportObjectAlloc(
                 Alloc(v, [r \in {own[j] : j \in DOMAIN ims} |-> Plain(ims[r[3]].ty)]),
                 o, [j \in DOMAIN ims |-> Entry(ims[j].mod, ims[j].name, "func", own[j], v.cur.m)],
                 FALSE, {own[j] : j \in DOMAIN ims})
              EXCEPT !.cur.dummies = o]

\* "put this at the end of the list" and take it off again; the list is the
\* one of the state, behind the shared memories of the module
Link(v, head, o) ==
    LET c == Chain(v, head)
    IN  IF c = <<>> THEN v ELSE [v EXCEPT !.imo[Last(c)].next = o]
Unlink(v, head, o) ==
    LET c == SelectSeq(Chain(v, head), LAMBDA x : x # o)
    IN  IF c = <<>> THEN v ELSE [v EXCEPT !.imo[Last(c)].next = Null]

\* Mutant: the list is only restored when the instance could be created.
Instantiate_NotOnFailure(v, i, m, fail) ==
    LET head == IF v.cur.extra # Null THEN v.cur.extra ELSE v.imports
        dum  == v.cur.dummies
    IN  IF dum = Null THEN InstanceCreateNoInit(v, i, m, head, fail)
        ELSE Then(InstanceCreateNoInit(Link(v, head, dum), i, m,
                                       IF head = Null THEN dum ELSE head, fail),
                  LAMBDA y : Unlink(y, head, dum))
Instantiate(v, i, m, fail) ==
    LET head == IF v.cur.extra # Null THEN v.cur.extra ELSE v.imports
        dum  == v.cur.dummies
    IN  IF dum = Null THEN InstanceCreateNoInit(v, i, m, head, fail)
        ELSE After(InstanceCreateNoInit(Link(v, head, dum), i, m,
                                        IF head = Null THEN dum ELSE head, fail),
                   LAMBDA y : Unlink(y, head, dum))

\* set_memory of cconv_memory: WASI works on the memory this module exports
SetMemory(v, i) ==
    LET j == FindExport(v.inst[i].m, MemoryName, "mem")
    IN  IF ~v.wasi THEN v
        ELSE [v EXCEPT !.mem = IF j = 0 THEN Null ELSE v.inst[i].vec["mem"][j]]

\* repl_exec_init
\* Mutant: a trap is an error in the repl too.
ExecInit_TrapFails(v, i, trapOk, late) == ExecuteInit(v, i, late /\ opts.timeout)
ExecInit(v, i, trapOk, late) ==
    LET y == ExecuteInit(v, i, late /\ opts.timeout)
    IN  IF y.err = "TRAP" /\ trapOk THEN Fail(y, "") ELSE y

\* repl_load_from_buf, before and after the instance exists
LoadModule(v, i, m, fail) ==
    IF fail \in {"buf", "module"} THEN Fail(v, "ENOMEM")
    ELSE Then([Alloc(v, <<"module", i, 0>> :> Plain(NoType))
               EXCEPT !.cur = [NoMod EXCEPT !.i = i, !.m = <<"module", i, 0>>]],
         LAMBDA a :
         Then(IF a.threads THEN CreateSharedMemories(a, i, m, fail) ELSE a, LAMBDA b :
         Then(IF opts.unresolved THEN CreateSatisfyingFunctions(b, i, m, fail) ELSE b,
              LAMBDA c : Then(Instantiate(c, i, m, fail),
              LAMBDA e : [e EXCEPT !.cur.inst = TRUE]))))
InitModule(v, i, name, trapOk, fail, late) ==
    Then(ExecInit(SetMemory(v, i), i, trapOk, late), LAMBDA a :
         IF fail = "name" /\ name # NoName THEN Fail(a, "ENOMEM")
         ELSE [a EXCEPT !.cur.name = name])

\* toywasm_repl_load and toywasm_repl_load_hex, which differ in where the
\* bytes come from.  The number of a load that left no trace is used again.
LoadFile(v, file, name, trapOk, fail, late) ==
    LET i == v.n + 1
        m == Modules[file]
        a == LoadModule(v, i, m, fail)
        b == Then(a, LAMBDA x : InitModule(x, i, name, trapOk, fail, late))
    IN  IF b.fault # "" THEN b
        ELSE IF b.err # ""
        THEN [Unload(b, b.cur) EXCEPT !.cur = NoMod,
                                      !.n = IF a.err = "" THEN i ELSE @]
        ELSE [b EXCEPT !.mods = Append(@, b.cur), !.cur = NoMod, !.n = i]

\* find_mod_u: the last module, or the first one of that name
FindMod(v, name) ==
    LET hits == {j \in DOMAIN v.mods : v.mods[j].name = name}
    IN  CASE v.mods = <<>> -> 0
          [] name = NoName -> Len(v.mods)
          [] hits = {} -> 0
          [] OTHER -> Min(hits)

\* import_object_create_for_exports, whose entries point into the instance
\* and into the module
ExportEntries(v, i, rname) ==
    LET x == v.inst[i]
    IN  [j \in DOMAIN x.m.exports |->
            LET e == x.m.exports[j]
            IN  Entry(rname, e.name, e.k, x.vec[e.k][e.idx], <<"module", i, 0>>)]

\* toywasm_repl_register
RegisterMod(v, name, rname, fail) ==
    LET j == FindMod(v, name)
        o == <<"reg", v.nreg + 1, 0>>
    IN  CASE j = 0 -> Fail(v, "ENOENT")
          [] j # 0 /\ fail -> Fail(v, "ENOMEM")
          [] OTHER -> PushImport([ImportObjectAlloc(v, o,
                          ExportEntries(v, v.mods[j].i, rname), TRUE, {})
                          EXCEPT !.nreg = @ + 1], o)

\* toywasm_repl_invoke
InvokeMod(v, name, fname, late) ==
    LET j == FindMod(v, name)
        x == v.inst[v.mods[j].i]
        f == FindExport(x.m, fname, "func")
    IN  IF j = 0 THEN Fail(v, "EPROTO")
        ELSE IF f = 0 THEN Fail(v, "ENOENT")
        ELSE Run(v, x.vec["func"][f], Fuel, late /\ opts.timeout)

-----------------------------------------------------------------------------
(* WASI, and the end.                                                      *)

HostFuncs == {<<"host", 0, 1>>, <<"host", 0, 2>>}
ThreadsFuncs == {<<"thost", 0, 1>>}

\* import_object_create_for_host_funcs: a linear list of host functions
HostImports(v, o, mod, funcs) ==
    PushImport(ImportObjectAlloc(
        Alloc(v, [r \in funcs |-> Plain([NoType EXCEPT !.a = 1])]), o,
        [j \in 1..Cardinality(funcs) |->
            LET r == CHOOSE r \in funcs : r[3] = j IN Entry(mod, j, "func", r, Null)],
        FALSE, funcs), o)

PopImport(v) == ImportObjectDestroy([v EXCEPT !.imports = v.imo[v.imports].next], v.imports)
WasiDestroy(v) == [Free(v, {<<"wasi", 0, 0>>}) EXCEPT !.wasi = FALSE, !.mem = Null]
ThreadsDestroy(v) == [Free(v, {<<"threads", 0, 0>>}) EXCEPT !.threads = FALSE]

\* toywasm_repl_load_wasi, with its undo labels from the last to the first
\* Mutant: the import object stays when wasi-threads cannot be created.
LoadWasi_NoUndo(v, fail) ==
    LET a == [Alloc(v, <<"wasi", 0, 0>> :> Plain(NoType)) EXCEPT !.wasi = TRUE]
        b == HostImports(a, <<"iwasi", 0, 0>>, WasiName, HostFuncs)
        c == [Alloc(b, <<"threads", 0, 0>> :> Plain(NoType)) EXCEPT !.threads = TRUE]
    IN  CASE v.wasi -> Fail(v, "EPROTO")
          [] fail = "wasi" -> Fail(v, "ENOMEM")
          [] fail \in {"stdio", "wasi_imports"} -> Fail(WasiDestroy(a), "ENOMEM")
          [] fail = "threads" -> Fail(WasiDestroy(b), "ENOMEM")
          [] fail = "threads_imports" -> Fail(WasiDestroy(ThreadsDestroy(c)), "ENOMEM")
          [] OTHER -> HostImports(c, <<"ithreads", 0, 0>>, ThreadsName, ThreadsFuncs)
LoadWasi(v, fail) ==
    LET a == [Alloc(v, <<"wasi", 0, 0>> :> Plain(NoType)) EXCEPT !.wasi = TRUE]
        b == HostImports(a, <<"iwasi", 0, 0>>, WasiName, HostFuncs)
        c == [Alloc(b, <<"threads", 0, 0>> :> Plain(NoType)) EXCEPT !.threads = TRUE]
    IN  CASE v.wasi -> Fail(v, "EPROTO")
          [] fail = "wasi" -> Fail(v, "ENOMEM")
          [] fail \in {"stdio", "wasi_imports"} -> Fail(WasiDestroy(a), "ENOMEM")
          [] fail = "threads" -> Fail(WasiDestroy(PopImport(b)), "ENOMEM")
          [] fail = "threads_imports" ->
                Fail(WasiDestroy(PopImport(ThreadsDestroy(c))), "ENOMEM")
          [] OTHER -> HostImports(c, <<"ithreads", 0, 0>>, ThreadsName, ThreadsFuncs)

\* toywasm_repl_reset: every import object belongs to a registered name, to
\* WASI or to wasi-threads, which the counter n checks.
RECURSIVE PopAll(_)
PopAll(v) == IF v.imports = Null \/ v.fault # "" THEN v
             ELSE IF v.imports \notin DOMAIN v.imo THEN Fault(v, "stale")
             ELSE PopAll(PopImport(v))
ResetAll(v) ==
    LET n == Len(Chain(v, v.imports)) - v.nreg
             - Cardinality({x \in {"wasi", "threads"} : v[x]})
        UnloadAll(y) == FoldLeft(LAMBDA z, mod : After(z, LAMBDA u : Unload(u, mod)), y, y.mods)
    IN  After(PopAll(v), LAMBDA a :
        After([UnloadAll(a) EXCEPT !.nreg = 0, !.mods = <<>>], LAMBDA b :
        After(IF b.threads THEN ThreadsDestroy(b) ELSE b, LAMBDA c :
        After(IF c.wasi THEN WasiDestroy(c) ELSE c, LAMBDA d :
        IF n # 0 THEN Fault(d, "count") ELSE d))))

-----------------------------------------------------------------------------
(* Commands.                                                               *)

Init ==
    /\ opts \in Options
    /\ phase = "options"
    /\ w = EmptyWorld
    /\ abandoned = FALSE
    /\ ops = 0

\* A command ends: main gives up at the first option that fails, the repl
\* reports the error and goes on.
End(v) ==
    \E r \in {IF v.err # "" /\ v.fault = "" /\ phase = "options" THEN ResetAll(v) ELSE v} :
        /\ w' = [r EXCEPT !.err = ""]
        /\ phase' = IF (v.err # "" /\ phase = "options") \/ r.fault # ""
                    THEN "exit" ELSE phase
        /\ ops' = ops + 1
        /\ UNCHANGED opts

Ready == phase # "exit" /\ ops < MaxOps

\* --wasi
OptWasi ==
    /\ Ready /\ phase = "options"
    /\ \E fail \in {"none", "wasi", "stdio", "wasi_imports", "threads", "threads_imports"} :
          \E v \in {LoadWasi(w, fail)} : End(v)
    /\ UNCHANGED abandoned

\* --load, ":load", ":load-hex": only the commands of the repl accept a trap
Load ==
    /\ Ready /\ w.n < MaxLoads
    /\ \E file \in DOMAIN Modules, name \in Names \cup {NoName},
          fail \in Failures, late \in BOOLEAN :
          /\ late => opts.timeout
          /\ phase = "options" => name = NoName
          /\ \E v \in {LoadFile(w, file, name, phase = "repl", fail, late)} :
                /\ v.err # "LOOP"
                /\ abandoned' = (abandoned \/ (v.err \in {"ETIMEDOUT", "ENOMEM"} /\ v.n > w.n))
                /\ End(v)

\* --register, ":register"
Register ==
    /\ Ready /\ w.nreg < MaxLoads
    /\ \E name \in Names \cup {NoName}, rname \in RegNames, fail \in BOOLEAN :
          /\ phase = "options" => name = NoName
          /\ \E v \in {RegisterMod(w, name, rname, fail)} : End(v)
    /\ UNCHANGED abandoned

\* --invoke, ":invoke"
Invoke ==
    /\ Ready
    /\ \E name \in Names \cup {NoName}, late \in BOOLEAN,
          f \in UNION {{Modules[x].exports[j].name : j \in DOMAIN Modules[x].exports}
                          : x \in DOMAIN Modules} :
          /\ late => opts.timeout
          /\ phase = "options" => name = NoName
          /\ \E v \in {InvokeMod(w, name, f, late)} : v.err # "LOOP" /\ End(v)
    /\ UNCHANGED abandoned

\* --repl
OptRepl ==
    /\ Ready /\ phase = "options" /\ phase' = "repl"
    /\ UNCHANGED <<opts, w, abandoned, ops>>

\* ":init"
Reset ==
    /\ Ready /\ phase = "repl"
    /\ \E v \in {ResetAll(w)} : End(v)
    /\ abandoned' = FALSE

\* the rest of main: run a file, or the end of the input of the repl
Finish(v) ==
    \E r \in {IF v.fault = "" THEN ResetAll(v) ELSE v} :
        /\ w' = [r EXCEPT !.err = ""]
        /\ phase' = "exit" /\ ops' = ops + 1
        /\ UNCHANGED <<opts, abandoned>>
RunFile ==
    /\ Ready /\ phase = "options" /\ w.n < MaxLoads
    /\ \E file \in DOMAIN Modules, fail \in Failures, late \in BOOLEAN :
          /\ late => opts.timeout
          /\ \E v \in {Then(LoadFile(w, file, NoName, FALSE, fail, late),
                            LAMBDA y : InvokeMod(y, NoName, StartName, late))} :
                v.err # "LOOP" /\ Finish(v)
Exit ==
    /\ Ready /\ Finish(w)

Next == OptWasi \/ Load \/ Register \/ Invoke \/ OptRepl \/ Reset \/ RunFile \/ Exit
Spec == Init /\ [][Next]_vars

-----------------------------------------------------------------------------
(* Properties.                                                             *)

Live(r) == r \in DOMAIN w.heap
Refs(i) == UNION {{w.inst[i].vec[k][j] : j \in DOMAIN w.inst[i].vec[k]} : k \in Kinds}

\* What instances and import objects point to is never freed before they are:
\* every object an instance imports, every entry of an import object, the
\* names in the module of the entry, and the next import object of the list
\* (instance_destroy, repl_unload, the list that repl_load_from_buf extends
\* for one load).  Destroying them in the order of the code touches nothing
\* that is gone.
LinksAreLive ==
    /\ \A i \in DOMAIN w.inst : \A r \in Refs(i) : Live(r)
    /\ \A j \in DOMAIN w.mods : w.mods[j].i \in DOMAIN w.inst /\ Live(w.mods[j].m)
    /\ w.imports # Null => w.imports \in DOMAIN w.imo
    /\ \A o \in DOMAIN w.imo :
          /\ w.imo[o].next # Null => w.imo[o].next \in DOMAIN w.imo
          /\ \A j \in DOMAIN w.imo[o].entries :
                LET e == w.imo[o].entries[j]
                IN  Live(e.ref) /\ (e.src # Null => Live(e.src))

\* A function reference in a table and the memory WASI works on belong to a
\* live instance, and no execution meets a freed object, unless a load was
\* given up after its segments were written (a timeout of the start function,
\* or no memory for the name): a trap in the repl keeps the instance for this
\* reason (trap_ok).
ReferencesAreLive ==
    \/ abandoned
    \/ /\ w.fault # "stale"
       /\ w.mem # Null => Live(w.mem)
       /\ \A r \in DOMAIN w.heap : \A c \in DOMAIN w.heap[r].cells :
             w.heap[r].cells[c] # Null => Live(w.heap[r].cells[c])

\* What is allocated is what the modules, WASI and the list of import objects
\* own, after every failure of a load, of --wasi and after a reset; the
\* counter of toywasm_repl_reset is 0 and the memory contexts are empty.
HeapIsOwned ==
    LET mods   == {w.mods[j] : j \in DOMAIN w.mods}
        owners == {mod.i : mod \in mods}
        extra  == ({mod.extra : mod \in mods} \cup {mod.dummies : mod \in mods}) \ {Null}
        chain  == ToSet(Chain(w, w.imports))
    IN  /\ w.fault \notin {"leak", "count"}
        /\ w.fault = "" =>
              /\ \A r \in DOMAIN w.heap : r[2] \in owners \/ (r[2] = 0 /\ w.wasi)
              /\ DOMAIN w.inst = owners
              /\ DOMAIN w.imo = chain \cup extra
              /\ Cardinality(chain) = w.nreg + (IF w.wasi THEN 2 ELSE 0)
        /\ phase = "exit" /\ w.fault = "" => w.heap = <<>> /\ w.imo = <<>>

\* The definition resolve_imports should compute: the newest entry of the
\* name, of the right kind and type at this moment.
Matches(v, o, im) == {j \in DOMAIN v.imo[o].entries :
    LET e == v.imo[o].entries[j]
        x == v.heap[e.ref]
    IN  /\ e.mod = im.mod /\ e.name = im.name /\ e.k = im.k /\ x.ty.a = im.ty.a
        /\ im.k \in {"table", "mem"} =>
              x.size >= im.ty.min /\ (im.ty.max # Unlimited => x.ty.max <= im.ty.max)}

\* An import is resolved to the newest registered entry that matches it when
\* the module is loaded, never to the function that stands for unresolved
\* ones when there is a match, and the memories and tables that were matched
\* still satisfy the import after any growth.
ImportsMatch ==
    [][\A i \in DOMAIN w'.inst : \A k \in Kinds :
         LET ims == ImportsOf(w'.inst[i].m, k)
             c   == Chain(w, w.imports)
         IN  \A j \in DOMAIN ims :
               LET r    == w'.inst[i].vec[k][j]
                   hits == {p \in DOMAIN c : Matches(w, c[p], ims[j]) # {}}
                   o    == c[Min(hits)]
               IN  /\ Check(w', r, k, ims[j].ty)
                   /\ i \notin DOMAIN w.inst =>
                        CASE r[1] = "xmem" -> w.threads
                          [] r[1] = "dummy" -> hits = {}
                          [] OTHER -> /\ hits # {}
                                      /\ r = w.imo[o].entries[Min(Matches(w, o, ims[j]))].ref
      ]_vars

\* Every allocation asks for something: mem_alloc asserts sz > 0.
AllocationsAreNotEmpty == w.fault # "empty"

\* A load that fails destroys each of its memories once.
NothingDestroyedTwice == w.fault # "double"
=============================================================================
