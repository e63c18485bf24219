-------------------------------- MODULE Load --------------------------------
(***************************************************************************)
(* The module loader: lib/module.c with the vectors of lib/decode.c, the   *)
(* load context, constant expressions, and the accounting of lib/mem.c     *)
(* that every allocation goes through.                                     *)
(*                                                                         *)
(* A file is a sequence of sections; a section is its id, its items and    *)
(* whether bytes are left after them.  Items are records of what their     *)
(* bytes say; a malformed field has a value that is out of its range.      *)
(* Names are numbers in the order of compare_name, 0 is not valid UTF-8.   *)
(* A block of the heap is named by the field that points to it and by the  *)
(* number of its elements: mem_free is told the size of what it frees.     *)
(***************************************************************************)
EXTENDS Integers, Sequences, FiniteSets, SequencesExt

CONSTANTS
    Files,          \* what may be read: each file is a sequence of sets of
                    \* sections, one of which is read at that place
    UINT32_MAX,     \* the largest limit that can be stored
    MaxPages,       \* WASM_MAX_MEMORY_SIZE in pages of 64KB
    MaxTagCells,    \* TOYWASM_EXCEPTION_MAX_CELLS
    MaxAllocs,      \* bound on the allocation that fails in a section
    Reliable,       \* allocations that do not fail in this instance
    CellIdx         \* values of the option generate_resulttype_cellidx

VARIABLES
    file,           \* which file is read
    phase,          \* where module_create and its caller are
    secs,           \* history: the sections read so far
    order,          \* max_seen_section_id
    lctx,           \* struct load_context with the module and the heap
    copy            \* what module_write has written

vars == <<file, phase, secs, order, lctx, copy>>

-----------------------------------------------------------------------------
NumTypes == {"i32", "i64", "f32", "f64", "v128"}
RefTypes == {"funcref", "externref"}
LValTypes == NumTypes \cup RefTypes
Kinds == {"func", "table", "memory", "global", "tag"}

Cells(ts) == FoldLeft(LAMBDA n, t : n + (CASE t \in {"i32", "f32"} -> 1
                                           [] t = "v128" -> 4
                                           [] OTHER -> 2), 0, ts)

ASSUME LoadAssumption ==
    /\ UINT32_MAX \in Nat /\ MaxPages \in 1..UINT32_MAX
    /\ MaxAllocs \in Nat
    /\ CellIdx \subseteq BOOLEAN

EmptyModule == [types |-> <<>>, imports |-> <<>>, functypeidxes |-> <<>>,
                tables |-> <<>>, mems |-> <<>>, tags |-> <<>>,
                globals |-> <<>>, exports |-> <<>>, start |-> -1,
                elems |-> <<>>, funcs |-> <<>>, datas |-> <<>>,
                dylink |-> <<>>, names |-> 0, nimp |-> [k \in Kinds |-> 0]]

\* "val" is what was read last; "left" counts down to the allocation that
\* fails; "nomem" and "fault" remember that one failed, and that memory was
\* freed that is not allocated, or used out of its bounds.
EmptyContext == [ok |-> TRUE, m |-> EmptyModule, val |-> 0,
                 refs |-> {}, refs_size |-> 0, refs_block |-> <<>>,
                 datacount |-> -1, vctx |-> FALSE, cellidx |-> FALSE,
                 heap |-> {}, left |-> 0, nomem |-> FALSE, fault |-> FALSE]

Fail(c) == [c EXCEPT !.ok = FALSE]
Check(c, cond) == IF cond THEN c ELSE Fail(c)
Value(c, v) == [c EXCEPT !.val = v]

\* What follows a step that did not fail.
Then(c, Rest(_)) == IF c.ok THEN Rest(c) ELSE c

Indices(s) == [i \in DOMAIN s |-> i]

-----------------------------------------------------------------------------
(* mem.c and bitmap.c                                                      *)

Block(at, n) == [at |-> at, n |-> n]

MemAlloc(c, b) ==
    IF ~c.ok THEN c
    ELSE IF b.at[1] \in Reliable
         THEN [c EXCEPT !.heap = @ \cup {b}]
    ELSE IF c.left = 1
         THEN [c EXCEPT !.ok = FALSE, !.nomem = TRUE, !.left = 0]
    ELSE [c EXCEPT !.heap = @ \cup {b}, !.left = IF @ = 0 THEN 0 ELSE @ - 1]

\* A pointer to no elements is NULL.  The assertions of mem_unreserve_one
\* fail when what is freed is not accounted for.
MemFree(c, b) ==
    IF b.n = 0 THEN c
    ELSE IF b \in c.heap THEN [c EXCEPT !.heap = @ \ {b}]
    ELSE [c EXCEPT !.fault = TRUE]

BitmapSet(c, idx) ==
    IF idx < c.refs_size /\ c.refs_block # <<>>
    THEN [c EXCEPT !.refs = @ \cup {idx}]
    ELSE [c EXCEPT !.fault = TRUE]

\* The old bitmap, if any, is still what the context points to when the
\* allocation fails.
BitmapAlloc(c, n) ==
    LET d == MemAlloc([c EXCEPT !.refs_size = n], Block(<<"refs">>, n))
    IN  IF d.ok THEN [d EXCEPT !.refs = {},
                               !.refs_block = <<Block(<<"refs">>, n)>>] ELSE d

BitmapFree(c) == IF c.refs_block = <<>> THEN c
                 ELSE MemFree(c, Block(<<"refs">>, c.refs_size))

-----------------------------------------------------------------------------
(* Vectors.  Nothing of a vector is left when one of its elements cannot   *)
(* be read: the element cleans up after itself, the ones before it are     *)
(* cleared, and the array is freed.                                        *)

NoClear(c, at, v) == c

ClearAll(c, at, vals, Clear(_, _, _)) ==
    FoldLeft(LAMBDA d, i : Clear(d, Append(at, i), vals[i]), c, Indices(vals))

ReadVec(c, at, items, Read(_, _, _), Clear(_, _, _)) ==
    LET n == Len(items)
        element(x, y) == IF y.ok
                         THEN [c |-> y, vals |-> Append(x.vals, y.val)]
                         ELSE [x EXCEPT !.c = y]
        step(x, i) == IF x.c.ok
                      THEN element(x, Read(x.c, Append(at, i), items[i]))
                      ELSE x
        finish(x) == IF x.c.ok THEN Value(x.c, x.vals)
                     ELSE MemFree(ClearAll(x.c, at, x.vals, Clear),
                                  Block(at, n))
    IN  IF n = 0 THEN Value(c, <<>>)
        ELSE Then(MemAlloc(c, Block(at, n)),
                  LAMBDA d : finish(FoldLeft(step, [c |-> d, vals |-> <<>>],
                                             Indices(items))))

ReadU32(c, at, i) == Value(c, i)

-----------------------------------------------------------------------------
(* Types                                                                   *)

ReadValtype(c, at, t) == Value(Check(c, t \in LValTypes), t)

\* The index of cells only makes local.get fast: to do without it is no error.
PopulateCellidx(c, at, n) ==
    LET d == MemAlloc(c, Block(Append(at, "cellidx"), n))
    IN  IF n = 0 \/ ~c.cellidx THEN Value(c, FALSE)
        ELSE Value([d EXCEPT !.ok = TRUE], d.ok)

Resulttype(c, ts) == Value(c, [types |-> ts, cellidx |-> c.val])

ReadResulttype(c, at, ts, populate) ==
    Then(ReadVec(c, at, ts, ReadValtype, NoClear),
         LAMBDA d : Resulttype(IF populate
                               THEN PopulateCellidx(d, at, Len(ts))
                               ELSE Value(d, FALSE), ts))

ClearCellidx(c, at, n, populated) ==
    IF populated THEN MemFree(c, Block(Append(at, "cellidx"), n)) ELSE c

ClearResulttype(c, at, rt) ==
    ClearCellidx(MemFree(c, Block(at, Len(rt.types))), at, Len(rt.types),
                 rt.cellidx)

Functype(p, r, at) ==
    IF r.ok THEN Value(r, [p |-> p.val, r |-> r.val])
            ELSE ClearResulttype(r, Append(at, "p"), p.val)

ReadFunctype(c, at, i) ==
    Then(ReadResulttype(c, Append(at, "p"), i.p, TRUE),
         LAMBDA p : Functype(p, ReadResulttype(p, Append(at, "r"), i.r, FALSE),
                             at))

ClearFunctype(c, at, ft) ==
    ClearResulttype(ClearResulttype(c, Append(at, "p"), ft.p),
                    Append(at, "r"), ft.r)

\* "max" is -1 when there is none; "shift" is the custom page size, if any.
TypeMax(l, ismem) == CASE ~ismem         -> UINT32_MAX
                       [] l.shift = "byte" -> UINT32_MAX + 1
                       [] OTHER            -> MaxPages

ReadLimits(c, l, ismem) ==
    LET typemax == TypeMax(l, ismem)
        max == CASE l.max >= 0           -> l.max
                 [] typemax < UINT32_MAX -> typemax
                 [] OTHER                -> UINT32_MAX
    IN  Value(Check(c, /\ l.shared => l.max >= 0 /\ ismem
                       /\ l.shift \in (IF ismem THEN {"none", "64k", "byte"}
                                                ELSE {"none"})
                       /\ typemax >= max /\ typemax >= l.min
                       /\ l.min <= max),
              [min |-> l.min, max |-> max, shared |-> l.shared,
               page |-> IF l.shift = "byte" THEN "byte" ELSE "64k"])

ReadMemtype(c, at, i) == ReadLimits(c, i, TRUE)

ReadTabletype(c, at, i) ==
    LET d == ReadLimits(c, i.lim, FALSE)
    IN  Value(Check(d, i.et \in RefTypes), [et |-> i.et, lim |-> d.val])

ReadGlobaltype(c, g) ==
    Value(Check(c, g.t \in LValTypes /\ g.mut \in {"const", "var"}),
          [t |-> g.t, mut |-> g.mut])

ReadTagtype(c, at, typeidx) ==
    LET ft == c.m.types[typeidx + 1]
    IN  Value(Check(c, /\ typeidx < Len(c.m.types)
                       /\ ft.r.types = <<>>
                       /\ Cells(ft.p.types) <= MaxTagCells), typeidx)

-----------------------------------------------------------------------------
(* Index spaces: what is imported comes first (type.c).                    *)

ModuleImport(m, kind, idx) ==
    SelectSeq(m.imports, LAMBDA im : im.kind = kind)[idx + 1]

Count(m, kind) ==
    m.nimp[kind] + (CASE kind = "func"   -> Len(m.functypeidxes)
                      [] kind = "table"  -> Len(m.tables)
                      [] kind = "memory" -> Len(m.mems)
                      [] kind = "global" -> Len(m.globals)
                      [] kind = "tag"    -> Len(m.tags))

ModuleFunctype(m, idx) ==
    m.types[1 + (IF idx < m.nimp["func"] THEN ModuleImport(m, "func", idx).desc
                 ELSE m.functypeidxes[idx - m.nimp["func"] + 1])]

ModuleTabletype(m, idx) ==
    IF idx < m.nimp["table"] THEN ModuleImport(m, "table", idx).desc
    ELSE m.tables[idx - m.nimp["table"] + 1]

ModuleGlobaltype(m, idx) ==
    IF idx < m.nimp["global"] THEN ModuleImport(m, "global", idx).desc
    ELSE m.globals[idx - m.nimp["global"] + 1].type

-----------------------------------------------------------------------------
(* Expressions.  The validation context is made by the first one and kept  *)
(* for the others.                                                         *)

MakeVctx(c) == IF c.vctx THEN c
               ELSE LET d == MemAlloc(c, Block(<<"vctx">>, 1))
                    IN  [d EXCEPT !.vctx = d.ok]

NoExpr == [op |-> "none"]

\* A constant expression is one instruction; global.get is only for imported
\* constants, and ref.func declares the function it names.
ConstExpr(c, e, t) ==
    LET type == CASE e.op = "const"    -> e.t
                  [] e.op = "ref_null" -> e.t
                  [] e.op = "ref_func" -> "funcref"
                  [] e.op = "global_get" -> ModuleGlobaltype(c.m, e.idx).t
        ok == CASE e.op = "ref_null"   -> e.t \in RefTypes
                [] e.op = "ref_func"   -> e.idx < Count(c.m, "func")
                [] e.op = "global_get" ->
                     /\ e.idx < c.m.nimp["global"]
                     /\ ModuleGlobaltype(c.m, e.idx).mut = "const"
                [] OTHER -> e.op = "const"
        declared == IF e.op = "ref_func" /\ ok THEN BitmapSet(c, e.idx) ELSE c
    IN  Value(Check(declared, ok /\ type = t), e)

ReadConstExpr(c, e, t) == Then(MakeVctx(c), LAMBDA d : ConstExpr(d, e, t))

\* What validation asks of the rest of the module, and what it allocates: the
\* jump table, which the module owns even when validation fails later.
ReadExpr(c, at, body) ==
    LET d == MakeVctx(c)
        e == IF body.jumps THEN MemAlloc(d, Block(Append(at, "jumps"), 1))
                           ELSE d
    IN  Check(Value(e, e.ok /\ body.jumps),
              /\ body.valid
              /\ \A f \in body.ref_func :
                   f < Count(c.m, "func") /\ f \in c.refs
              /\ \A n \in body.memory_init : n < c.datacount
              /\ \A n \in body.elem_drop : n < Len(c.m.elems))

ClearExpr(c, at, jumps) ==
    IF jumps THEN MemFree(c, Block(Append(at, "jumps"), 1)) ELSE c

-----------------------------------------------------------------------------
(* The items of the sections                                               *)

ReadImportdesc(c, i) ==
    Then(CASE i.kind = "func"   -> Value(Check(c, i.desc < Len(c.m.types)),
                                         i.desc)
           [] i.kind = "table"  -> ReadTabletype(c, <<>>, i.desc)
           [] i.kind = "memory" -> ReadMemtype(c, <<>>, i.desc)
           [] i.kind = "global" -> ReadGlobaltype(c, i.desc)
           [] i.kind = "tag"    -> ReadTagtype(c, <<>>, i.desc)
           [] OTHER             -> Fail(c),
         LAMBDA d : [d EXCEPT !.m.nimp[i.kind] = @ + 1])

ReadImport(c, at, i) ==
    IF i.module = 0 \/ i.name = 0 THEN Fail(c)
    ELSE Then(ReadImportdesc(c, i),
              LAMBDA d : Value(d, [i EXCEPT !.desc = d.val]))

\* An exported function may be the operand of ref.func.
ReadExport(c, at, i) ==
    LET ok == i.name # 0 /\ i.kind \in Kinds /\ i.idx < Count(c.m, i.kind)
    IN  CASE ~ok            -> Fail(c)
          [] i.kind = "func" -> Value(BitmapSet(c, i.idx), i)
          [] OTHER           -> Value(c, i)

ReadGlobal(c, at, i) ==
    Then(ReadGlobaltype(c, i),
         LAMBDA d : Value(ReadConstExpr(d, i.init, i.t),
                          [type |-> d.val, init |-> i.init]))

ElementInit(at) == Append(at, "init")

ClearElement(c, at, e) == MemFree(c, Block(ElementInit(at), Len(e.init)))

\* The forms 0 to 7 of a segment: 0, 2, 4 and 6 are active, 2 and 6 name their
\* table, 0 to 3 list functions (here as ref_func) and 4 to 7 expressions.
\* "type" is the byte of the kind of elements, or the reference type.
ElementOf(i) ==
    LET active == i.form \in {0, 2, 4, 6}
    IN  [mode |-> CASE active -> "active"
                    [] i.form \in {1, 5} -> "passive"
                    [] OTHER -> "declarative",
         table |-> IF i.form \in {2, 6} THEN i.table ELSE 0,
         type |-> IF i.form \in {0, 4} THEN "funcref" ELSE i.type,
         offset |-> IF active THEN i.offset ELSE NoExpr,
         init |-> i.init,
         exprs |-> i.form > 3 /\ i.init # <<>>]

\* The offset and the byte of the type.
ReadElementHead(c, i, elem) ==
    Check(IF elem.mode = "active" THEN ReadConstExpr(c, i.offset, "i32") ELSE c,
          elem.type \in (IF i.form <= 3 THEN {"funcref"} ELSE RefTypes))

ReadElementInit(c, at, i, elem) ==
    IF i.form <= 3
    THEN ReadVec(c, ElementInit(at), i.init, ReadU32, NoClear)
    ELSE ReadVec(c, ElementInit(at), i.init,
                 LAMBDA d, x, e : ReadConstExpr(d, e, elem.type), NoClear)

\* The functions listed are declared, up to one that does not exist.
DeclareListed(c, i) ==
    IF i.form > 3 THEN c
    ELSE FoldLeft(LAMBDA d, f : IF d.ok /\ f.idx < Count(c.m, "func")
                                THEN BitmapSet(d, f.idx) ELSE Fail(d),
                  c, i.init)

CheckElement(c, at, elem) ==
    IF c.ok /\ (elem.mode = "active" =>
                  /\ elem.table < Count(c.m, "table")
                  /\ ModuleTabletype(c.m, elem.table).et = elem.type)
    THEN Value(c, elem)
    ELSE ClearElement(Fail(c), at, elem)

ReadElement(c, at, i) ==
    IF i.form > 7 THEN Fail(c)
    ELSE Then(ReadElementInit(ReadElementHead(c, i, ElementOf(i)), at, i,
                              ElementOf(i)),
              LAMBDA d : CheckElement(DeclareListed(d, i), at, ElementOf(i)))

\* Groups of no locals are skipped, but still counted.
Chunks(locals) ==
    LET some == SelectSeq(locals, LAMBDA g : g.n > 0)
    IN  some \o [k \in 1..(Len(locals) - Len(some)) |-> [n |-> 0, t |-> "zero"]]

NLocals(locals) == FoldLeft(LAMBDA n, g : n + g.n, 0, locals)

Locals(c, locals) == Value(c, [chunks |-> Chunks(locals), cellidx |-> c.val])

ReadLocals(c, at, locals) ==
    LET b == Block(Append(at, "locals"), Len(locals))
        good == /\ NLocals(locals) <= UINT32_MAX
                /\ \A g \in Range(locals) : g.t \in LValTypes
    IN  Then(IF locals = <<>> THEN c ELSE MemAlloc(c, b),
             LAMBDA d : IF ~good THEN MemFree(Fail(d), b)
                        ELSE Locals(PopulateCellidx(d, Append(at, "locals"),
                                                    NLocals(locals)), locals))

ClearFunc(c, at, f) ==
    ClearExpr(ClearCellidx(MemFree(c, Block(Append(at, "locals"),
                                            Len(f.locals.chunks))),
                           Append(at, "locals"), NLocals(f.locals.chunks),
                           f.locals.cellidx),
              at, f.jumps)

FuncOf(c, locals, at, i) ==
    LET func == [locals |-> locals, jumps |-> c.val, body |-> i.body]
    IN  IF c.ok /\ ~i.trailing THEN Value(c, func)
                               ELSE ClearFunc(Fail(c), at, func)

ReadFunc(c, at, i) ==
    IF Last(at) > Len(c.m.functypeidxes) THEN Fail(c)
    ELSE Then(ReadLocals(c, at, i.locals),
              LAMBDA d : FuncOf(ReadExpr(d, at, i.body), d.val, at, i))

\* The forms 0 and 2 are active, 2 names its memory.
ReadData(c, at, i) ==
    LET mem == IF i.form = 2 THEN i.mem ELSE 0
        d == IF i.form = 1 THEN c
             ELSE ReadConstExpr(c, i.offset, "i32")
    IN  IF i.form > 2 \/ (i.form # 1 /\ mem >= Count(c.m, "memory"))
        THEN Fail(c)
        ELSE Value(Check(d, ~i.short),
                   [passive |-> i.form = 1, mem |-> mem,
                    offset |-> IF i.form = 1 THEN NoExpr ELSE i.offset])

-----------------------------------------------------------------------------
(* Sections                                                                *)

\* Reads a vector into a field of the module, which is empty until then.
VecSection(c, field, items, Read(_, _, _), Clear(_, _, _)) ==
    Then(ReadVec(c, <<field>>, items, Read, Clear),
         LAMBDA d : [d EXCEPT !.m[field] = d.val])

ReadTypeSection(c, s) ==
    VecSection(c, "types", s.items, ReadFunctype, ClearFunctype)

ReadImportSection(c, s) ==
    Then(VecSection(c, "imports", s.items, ReadImport, NoClear),
         LAMBDA d : IF d.m.nimp["func"] > 0
                    THEN BitmapAlloc(d, d.m.nimp["func"]) ELSE d)

\* The bitmap is made again with room for the functions of the module.
ReadFunctionSection(c, s) ==
    Then(VecSection(c, "functypeidxes", s.items, ReadU32, NoClear),
         LAMBDA d :
           CASE \E k \in DOMAIN s.items : s.items[k] >= Len(c.m.types) -> Fail(d)
             [] s.items = <<>> -> d
             [] OTHER -> BitmapAlloc(IF d.refs_size > 0 THEN BitmapFree(d) ELSE d,
                                     d.m.nimp["func"] + Len(s.items)))

ReadTableSection(c, s) ==
    VecSection(c, "tables", s.items, ReadTabletype, NoClear)

ReadMemorySection(c, s) ==
    VecSection(c, "mems", s.items, ReadMemtype, NoClear)

ReadTagSection(c, s) == VecSection(c, "tags", s.items, ReadTagtype, NoClear)

ReadGlobalSection(c, s) ==
    VecSection(c, "globals", s.items, ReadGlobal, NoClear)

ReadExportSection(c, s) ==
    VecSection(c, "exports", s.items, ReadExport, NoClear)

ReadStartSection(c, s) ==
    LET f == s.items[1]
    IN  [Check(c, /\ f < Count(c.m, "func")
                  /\ LET ft == ModuleFunctype(c.m, f)
                     IN  ft.p.types = <<>> /\ ft.r.types = <<>>)
         EXCEPT !.m.start = f]

ReadElementSection(c, s) ==
    VecSection(c, "elems", s.items, ReadElement, ClearElement)

\* The bytes after the count are ignored.
ReadDatacountSection(c, s) == [c EXCEPT !.datacount = s.items[1]]

FuncsClear(c, n) ==
    IF c.m.funcs = <<>> THEN c
    ELSE LET clear(d, k) == IF k > Len(c.m.funcs) THEN [d EXCEPT !.fault = TRUE]
                            ELSE ClearFunc(d, <<"funcs", k>>, c.m.funcs[k])
         IN  [MemFree(FoldLeft(clear, c, [k \in 1..n |-> k]),
                      Block(<<"funcs">>, n)) EXCEPT !.m.funcs = <<>>]

\* Mutant: a section with the wrong number of functions is left to
\* module_unload.
ReadCodeSection_Lazy(c, s) ==
    Then(VecSection(c, "funcs", s.items, ReadFunc, ClearFunc),
         LAMBDA d : Check(d, Len(s.items) = Len(c.m.functypeidxes)))

ReadCodeSection(c, s) ==
    Then(VecSection(c, "funcs", s.items, ReadFunc, ClearFunc),
         LAMBDA d : IF Len(s.items) = Len(c.m.functypeidxes) THEN d
                    ELSE FuncsClear(Fail(d), Len(s.items)))

ReadDataSection(c, s) == VecSection(c, "datas", s.items, ReadData, NoClear)

-----------------------------------------------------------------------------
(* Custom sections.  The linking section is read subsection by subsection, *)
(* until the first one that is not known.                                  *)

KnownSubsections == {"mem_info", "needs", "import_info"}
NoDylink == [mem_info |-> 0, needs |-> <<>>, import_info |-> <<>>]

ReadName(c, at, n) == Value(Check(c, n # 0), n)

ReadSubsection(c, ss) ==
    IF ss.type = "mem_info"
    THEN [c EXCEPT !.m.dylink[1].mem_info = ss.items[1]]
    ELSE Then(ReadVec(c, <<"dylink", ss.type>>, ss.items, ReadName, NoClear),
              LAMBDA d : [d EXCEPT !.m.dylink[1][ss.type] = d.val])

\* The pointer is used without a check: there may be nothing to clear.
ClearDylink(c) ==
    IF c.m.dylink = <<>> THEN [c EXCEPT !.fault = TRUE]
    ELSE LET dy == c.m.dylink[1]
         IN  [MemFree(MemFree(MemFree(c,
                    Block(<<"dylink", "needs">>, Len(dy.needs))),
                    Block(<<"dylink", "import_info">>, Len(dy.import_info))),
                    Block(<<"dylink">>, 1)) EXCEPT !.m.dylink = <<>>]

Subsections(c, s) ==
    LET upto == Cardinality({k \in DOMAIN s.items : \A j \in 1..k :
                               s.items[j].type \in KnownSubsections})
        repeated(k) == \E j \in 1..(k - 1) : s.items[j].type = s.items[k].type
        finish(d) == CASE ~d.ok                   -> ClearDylink(d)
                       [] upto + 1 < Len(s.items) -> Fail(d)
                       [] OTHER                   -> d
    IN  finish(FoldLeft(LAMBDA x, k :
                          Then(x, LAMBDA y : IF repeated(k) THEN Fail(y)
                                             ELSE ReadSubsection(y, s.items[k])),
                        c, [k \in 1..upto |-> k]))

ReadDylinkSection(c, s) ==
    LET a == MemAlloc(c, Block(<<"dylink">>, 1))
        b == [a EXCEPT !.m.dylink = <<NoDylink>>]
    IN  CASE c.m.dylink # <<>>  -> ClearDylink(Fail(c))
          [] ~a.ok              -> ClearDylink(a)
          [] s.items = <<>>     -> ClearDylink(Fail(b))
          [] OTHER              -> Subsections(b, s)

ReadCustomSection(c, s) ==
    CASE s.name = "bad"      -> Fail(c)
      [] s.name = "name"     -> [c EXCEPT !.m.names = Len(s.items)]
      [] s.name = "dylink.0" -> ReadDylinkSection(c, s)
      [] OTHER               -> c

SectionOrder == [custom |-> 0, type |-> 1, import |-> 2, function |-> 3,
                 table |-> 4, memory |-> 5, tag |-> 6, global |-> 7,
                 export |-> 8, start |-> 9, element |-> 10, datacount |-> 11,
                 code |-> 12, data |-> 13]

ReadSection(c, s) ==
    LET d == CASE s.id = "custom"    -> ReadCustomSection(c, s)
               [] s.id = "type"      -> ReadTypeSection(c, s)
               [] s.id = "import"    -> ReadImportSection(c, s)
               [] s.id = "function"  -> ReadFunctionSection(c, s)
               [] s.id = "table"     -> ReadTableSection(c, s)
               [] s.id = "memory"    -> ReadMemorySection(c, s)
               [] s.id = "tag"       -> ReadTagSection(c, s)
               [] s.id = "global"    -> ReadGlobalSection(c, s)
               [] s.id = "export"    -> ReadExportSection(c, s)
               [] s.id = "start"     -> ReadStartSection(c, s)
               [] s.id = "element"   -> ReadElementSection(c, s)
               [] s.id = "datacount" -> ReadDatacountSection(c, s)
               [] s.id = "code"      -> ReadCodeSection(c, s)
               [] s.id = "data"      -> ReadDataSection(c, s)
        skips == \/ s.id = "datacount"
                 \/ s.id = "custom" /\ s.name # "dylink.0"
    IN  [Check(d, ~s.extra \/ skips) EXCEPT !.val = 0, !.left = 0]

-----------------------------------------------------------------------------
(* module_load_into                                                        *)

SectionFits(o, s) ==
    /\ s.id \in DOMAIN SectionOrder
    /\ s.id # "custom" => o < SectionOrder[s.id]

NextOrder(o, s) == IF s.id = "custom" THEN o ELSE SectionOrder[s.id]

SortExports(m) ==
    [m EXCEPT !.exports = SortSeq(@, LAMBDA a, b : a.name < b.name)]

\* Mutant: nothing compares the number of data segments with the count that
\* the code was validated with.
FinalChecks_NoDatacount(c) ==
    LET m == SortExports(c.m)
    IN  [Check(c, /\ (m.funcs = <<>>) = (m.functypeidxes = <<>>)
                  /\ \A k \in 1..(Len(m.exports) - 1) :
                       m.exports[k].name # m.exports[k + 1].name)
         EXCEPT !.m = m]

\* Only neighbours are compared once the exports are sorted.
FinalChecks(c) ==
    LET m == SortExports(c.m)
    IN  [Check(c, /\ (m.funcs = <<>>) = (m.functypeidxes = <<>>)
                  /\ c.datacount >= 0 => c.datacount = Len(m.datas)
                  /\ \A k \in 1..(Len(m.exports) - 1) :
                       m.exports[k].name # m.exports[k + 1].name)
         EXCEPT !.m = m]

ModuleUnload(c) ==
    LET m == c.m
        a == ClearAll(c, <<"types">>, m.types, ClearFunctype)
        b == FuncsClear(MemFree(a, Block(<<"types">>, Len(m.types))),
                        Len(m.functypeidxes))
        d == ClearAll(b, <<"elems">>, m.elems, ClearElement)
        e == FoldLeft(LAMBDA x, field : MemFree(x, Block(<<field>>,
                                                         Len(m[field]))),
                      d, <<"functypeidxes", "tables", "mems", "globals",
                           "tags", "elems", "datas", "imports", "exports">>)
        f == IF m.dylink # <<>> THEN ClearDylink(e) ELSE e
    IN  [MemFree(f, Block(<<"module">>, 1)) EXCEPT !.m = EmptyModule]

LoadContextClear(c) ==
    LET d == BitmapFree(c)
    IN  [IF d.vctx THEN MemFree(d, Block(<<"vctx">>, 1)) ELSE d
         EXCEPT !.refs_block = <<>>, !.vctx = FALSE, !.refs = {},
                !.refs_size = 0]

-----------------------------------------------------------------------------
(* Actions                                                                 *)

LInit == /\ file \in DOMAIN Files
         /\ phase = "start"
         /\ secs = <<>>
         /\ order = 0
         /\ \E b \in CellIdx : lctx = [EmptyContext EXCEPT !.cellidx = b]
         /\ copy = <<>>

\* module_create destroys what a failed load leaves in the module.
LoadOutcome(c, next) == /\ phase' = IF c.ok THEN next ELSE "failed"
                        /\ lctx' = IF c.ok THEN c ELSE ModuleUnload(c)

\* "magic" says whether the first eight bytes are those of a module.
ModuleCreate ==
    /\ phase = "start"
    /\ \E magic \in BOOLEAN, left \in {0, 1} :
         LET c == MemAlloc([lctx EXCEPT !.left = left], Block(<<"module">>, 1))
         IN  IF c.ok THEN /\ LoadOutcome(Check(c, magic), "sections")
                          /\ secs' = IF magic THEN <<>> ELSE <<[id |-> "magic"]>>
                     ELSE /\ phase' = "failed"
                          /\ lctx' = c
                          /\ UNCHANGED secs
    /\ UNCHANGED <<file, order, copy>>

Place == Len(secs) + 1

\* Section "skip" of a file is not there.
ReadNextSection ==
    /\ phase = "sections"
    /\ Place <= Len(Files[file])
    /\ \E s \in Files[file][Place], left \in 0..MaxAllocs :
         LET c == ReadSection([lctx EXCEPT !.left = left], s)
         IN  /\ secs' = Append(secs, s)
             /\ IF s.id = "skip" THEN left = 0 /\ UNCHANGED <<phase, lctx>>
                ELSE IF ~SectionFits(order, s)
                     THEN left = 0 /\ LoadOutcome(Fail(lctx), "sections")
                ELSE LoadOutcome(c, "sections")
             /\ order' = IF s.id # "skip" /\ SectionFits(order, s)
                         THEN NextOrder(order, s) ELSE order
    /\ UNCHANGED <<file, copy>>

FinishLoad ==
    /\ phase = "sections"
    /\ Place > Len(Files[file])
    /\ LoadOutcome(FinalChecks(lctx), "loaded")
    /\ UNCHANGED <<file, secs, order, copy>>

\* The caller clears the context after a load that failed, and after one that
\* did not.
ClearContext ==
    /\ phase \in {"loaded", "failed"}
    /\ phase' = IF phase = "loaded" THEN "ready" ELSE "gone"
    /\ lctx' = LoadContextClear(lctx)
    /\ UNCHANGED <<file, secs, order, copy>>

ModuleDestroy ==
    /\ phase = "ready"
    /\ phase' = "destroyed"
    /\ lctx' = ModuleUnload(lctx)
    /\ UNCHANGED <<file, secs, order, copy>>

LNext == \/ ModuleCreate
         \/ ReadNextSection
         \/ FinishLoad
         \/ ClearContext
         \/ ModuleDestroy

-----------------------------------------------------------------------------
(* What a module is, said of its sections and not of the order in which    *)
(* they are read.                                                          *)

Present(ss, id) == {k \in DOMAIN ss : ss[k].id = id}
Items(ss, id) == IF Present(ss, id) = {} THEN <<>>
                 ELSE ss[CHOOSE k \in Present(ss, id) : TRUE].items

Imported(ss, kind) == SelectSeq(Items(ss, "import"), LAMBDA i : i.kind = kind)
Space(ss, kind, own) == Len(Imported(ss, kind)) + Len(Items(ss, own))
NFuncs(ss) == Space(ss, "func", "function")

TypeOfFunc(ss, f) ==
    LET all == [k \in DOMAIN Imported(ss, "func") |->
                  Imported(ss, "func")[k].desc] \o Items(ss, "function")
    IN  Items(ss, "type")[all[f + 1] + 1]

TypeOfTable(ss, t) ==
    LET all == [k \in DOMAIN Imported(ss, "table") |->
                  Imported(ss, "table")[k].desc] \o Items(ss, "table")
    IN  all[t + 1].et

GoodLimits(l, typemax) == /\ l.min <= typemax /\ l.max <= typemax
                          /\ l.max = -1 \/ l.min <= l.max
GoodMemory(l) == /\ l.shift # "bad" /\ (l.shared => l.max # -1)
                 /\ GoodLimits(l, IF l.shift = "byte" THEN UINT32_MAX + 1
                                                      ELSE MaxPages)
GoodTable(t) == /\ t.et \in RefTypes /\ ~t.lim.shared
                /\ t.lim.shift = "none" /\ GoodLimits(t.lim, UINT32_MAX)
GoodTag(ss, t) == /\ t < Len(Items(ss, "type"))
                  /\ Items(ss, "type")[t + 1].r = <<>>
                  /\ Cells(Items(ss, "type")[t + 1].p) <= MaxTagCells
GoodGlobal(g) == g.t \in LValTypes /\ g.mut # "bad"

GoodExpr(ss, e, t) ==
    CASE e.op \in {"const", "ref_null"} ->
           e.t = t /\ (e.op = "ref_null" => t \in RefTypes)
      [] e.op = "ref_func"   -> t = "funcref" /\ e.idx < NFuncs(ss)
      [] e.op = "global_get" ->
           /\ e.idx < Len(Imported(ss, "global"))
           /\ Imported(ss, "global")[e.idx + 1].desc = [t |-> t,
                                                        mut |-> "const"]
      [] OTHER -> FALSE

GoodImport(ss, i) ==
    /\ i.module # 0 /\ i.name # 0
    /\ CASE i.kind = "func"   -> i.desc < Len(Items(ss, "type"))
         [] i.kind = "table"  -> GoodTable(i.desc)
         [] i.kind = "memory" -> GoodMemory(i.desc)
         [] i.kind = "global" -> GoodGlobal(i.desc)
         [] i.kind = "tag"    -> GoodTag(ss, i.desc)
         [] OTHER             -> FALSE

GoodExport(ss, i) ==
    /\ i.name # 0
    /\ CASE i.kind = "func"   -> i.idx < NFuncs(ss)
         [] i.kind = "table"  -> i.idx < Space(ss, "table", "table")
         [] i.kind = "memory" -> i.idx < Space(ss, "memory", "memory")
         [] i.kind = "global" -> i.idx < Space(ss, "global", "global")
         [] i.kind = "tag"    -> i.idx < Space(ss, "tag", "tag")
         [] OTHER             -> FALSE

ElemType(i) == IF i.form \in {0, 4} THEN "funcref" ELSE i.type
GoodElement(ss, i) ==
    /\ i.form <= 7 /\ ElemType(i) \in RefTypes
    /\ i.form <= 3 => /\ ElemType(i) = "funcref"
                      /\ \A f \in Range(i.init) : f.idx < NFuncs(ss)
    /\ i.form > 3 => \A e \in Range(i.init) : GoodExpr(ss, e, ElemType(i))
    /\ i.form % 2 = 0 =>
         LET t == IF i.form \in {2, 6} THEN i.table ELSE 0
         IN  /\ GoodExpr(ss, i.offset, "i32")
             /\ t < Space(ss, "table", "table")
             /\ TypeOfTable(ss, t) = ElemType(i)

GoodData(ss, i) ==
    /\ i.form <= 2 /\ ~i.short
    /\ i.form # 1 =>
         /\ GoodExpr(ss, i.offset, "i32")
         /\ (IF i.form = 2 THEN i.mem ELSE 0) < Space(ss, "memory", "memory")

\* The functions that are named somewhere outside of the code.
Declared(ss) ==
    {f \in 0..(NFuncs(ss) - 1) :
       \/ \E i \in Range(Items(ss, "export")) : i.kind = "func" /\ i.idx = f
       \/ \E i \in Range(Items(ss, "global")) :
            i.init.op = "ref_func" /\ i.init.idx = f
       \/ \E i \in Range(Items(ss, "element")) :
            \E e \in Range(i.init) : e.op = "ref_func" /\ e.idx = f}

GoodCode(ss, i) ==
    /\ i.body.valid /\ ~i.trailing
    /\ \A g \in Range(i.locals) : g.t \in LValTypes
    /\ i.body.ref_func \subseteq Declared(ss)
    /\ i.body.elem_drop \subseteq 0..(Len(Items(ss, "element")) - 1)
    /\ i.body.memory_init # {} => Present(ss, "datacount") # {}

\* An unknown subsection of the linking section is accepted as the last one
\* only: this is what the loader does, see UnknownSubsectionsSkipped.
GoodCustom(ss, k) ==
    /\ ss[k].name # "bad"
    /\ ss[k].name = "dylink.0" =>
         /\ ss[k].items # <<>>
         /\ \A j \in DOMAIN ss : j < k => ss[j].id # "custom"
                                       \/ ss[j].name # "dylink.0"
         /\ \A a \in DOMAIN ss[k].items :
              LET sub == ss[k].items[a]
              IN  /\ sub.type \in KnownSubsections =>
                       /\ \A b \in 1..(a - 1) : ss[k].items[b].type # sub.type
                       /\ sub.type # "mem_info" => 0 \notin Range(sub.items)
                  /\ sub.type \notin KnownSubsections => a = Len(ss[k].items)

\* What the sections read so far have to satisfy.
WellFormedSoFar(ss) ==
    /\ \A j, k \in DOMAIN ss :
         j < k /\ ss[j].id # "custom" /\ ss[k].id # "custom"
         => SectionOrder[ss[j].id] < SectionOrder[ss[k].id]
    /\ \A k \in DOMAIN ss :
         /\ ss[k].extra => ss[k].id \in {"datacount", "custom"}
         /\ ss[k].id = "custom" => GoodCustom(ss, k)
    /\ \A i \in Range(Items(ss, "type")) :
         Range(i.p) \cup Range(i.r) \subseteq LValTypes
    /\ \A i \in Range(Items(ss, "import")) : GoodImport(ss, i)
    /\ \A i \in Range(Items(ss, "function")) : i < Len(Items(ss, "type"))
    /\ \A i \in Range(Items(ss, "table")) : GoodTable(i)
    /\ \A i \in Range(Items(ss, "memory")) : GoodMemory(i)
    /\ \A i \in Range(Items(ss, "tag")) : GoodTag(ss, i)
    /\ \A i \in Range(Items(ss, "global")) :
         GoodGlobal(i) /\ GoodExpr(ss, i.init, i.t)
    /\ \A i \in Range(Items(ss, "export")) : GoodExport(ss, i)
    /\ \A f \in Range(Items(ss, "start")) :
         f < NFuncs(ss) /\ TypeOfFunc(ss, f).p \o TypeOfFunc(ss, f).r = <<>>
    /\ \A i \in Range(Items(ss, "element")) : GoodElement(ss, i)
    /\ \A i \in Range(Items(ss, "code")) : GoodCode(ss, i)
    /\ Present(ss, "code") # {}
       => Len(Items(ss, "code")) = Len(Items(ss, "function"))
    /\ Present(ss, "datacount") # {} =>
         \A i \in Range(Items(ss, "code")) :
           i.body.memory_init \subseteq 0..(Items(ss, "datacount")[1] - 1)
    /\ \A i \in Range(Items(ss, "data")) : GoodData(ss, i)

\* What a whole module has to satisfy besides.
Complete(ss) ==
    /\ Len(Items(ss, "code")) = Len(Items(ss, "function"))
    /\ \A i \in Range(Items(ss, "code")) :
         i.body.memory_init \subseteq 0..(Len(Items(ss, "data")) - 1)
    /\ Present(ss, "datacount") # {}
       => Items(ss, "datacount")[1] = Len(Items(ss, "data"))
    /\ \A j, k \in DOMAIN Items(ss, "export") :
         Items(ss, "export")[j].name = Items(ss, "export")[k].name => j = k

-----------------------------------------------------------------------------
(* Properties                                                              *)

Read == SelectSeq(secs, LAMBDA s : s.id # "skip")
Known == \A k \in DOMAIN Read : Read[k].id \in DOMAIN SectionOrder

\* There is a reason to refuse what has been read.
Refusable(ss) == \/ ~Known
                 \/ ~WellFormedSoFar(ss)
                 \/ Len(secs) = Len(Files[file]) /\ ~Complete(ss)

\* module_create accepts the modules that are well formed and no others: the
\* checks that each section makes against what has been read before it, the
\* bitmap of declared functions and the count of data segments that the code
\* is validated with amount to the conditions on the whole module.
VerdictIsRight ==
    /\ phase \in {"loaded", "ready"} =>
         Known /\ WellFormedSoFar(Read) /\ Complete(Read)
    /\ phase = "failed" /\ ~lctx.nomem => Refusable(Read)

WithoutUnknown(s) ==
    IF s.id = "custom" /\ s.name = "dylink.0"
    THEN [s EXCEPT !.items = SelectSeq(@, LAMBDA u : u.type \in KnownSubsections)]
    ELSE s

\* A file is not refused for a subsection that is not known: what
\* read_dylink_0_section says it does ("skipping unimplemented subsection",
\* lib/module.c:2087).  It leaves its loop there, and the subsections that
\* follow are taken for extra bytes of the section.
UnknownSubsectionsSkipped ==
    phase = "failed" /\ ~lctx.nomem =>
      Refusable([k \in DOMAIN Read |-> WithoutUnknown(Read[k])])

\* Whatever fails and wherever, nothing is freed that is not allocated and no
\* bit is set out of the bitmap (the assertions of mem_unreserve_one).
NoMemoryFault == ~lctx.fault

\* Nothing is left when the caller has cleared the context and destroyed the
\* module (the assertion of mem_context_clear).
NothingLeaked == phase \in {"gone", "destroyed"} => lctx.heap = {}

\* Every allocation is freed exactly once and with its own size, whichever
\* item of whichever section is refused and whichever allocation fails.
HeapBalanced == NoMemoryFault /\ NothingLeaked

=============================================================================
