---------------------------- MODULE ModuleWriter ----------------------------
(***************************************************************************)
(* lib/module_writer.c: the sections that module_write makes of a module   *)
(* that has been loaded, in builds with and without assertions.  Together  *)
(* with the loader it is the example program wasm2wasm, and :save of the   *)
(* repl.                                                                   *)
(***************************************************************************)
EXTENDS Load

WriteFunctype(ft) == [p |-> ft.p.types, r |-> ft.r.types]

\* A maximum of UINT32_MAX is written as none.
WriteLimits(l) ==
    [min |-> l.min, max |-> IF l.max = UINT32_MAX THEN -1 ELSE l.max,
     shared |-> l.shared,
     shift |-> IF l.page = "byte" THEN "byte" ELSE "none"]

WriteTabletype(t) == [et |-> t.et, lim |-> WriteLimits(t.lim)]

\* There is no case for tags: nothing is written after the kind.
WriteImport(i) ==
    CASE i.kind = "table"  -> [i EXCEPT !.desc = WriteTabletype(@)]
      [] i.kind = "memory" -> [i EXCEPT !.desc = WriteLimits(@)]
      [] i.kind = "tag"    -> [i EXCEPT !.kind = "cut"]
      [] OTHER             -> i

WriteGlobal(g) == [t |-> g.type.t, mut |-> g.type.mut, init |-> g.init]

\* There is no case for tags: the kind is not written.
WriteExport(e) == IF e.kind = "tag" THEN [e EXCEPT !.kind = "cut"] ELSE e

\* A segment of no elements has neither a list of functions nor one of
\* expressions, and is written as one of expressions.
ListsFuncs(e) == ~e.exprs /\ e.init # <<>>

WriteElement(e) ==
    LET general == e.table # 0 \/ e.type # "funcref"
        funcs == ListsFuncs(e)
    IN  [form |-> CASE e.mode = "active" -> (IF general THEN 2 ELSE 0)
                                            + (IF funcs THEN 0 ELSE 4)
                    [] e.mode = "passive" -> IF funcs THEN 1 ELSE 5
                    [] OTHER              -> IF funcs THEN 3 ELSE 7,
         table |-> e.table, type |-> e.type, offset |-> e.offset,
         init |-> e.init]

\* All chunks are written, the ones read_locals has skipped too.
WriteLocals(lt) == lt.chunks

WriteFunc(f) == [locals |-> WriteLocals(f.locals), body |-> f.body,
                 trailing |-> FALSE]

WriteData(d) == [form |-> CASE d.passive -> 1
                            [] d.mem = 0 -> 0
                            [] OTHER     -> 2,
                 mem |-> d.mem, offset |-> d.offset, short |-> FALSE]

Map(s, Op(_)) == [k \in DOMAIN s |-> Op(s[k])]

\* A section of no items is not written.
WriteSection(id, items) ==
    IF items = <<>> THEN <<>>
    ELSE <<[id |-> id, items |-> items, extra |-> FALSE]>>

\* Mutant: the count of data segments is not written.
WriteDatacount_None(m) == <<>>

WriteDatacount(m) ==
    WriteSection("datacount", IF m.datas = <<>> THEN <<>>
                              ELSE <<Len(m.datas)>>)

ModuleWrite(m) ==
    WriteSection("type", Map(m.types, WriteFunctype))
    \o WriteSection("import", Map(m.imports, WriteImport))
    \o WriteSection("function", m.functypeidxes)
    \o WriteSection("table", Map(m.tables, WriteTabletype))
    \o WriteSection("memory", Map(m.mems, WriteLimits))
    \o WriteSection("tag", m.tags)
    \o WriteSection("global", Map(m.globals, WriteGlobal))
    \o WriteSection("export", Map(m.exports, WriteExport))
    \o WriteSection("start", IF m.start < 0 THEN <<>> ELSE <<m.start>>)
    \o WriteSection("element", Map(m.elems, WriteElement))
    \o WriteDatacount(m)
    \o WriteSection("code", Map(m.funcs, WriteFunc))
    \o WriteSection("data", Map(m.datas, WriteData))

\* The assertions on the way that some module fails: there is no case for
\* tags, init_exprs is set if funcs is not, and after the expressions of a
\* segment case 7 of write_element goes on to default, assert(0).
AssertionsHold(m) ==
    /\ \A i \in Range(m.imports) \cup Range(m.exports) : i.kind # "tag"
    /\ \A e \in Range(m.elems) : ListsFuncs(e)

\* "debug" is a build with assertions, which ends at one that fails.
SaveModule ==
    /\ phase = "ready"
    /\ copy = <<>>
    /\ \E debug \in BOOLEAN :
         IF debug /\ ~AssertionsHold(lctx.m)
         THEN phase' = "aborted" /\ UNCHANGED copy
         ELSE copy' = <<ModuleWrite(lctx.m)>> /\ UNCHANGED phase
    /\ UNCHANGED <<file, secs, order, lctx>>

Init == LInit
Next == LNext \/ SaveModule
Spec == Init /\ [][Next]_vars

-----------------------------------------------------------------------------
\* The result of loading a file when no allocation fails.
LoadAll(ss) ==
    LET step(x, s) ==
            IF x.c.ok /\ SectionFits(x.o, s)
            THEN [c |-> ReadSection(x.c, s), o |-> NextOrder(x.o, s)]
            ELSE [x EXCEPT !.c.ok = FALSE]
        last(x) == x.c
    IN  Then(last(FoldLeft(step, [c |-> EmptyContext, o |-> 0], ss)),
             FinalChecks)

\* What a module means: without custom sections and without what only makes
\* it run faster.
Meaning(m) ==
    [m EXCEPT !.names = 0, !.dylink = <<>>,
              !.types = Map(@, WriteFunctype),
              !.funcs = [k \in DOMAIN @ |->
                           [locals |-> SelectSeq(@[k].locals.chunks,
                                                 LAMBDA g : g.n > 0),
                            body |-> @[k].body]]]

LoadedAs(c, meaning) == c.ok /\ Meaning(c.m) = meaning

\* What module_write writes, if no assertion ends it, can be loaded, and is a
\* module with the same meaning ("a semantically same wasm module", examples/wasm2wasm/README.md).
SemanticCopy ==
    copy # <<>> /\ phase = "ready" =>
      LoadedAs(LoadAll(copy[1]), Meaning(lctx.m))

\* No assertion of module_write fails for a module that module_create has
\* accepted (lib/module_writer.c:221, 263, 301 and 382).
WriterAssertionsHold == phase # "aborted"

=============================================================================
