------------------------------- MODULE MCLoad -------------------------------
(* Six families of small modules for the loader and the writer.            *)
EXTENDS ModuleWriter

CONSTANT AllForms     \* groups of no locals, tag imports, and shared
                        \* memories with the largest maximum are read, too

Sec(id, items) == [id |-> id, items |-> items, extra |-> FALSE]
Skip == [id |-> "skip"]
Secs(id, s) == {Sec(id, items) : items \in s}
Custom(name, items) == [id |-> "custom", name |-> name, items |-> items,
                        extra |-> FALSE]

T0 == [p |-> <<>>, r |-> <<>>]
T1 == [p |-> <<"i32">>, r |-> <<"i64">>]
TBad == [p |-> <<"i32">>, r |-> <<"bad">>]
TBig == [p |-> <<"v128", "i64">>, r |-> <<>>]

Im(name, kind, desc) == [module |-> 1, name |-> name, kind |-> kind,
                         desc |-> desc]
Ex(name, kind, idx) == [name |-> name, kind |-> kind, idx |-> idx]
I32 == [op |-> "const", t |-> "i32"]
I64 == [op |-> "const", t |-> "i64"]
RefNull(t) == [op |-> "ref_null", t |-> t]
RefFunc(f) == [op |-> "ref_func", idx |-> f]
GlobalGet(g) == [op |-> "global_get", idx |-> g]
Glob(t, mut, init) == [t |-> t, mut |-> mut, init |-> init]
Seg(form, type, init) == [form |-> form, table |-> 1, offset |-> I32,
                          type |-> type, init |-> init]
Lim(min, max) == [min |-> min, max |-> max, shared |-> FALSE,
                  shift |-> "none"]
Tab(et, min, max) == [et |-> et, lim |-> Lim(min, max)]

Body == [valid |-> TRUE, jumps |-> FALSE, ref_func |-> {},
         memory_init |-> {}, elem_drop |-> {}]
Func(locals, body) == [locals |-> locals, body |-> body, trailing |-> FALSE]
F0 == Func(<<>>, Body)
FJumps == Func(<<[n |-> 2, t |-> "i64"], [n |-> 1, t |-> "i32"]>>,
               [Body EXCEPT !.jumps = TRUE])
FInvalid == [FJumps EXCEPT !.body.valid = FALSE]
FRef(f) == Func(<<>>, [Body EXCEPT !.ref_func = {f}])
FInit(d) == Func(<<>>, [Body EXCEPT !.memory_init = {d}])
FDrop(e) == Func(<<>>, [Body EXCEPT !.elem_drop = {e}])
FZero == Func(<<[n |-> 0, t |-> "i64"], [n |-> 1, t |-> "i32"]>>, Body)

Data(form) == [form |-> form, mem |-> 1, offset |-> I32, short |-> FALSE]

\* Functions, what declares them, and what refers to them.
Functions ==
    <<Secs("type", {<<T0, T1>>, <<T1, TBad>>}),
      {Skip} \cup Secs("import", {<<Im(1, "func", 1), Im(1, "func", 0)>>,
                                  <<Im(1, "func", 0), Im(0, "func", 0)>>,
                                  <<Im(1, "func", 2)>>}),
      {Skip} \cup Secs("function", {<<>>, <<0>>, <<0, 1>>, <<2>>}),
      {Skip} \cup Secs("export", {<<Ex(2, "func", 1), Ex(1, "func", 0)>>,
                                  <<Ex(1, "func", 0), Ex(2, "func", 0),
                                    Ex(1, "func", 0)>>,
                                  <<Ex(0, "func", 0)>>}),
      {Skip} \cup Secs("start", {<<0>>, <<1>>, <<3>>}),
      {Skip} \cup Secs("element", {<<Seg(3, "funcref", <<RefFunc(0), RefFunc(1)>>)>>,
                                   <<Seg(1, "funcref", <<RefFunc(0)>>),
                                     Seg(1, "funcref", <<RefFunc(0), RefFunc(3)>>)>>}),
      {Skip} \cup Secs("code", {<<FRef(1)>>, <<FRef(0), FJumps>>,
                                <<FJumps, FInvalid>>, <<FDrop(1)>>,
                                <<FJumps, [FJumps EXCEPT !.trailing = TRUE]>>
                               })>>

\* Data segments and the count that the code is validated with.
Datas ==
    <<Secs("type", {<<T0>>}),
      {Skip} \cup Secs("import", {<<Im(1, "memory", Lim(0, 1))>>}),
      Secs("function", {<<0>>}),
      {Skip} \cup Secs("memory", {<<Lim(1, -1)>>}),
      {Skip, [Sec("datacount", <<1>>) EXCEPT !.extra = TRUE]}
        \cup Secs("datacount", {<<0>>, <<2>>}),
      Secs("code", {<<F0>>, <<FInit(0)>>, <<FInit(1)>>}),
      {Skip, [Sec("data", <<Data(0)>>) EXCEPT !.extra = TRUE]}
        \cup Secs("data", {<<Data(0)>>, <<Data(1), Data(2)>>,
                           <<Data(1), [Data(0) EXCEPT !.short = TRUE]>>,
                           <<Data(3)>>})>>

\* Tables, globals and the eight forms of an element segment.
Elements ==
    <<Secs("type", {<<T0>>}),
      {Skip} \cup Secs("import",
        {<<Im(1, "global", [t |-> "i32", mut |-> "const"]),
           Im(1, "table", Tab("externref", 0, 1))>>,
         <<Im(1, "global", [t |-> "i32", mut |-> "var"]),
           Im(1, "func", 0)>>}),
      {Skip} \cup Secs("function", {<<0>>}),
      {Skip} \cup Secs("table", {<<Tab("funcref", 1, -1)>>,
                                 <<Tab("i32", 0, 0)>>}),
      {Skip} \cup Secs("global", {<<Glob("i32", "var", GlobalGet(0))>>,
                                  <<Glob("funcref", "const", RefFunc(0))>>,
                                  <<Glob("i32", "bad", I32)>>,
                                  <<Glob("i64", "const", I32)>>,
                                  <<Glob("i32", "const", I32),
                                    Glob("i32", "const", GlobalGet(1))>>}),
      {Skip} \cup Secs("element",
        {<<Seg(n, "funcref", <<RefFunc(0)>>)>> : n \in 0..3}
        \cup {<<Seg(n, t, <<RefNull(t)>>)>> : n \in 4..8, t \in RefTypes}
        \cup {<<Seg(n, "funcref", <<>>)>> : n \in {0, 2, 3, 6}}
        \cup {<<Seg(1, "funcref", <<RefFunc(0)>>), Seg(2, "externref", <<>>)>>,
              <<Seg(7, "funcref", <<RefFunc(0)>>),
                Seg(6, "funcref", <<RefFunc(0), I64>>)>>}),
      {Skip} \cup Secs("code", {<<FRef(0)>>, <<FDrop(0)>>})>>

\* The limits of memories and tables, at the edges of their ranges.
Limits ==
    LET edges == {<<0, -1>>, <<MaxPages, MaxPages>>, <<1, MaxPages + 1>>,
                  <<MaxPages + 1, -1>>, <<2, 1>>, <<UINT32_MAX, -1>>,
                  <<0, UINT32_MAX>>, <<UINT32_MAX, UINT32_MAX>>}
        shapes == {[Lim(e[1], e[2]) EXCEPT !.shared = sh, !.shift = shift] :
                     e \in edges, sh \in BOOLEAN,
                     shift \in {"none", "64k", "byte", "bad"}}
        read == {l \in shapes : AllForms \/ ~l.shared \/ l.max < UINT32_MAX}
    IN  <<{Skip} \cup Secs("import", {<<Im(1, "memory", l)>> :
                                       l \in {x \in read : x.min = 0}}),
          {Skip} \cup Secs("table",
             {<<[et |-> "externref", lim |-> l]>> : l \in read}),
          {Skip} \cup Secs("memory", {<<l>> : l \in read})>>

\* Tags, the order of sections, and sections that are not known.
Order ==
    <<Secs("type", {<<T0, T1, TBig>>, <<>>}),
      {Skip} \cup Secs("tag", {<<0>>, <<1>>, <<2>>})
             \cup (IF AllForms THEN Secs("import", {<<Im(1, "tag", 0)>>})
                                 ELSE {}),
      {Skip, Sec("unknown", <<>>)} \cup Secs("import", {<<Im(2, "func", 0)>>}),
      {Skip} \cup Secs("function", {<<0>>}) \cup Secs("type", {<<T0>>}),
      {Skip} \cup Secs("export",
        {<<Ex(1, "memory", 0)>>, <<Ex(1, "table", 0)>>}
        \cup (IF AllForms THEN {<<Ex(1, "tag", 0)>>} ELSE {})),
      {Skip} \cup Secs("code", {<<F0>>}
                               \cup (IF AllForms THEN {<<FZero>>} ELSE {}))
             \cup Secs("global", {<<Glob("i32", "const", I32)>>})>>

\* Custom sections; export_info is not known to the loader.
Sub(type, items) == [type |-> type, items |-> items]
Customs ==
    LET dylinks == {<<>>, <<Sub("mem_info", <<3>>)>>,
                    <<Sub("needs", <<1, 2>>), Sub("import_info", <<1>>)>>,
                    <<Sub("needs", <<1, 0>>)>>,
                    <<Sub("needs", <<1>>), Sub("needs", <<2>>)>>,
                    <<Sub("import_info", <<2>>), Sub("export_info", <<>>)>>,
                    <<Sub("export_info", <<>>), Sub("needs", <<1>>)>>,
                    <<Sub("mem_info", <<3>>), Sub("export_info", <<>>),
                      Sub("import_info", <<1>>)>>}
    IN  <<{Custom("dylink.0", d) : d \in dylinks}
            \cup {Custom("bad", <<>>), Custom("other", <<>>)},
          {Skip} \cup Secs("type", {<<T0>>}),
          {Skip, Custom("name", <<Sub("names", <<7>>)>>),
           Custom("dylink.0", <<Sub("needs", <<1>>)>>)}
            \cup Secs("import", {<<Im(1, "func", 0)>>}),
          {Skip} \cup Secs("function", {<<0>>}),
          {Skip} \cup Secs("code", {<<F0>>})>>

MCFiles == <<Functions, Datas, Elements, Limits, Order, Customs>>
=============================================================================
