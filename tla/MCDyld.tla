------------------------------- MODULE MCDyld -------------------------------
(* File systems for TLC: one for each way a program is put together.        *)
EXTENDS Dyld, TLC

Lib == [valid |-> TRUE, missing |-> FALSE, dylink |-> TRUE, pie |-> TRUE,
        adopt |-> TRUE, size |-> 8, align |-> 3, tsize |-> 1, talign |-> 0,
        needs |-> <<>>, imports |-> <<>>, weak |-> {}, exports |-> <<>>,
        reloc |-> "none", ctor |-> FALSE, inst |-> "ok"]

Im(k, sym) == [k |-> k, sym |-> sym, ft |-> "t"]
Fn(sym, ix) == [sym |-> sym, k |-> "func", ix |-> ix, ft |-> "t"]
Dt(sym, ix) == [sym |-> sym, k |-> "data", ix |-> ix, ft |-> ""]
Names == {"a", "b", "c", "p", "q", "x/y"}
Dir(files) == files @@ [n \in Names |-> NoFile]

Main == [Lib EXCEPT !.size = 21, !.align = 4, !.tsize = 2, !.ctor = TRUE,
           !.exports = <<Fn("_start", 1)>>]

\* a and b both need c and define f; c wants f and x back; a names one
\* function twice.  p and q are loaded by the program.
Diamond ==
    [main |-> [Main EXCEPT !.needs = <<"a", "b">>, !.reloc = "ok",
                 !.imports = <<Im("GOT.mem", "x"), Im("GOT.func", "f"),
                               Im("env", "g"), Im("GOT.mem", "__heap_base")>>],
     dirs |-> <<Dir([n \in {"a", "b", "c", "p"} |->
        CASE n = "a" -> [Lib EXCEPT !.needs = <<"c">>, !.ctor = TRUE,
                          !.exports = <<Fn("f", 1), Fn("g", 1)>>]
          [] n = "b" -> [Lib EXCEPT !.needs = <<"c", "a">>, !.reloc = "ok", !.ctor = TRUE,
                          !.imports = <<Im("env", "f"), Im("GOT.func", "g"),
                                        Im("GOT.func", "f")>>,
                          !.exports = <<Fn("f", 1), Dt("x", 2)>>]
          [] n = "c" -> [Lib EXCEPT !.size = 12, !.ctor = TRUE,
                          !.imports = <<Im("GOT.func", "f"), Im("GOT.mem", "x"),
                                        Im("GOT.func", "w"), Im("env", "w")>>,
                          !.weak = {"w"}, !.exports = <<Dt("x", 4)>>]
          [] n = "p" -> [Lib EXCEPT !.needs = <<"c">>, !.ctor = TRUE,
                          !.imports = <<Im("GOT.func", "f"), Im("env", "w")>>,
                          !.exports = <<Fn("w", 1), Fn("f", 2)>>]])>>,
     base |-> TRUE, open |-> {"p"}]

\* Libraries that need each other, and one that needs itself; b is found in
\* the second directory because its imports are not there in the first.
Cycle ==
    [main |-> [Main EXCEPT !.needs = <<"a">>, !.imports = <<Im("GOT.func", "f")>>],
     dirs |-> <<Dir([n \in {"b"} |-> [Lib EXCEPT !.inst = "noimport"]]),
                Dir([n \in {"a", "b", "p"} |->
        CASE n = "a" -> [Lib EXCEPT !.needs = <<"b", "a">>, !.ctor = TRUE,
                          !.imports = <<Im("env", "f")>>]
          [] n = "b" -> [Lib EXCEPT !.needs = <<"a">>, !.ctor = TRUE, !.reloc = "ok",
                          !.exports = <<Fn("f", 1)>>]
          [] n = "p" -> [Lib EXCEPT !.needs = <<"b", "x/y">>]])>>,
     base |-> TRUE, open |-> {"p", "q"}]

\* A main module with its own memory; p fails for want of a symbol after c
\* was loaded, q needs c.
NonPie ==
    [main |-> [Main EXCEPT !.pie = FALSE, !.size = 32, !.align = 0],
     dirs |-> <<Dir([n \in {"c", "p", "q"} |->
        CASE n = "c" -> [Lib EXCEPT !.imports = <<Im("GOT.func", "u")>>,
                          !.ctor = TRUE, !.exports = <<Fn("v", 1)>>]
          [] n = "p" -> [Lib EXCEPT !.needs = <<"c">>,
                          !.imports = <<Im("GOT.mem", "nowhere")>>]
          [] n = "q" -> [Lib EXCEPT !.needs = <<"c">>, !.ctor = TRUE,
                          !.imports = <<Im("env", "v"), Im("env", "u")>>,
                          !.exports = <<Fn("u", 1)>>]])>>,
     base |-> TRUE, open |-> {"p", "q"}]

\* Needs that are not there, and files that cannot be used
Broken ==
    [main |-> Main,
     dirs |-> <<Dir([n \in {"a", "b", "c", "p", "q"} |->
        CASE n = "a" -> [Lib EXCEPT !.inst = "trap"]
          [] n = "b" -> [Lib EXCEPT !.dylink = FALSE]
          [] n = "c" -> [Lib EXCEPT !.needs = <<"x/y">>]
          [] n = "p" -> [Lib EXCEPT !.needs = <<"c">>, !.size = 30]
          [] n = "q" -> [Lib EXCEPT !.needs = <<"c">>, !.reloc = "bad",
                          !.tsize = 14]])>>,
     base |-> TRUE, open |-> {"a", "b", "p", "q"}]

\* Objects as large as the memory, constructors that load objects
Large ==
    [main |-> [Main EXCEPT !.needs = <<"a">>, !.imports = <<Im("env", "f")>>],
     dirs |-> <<Dir([n \in {"a", "p", "q"} |->
        CASE n = "a" -> [Lib EXCEPT !.ctor = TRUE, !.size = 20]
          [] n = "p" -> [Lib EXCEPT !.size = 90, !.align = 5, !.ctor = TRUE,
                          !.exports = <<[Fn("f", 1) EXCEPT !.ft = "other"]>>]
          [] n = "q" -> [Lib EXCEPT !.size = 70, !.ctor = TRUE,
                          !.exports = <<Fn("f", 2)>>]])>>,
     base |-> TRUE, open |-> {"p", "q"}]

\* p needs q and c, q needs p; the program loads what it has already got.
Twice ==
    [main |-> [Main EXCEPT !.tsize = 1],
     dirs |-> <<Dir([n \in {"c", "p", "q"} |->
        CASE n = "c" -> [Lib EXCEPT !.ctor = TRUE]
          [] n = "p" -> [Lib EXCEPT !.needs = <<"q", "c">>, !.ctor = TRUE,
                          !.reloc = "ok", !.imports = <<Im("GOT.func", "f")>>]
          [] n = "q" -> [Lib EXCEPT !.needs = <<"p">>, !.ctor = TRUE,
                          !.exports = <<Fn("f", 1)>>]])>>,
     base |-> TRUE, open |-> {"q"}]

Unusable ==
    {[main |-> m, dirs |-> <<Dir([n \in {"a"} |-> Lib])>>, base |-> b, open |-> {}] :
       b \in BOOLEAN, m \in {NoFile, [Main EXCEPT !.valid = FALSE],
              [Main EXCEPT !.pie = FALSE, !.adopt = FALSE],
              [Main EXCEPT !.pie = FALSE],
              [Main EXCEPT !.needs = <<"a">>, !.imports = <<Im("GOT.mem", "u")>>],
              [Main EXCEPT !.imports = <<Im("env", "u")>>]}}

Programs == {Diamond, Cycle, NonPie, Broken, Large, Twice}
MCWorlds == Programs \cup Unusable
=============================================================================
