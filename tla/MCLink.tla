------------------------------- MODULE MCLink -------------------------------
(***************************************************************************)
(* Small files for Link.  Host exports a table, a memory, functions and a  *)
(* global; the others import them, in ways that match or not, write their  *)
(* functions to the table, time out, trap, use WASI or shared memories.    *)
(***************************************************************************)
EXTENDS Link

Ft1 == [a |-> 1, min |-> 0, max |-> 0]
Ft2 == [a |-> 2, min |-> 0, max |-> 0]
Lim(a, lo, hi) == [a |-> a, min |-> lo, max |-> hi]
F(op, arg) == [ty |-> Ft1, op |-> op, arg |-> arg]
Ex(name, k, idx) == [name |-> name, k |-> k, idx |-> idx]
Im(mod, name, k, ty) == [mod |-> mod, name |-> name, k |-> k, ty |-> ty]
El(table, at, funcs, mode) == [table |-> table, at |-> at, funcs |-> funcs, mode |-> mode]

Empty == [imports |-> <<>>, funcs |-> <<>>, tables |-> <<>>, mems |-> <<>>,
          globals |-> <<>>, tags |-> <<>>, exports |-> <<>>, elems |-> <<>>,
          datas |-> <<>>, start |-> 0]

R1 == 11
R2 == 12

\* Export names in their order: 1 call, 2 grow, 3 the table, 4 "memory",
\* 5 a global, 6 "_start", 7 a tag
Host ==
    [Empty EXCEPT !.funcs = <<F("call_indirect", 1), F("table.grow", 0)>>,
        !.tables = <<Lim(1, 1, 2)>>, !.mems = <<Lim(0, 1, Unlimited)>>,
        !.globals = <<Lim(1, 0, 0)>>, !.tags = <<Ft1>>,
        !.exports = <<Ex(1, "func", 1), Ex(2, "func", 2), Ex(3, "table", 1),
                      Ex(4, "mem", 1), Ex(5, "global", 1), Ex(7, "tag", 1)>>]

\* The same with a function nobody defines: loaded with
\* --allow-unresolved-functions, it calls the function that stands for it.
HostU == [Host EXCEPT !.imports = <<Im(R2, 6, "func", Ft1)>>,
             !.funcs = <<F("call_indirect", 1), F("call", 1)>>,
             !.exports = <<Ex(1, "func", 2), Ex(2, "func", 3), Ex(3, "table", 1),
                           Ex(4, "mem", 1)>>]

\* Puts its function into the imported table, then its start function loops
\* until the timeout; exports the imported table again.
Plugin(start) ==
    [Empty EXCEPT !.imports = <<Im(R1, 3, "table", Lim(1, 1, 2)), Im(R1, 1, "func", Ft1)>>,
        !.funcs = <<F("nop", 0), F(start, 1)>>,
        !.mems = <<Lim(0, 1, 1)>>, !.datas = <<[mem |-> 1, end |-> 1]>>,
        !.elems = <<El(1, 0, <<2>>, "active")>>, !.start = 3,
        !.exports = <<Ex(1, "func", 2), Ex(3, "table", 1), Ex(4, "mem", 1)>>]

\* Needs the table to have grown, and accepts a table of any maximum; its
\* second segment is beyond the table that satisfies the import.
Big ==
    [Empty EXCEPT !.imports = <<Im(R1, 3, "table", Lim(1, 2, Unlimited)),
                                Im(R2, 7, "tag", Ft1)>>,
        !.funcs = <<F("table.init", 1)>>,
        !.elems = <<El(1, 1, <<1>>, "active"), El(1, 2, <<1>>, "active")>>,
        !.exports = <<Ex(2, "func", 1)>>]

\* A program that uses WASI and, if there are threads, a shared memory.
Prog ==
    [Empty EXCEPT !.imports = <<Im(WasiName, 1, "func", Ft1),
                                Im(R1, 4, "mem", Lim(SharedFlag, 1, 2))>>,
        !.funcs = <<F("call", 1), F("memory.grow", 0)>>,
        !.exports = <<Ex(1, "func", 2), Ex(2, "func", 3), Ex(4, "mem", 1), Ex(6, "func", 2)>>]

\* Has to be given two shared memories, and has none to offer to WASI.
Pair ==
    [Empty EXCEPT !.imports = <<Im(R1, 8, "mem", Lim(SharedFlag, 0, 1)),
                                Im(R1, 9, "mem", Lim(SharedFlag, 1, 1))>>]

MCModules == [host |-> Host, hostu |-> HostU, trap |-> Plugin("trap"), loop |-> Plugin("loop"),
              big |-> Big, prog |-> Prog, pair |-> Pair]
MCOptions == [timeout : BOOLEAN, unresolved : BOOLEAN]
MCFailures == {"none", "buf", "shared", "dummies", "inst", "name"}
=============================================================================
