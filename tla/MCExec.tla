------------------------------- MODULE MCExec -------------------------------
(* Exec for TLC: a function "a" of one module, a function "b" of another    *)
(* one, and a host function "h".                                            *)
EXTENDS Exec

Same == [p |-> <<"i32">>, r |-> <<"i64">>]

MCFuncType == [f \in {"a", "b", "h"} |-> Same]
MCLocalTypes == [f \in {"a", "b"} |-> IF f = "a" THEN <<"i64">> ELSE <<>>]
MCTagType == [g \in {"e"} |-> <<"i64">>]
MCOrder == <<"a", "b">>

I(op) == [op |-> op]
Block(op, ps, rs) == [op |-> op, bt |-> [p |-> ps, r |-> rs]]
Const(t) == [op |-> "const", type |-> t]
Arg == [op |-> "local_get", idx |-> 0]
Local(op) == [op |-> op, idx |-> 1]
Br(op, l) == [op |-> op, label |-> l]
BrTable(ls) == [op |-> "br_table", labels |-> ls]
Call(op, f) == [op |-> op, func |-> f]
Indirect(op) == [op |-> op, type |-> Same]
Throw == [op |-> "throw", tag |-> "e"]
Catch(tag, ref, l) == [tag |-> tag, ref |-> ref, label |-> l]
Try(rs, cs) == [op |-> "try_table", bt |-> [p |-> <<>>, r |-> rs],
                catches |-> cs]

i32 == Const("i32")
i64 == Const("i64")
Only(is) == [k \in 1..Len(is) |-> {is[k]}]

Leaf == Only(<<i64, I("end")>>)
Reads(a, b) == [f \in {"a", "b"} |-> IF f = "a" THEN a ELSE b]

Calls == {Call("call", "a"), Call("call", "b"), Call("call", "h"),
          Call("return_call", "b"), Call("return_call", "h"), Indirect("call_indirect"),
          Indirect("return_call_indirect")}

\* Nested blocks of every kind, with and without parameters and "else".
Control ==
    LET inner == {Arg, i64, I("drop"), I("else"), I("end"), Br("br", 0),
                  Br("br_if", 1), BrTable(<<1, 0>>)}
        open == {Block("block", <<"i32">>, <<"i64">>),
                 Block("if", <<>>, <<"i64">>), Block("if", <<>>, <<>>),
                 Block("loop", <<"i32">>, <<"i64">>)}
    IN  <<{Arg}, {Arg} \cup open, open>> \o [k \in 1..4 |-> inner]
        \o <<{I("end"), i64, I("unreachable")}, {I("end")}>>

\* Values of several sizes under untyped instructions.
Untyped ==
    LET insn == {i32, i64, I("drop"), I("select"), I("end"),
                 Local("local_get"), Local("local_set"), Local("local_tee")}
    IN  <<{i64}, {i64, i32}>> \o [k \in 1..5 |-> insn] \o <<{I("end")}>>

\* Branches in a loop, with calls between them.
Looping(inner) ==
    Only(<<Arg, Block("loop", <<"i32">>, <<"i64">>)>> \o inner)
    \o <<Calls>>
    \o Only(<<Arg, Arg, Br("br_if", 0), I("drop"), I("end"), I("end")>>)

BlockInside == <<Block("block", <<"i32">>, <<"i32">>), Arg, Br("br_if", 0),
                 I("end")>>
IfInside == <<Block("if", <<>>, <<"i32">>), i32, I("else"), Arg, I("end")>>

\* A host function called above other operands.
Hosted == <<{i64}, {i64}, {Arg, i64}, {Arg}, Calls, {I("return")}, {I("end")}>>

\* Handlers for what is thrown here or in a function called.
Handling(results, clauses) ==
    <<{Block("block", <<>>, results)}, {Block("block", <<>>, <<"i64">>)},
      {Try(<<"i64">>, cs) : cs \in clauses},
      {Arg, i64}, Calls \cup {Throw}, {I("end")}, {I("end")}, {I("return")},
      {I("end")}, {I("throw_ref"), I("drop")}, {i64, I("end")}, {I("end")}>>

Catching == Handling(<<"exnref">>,
                     {<<Catch("e", FALSE, 0)>>, <<Catch("e", FALSE, 2)>>,
                      <<Catch("all", TRUE, 1), Catch("e", FALSE, 0)>>})
CatchingRef == Handling(<<"i64", "exnref">>, {<<Catch("e", TRUE, 1)>>})

\* A wait with other operands below it, that is restarted.
WaitInsn == I("atomic_wait")
Wait == Only(<<i64, i32, i32, i64, WaitInsn, I("drop"), I("end")>>)

\* What the other function does.
Jumps == Only(<<Arg, Block("if", <<>>, <<"i64">>), i64, I("else"), i64, I("end"),
                I("end")>>)
Calling == <<{Arg}, {Arg}, {Call("call", "h"), Call("return_call", "h"),
                            Call("call", "a")}, {I("return")}, {I("end")}>>
Throwing == Only(<<i64, Throw, I("end")>>)

MCFiles ==
    <<Reads(Control, Leaf), Reads(Untyped, Leaf),
      Reads(Looping(BlockInside), Jumps), Reads(Looping(IfInside), Jumps),
      Reads(Hosted, Leaf), Reads(Hosted, Wait), Reads(Hosted, Calling),
      Reads(Catching, Throwing), Reads(CatchingRef, Throwing)>>

=============================================================================
