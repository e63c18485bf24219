----------------------------- MODULE Validation -----------------------------
(***************************************************************************)
(* The validation of function bodies: lib/validation.c, the loop of        *)
(* read_expr_common in lib/expr.c, and the VALIDATING half of the control, *)
(* call and exception instructions.  It leaves behind what the interpreter *)
(* trusts without a check (struct expr_exec_info): the jump table, the     *)
(* number of labels and of stack cells a frame needs, and the sizes of the *)
(* values of the untyped instructions.                                     *)
(*                                                                         *)
(* A module has one function; functions of different modules call each     *)
(* other through imports.  The position of an instruction in its module is *)
(* that of its first byte; an instruction has one byte, or two if it has   *)
(* an immediate.                                                           *)
(***************************************************************************)
EXTENDS Integers, Sequences, FiniteSets, SequencesExt

CONSTANTS
    WasmFuncs,      \* functions with a body, each in a module of its own
    HostFuncs,      \* host functions
    FuncType,       \* [p |-> parameter types, r |-> result types] of each
    LocalTypes,     \* types of the locals (without the parameters)
    Tags,           \* exception tags
    TagType,        \* the types of the parameters of each tag
    MaxExnCells,    \* TOYWASM_EXCEPTION_MAX_CELLS
    Order,          \* the functions with a body, in the order they are read
    Files,          \* what may be read: a sequence of files, each of them for
                    \* each function the sequence of the sets its
                    \* instructions are taken from
    JumpTables      \* values of the option generate_jump_table

Funcs == WasmFuncs \cup HostFuncs

VARIABLES
    file,           \* which file is being read
    generate,       \* load_options.generate_jump_table
    code,           \* the bytes of each function read so far
    vctx,           \* struct validation_context
    nfuncs,         \* how many functions are validated
    ei,             \* struct expr_exec_info of the validated functions
    seen,           \* history: what was known before each instruction
    rejected        \* the module was refused

vvars == <<file, generate, code, vctx, nfuncs, ei, seen, rejected>>

-----------------------------------------------------------------------------
Unknown == "unknown"
ValTypes == {"i32", "i64", "exnref"}

CellSize(t) == CASE t = "i32" -> 1
                 [] t = "i64" -> 2
                 [] t = "exnref" -> MaxExnCells + 1

CellsSize(ts) == FoldLeft(LAMBDA n, t : n + CellSize(t), 0, ts)

Larger(a, b) == IF a > b THEN a ELSE b

ASSUME ValidationAssumption ==
    /\ WasmFuncs \cap HostFuncs = {}
    /\ \A f \in Funcs : /\ FuncType[f].p \in Seq(ValTypes)
                        /\ FuncType[f].r \in Seq(ValTypes)
    /\ \A f \in WasmFuncs : LocalTypes[f] \in Seq(ValTypes)
    /\ \A g \in Tags : /\ TagType[g] \in Seq({"i32", "i64"})
                       /\ CellsSize(TagType[g]) <= MaxExnCells
    /\ Range(Order) = WasmFuncs
    /\ JumpTables \subseteq BOOLEAN

BlockOps == {"block", "loop", "if", "try_table"}

\* The bytes an instruction occupies; the second one is its immediate.
Imm == [op |-> "imm"]
Bytes(i) == IF i.op \in {"else", "end", "return", "unreachable", "drop",
                         "select", "throw_ref"}
            THEN <<i>> ELSE <<i, Imm>>

EmptyInfo == [jumps |-> <<>>, maxlabels |-> 0, maxcells |-> 0,
              default_size |-> 0, types |-> <<>>]

-----------------------------------------------------------------------------
(* The stacks.  A context whose "ok" is FALSE has failed; "t" is the type  *)
(* popped last, "top" the control frame popped last.                       *)

NoFrame == [op |-> "none", slot |-> 0, start |-> <<>>, end |-> <<>>,
            unreachable |-> FALSE, height |-> 0, height_cell |-> 0]

Fail(v) == [v EXCEPT !.ok = FALSE]

CurrentFrame(v) == Last(v.cframes)

PushValtype(v, t) ==
    IF CurrentFrame(v).unreachable
    THEN [v EXCEPT !.valtypes = Append(@, t)]
    ELSE LET n == v.ncells + CellSize(t)
         IN  [v EXCEPT !.valtypes = Append(@, t),
                       !.ncells = n,
                       !.ei.maxcells = Larger(@, n)]

PushValtypes(v, ts) == IF v.ok THEN FoldLeft(PushValtype, v, ts) ELSE v

PopValtype(v, expected) ==
    LET fr == CurrentFrame(v)
        t  == Last(v.valtypes)
        w  == [v EXCEPT !.valtypes = Front(@),
                        !.ncells = IF fr.unreachable
                                   THEN @ ELSE @ - CellSize(t),
                        !.t = t]
    IN  IF ~v.ok THEN v
        ELSE IF Len(v.valtypes) = fr.height
             THEN IF fr.unreachable THEN [v EXCEPT !.t = Unknown] ELSE Fail(v)
        ELSE IF Unknown \in {expected, t} \/ t = expected THEN w
        ELSE Fail(v)

PopValtypes(v, ts) == FoldLeft(PopValtype, v, Reverse(ts))

PeekValtypes(v, ts) == [v EXCEPT !.ok = PopValtypes(v, ts).ok]

PushCtrlframe(v, pc, op, slot, start, end) ==
    LET nslots == CASE ~generate -> 0
                    [] op \in {"invoke", "else", "empty_else", "loop"} -> 0
                    [] op = "if" -> 2
                    [] OTHER -> 1
        fr == [op |-> op,
               slot |-> IF nslots > 0 THEN Len(v.ei.jumps) + 1 ELSE slot,
               start |-> start, end |-> end, unreachable |-> FALSE,
               height |-> Len(v.valtypes), height_cell |-> v.ncells]
        w  == [v EXCEPT
                 !.ei.jumps = @ \o [k \in 1..nslots |->
                                      [pc |-> pc + k - 1, targetpc |-> 0]],
                 !.cframes = Append(@, fr),
                 !.ei.maxlabels = Larger(@, Len(v.cframes) + 1)]
    IN  IF v.ok THEN PushValtypes(w, start) ELSE v

PopCtrlframe(v, pc, is_else) ==
    LET fr == CurrentFrame(v)
        k  == fr.slot + (IF is_else THEN 1 ELSE 0)
        u  == IF /\ fr.op \notin {"invoke", "empty_else", "loop"}
                 /\ v.ei.jumps # <<>>
              THEN [v EXCEPT !.ei.jumps[k].targetpc = pc] ELSE v
        w  == PopValtypes(u, fr.end)
    IN  IF ~v.ok THEN v
        ELSE IF is_else /\ fr.op # "if" THEN Fail(v)
        ELSE IF ~w.ok \/ Len(w.valtypes) # fr.height THEN Fail(w)
        ELSE [w EXCEPT !.cframes = Front(@), !.top = fr]

MarkUnreachable(v) ==
    LET n == Len(v.cframes)
    IN  IF v.ok
        THEN [v EXCEPT !.valtypes = SubSeq(@, 1, v.cframes[n].height),
                       !.ncells = v.cframes[n].height_cell,
                       !.cframes[n].unreachable = TRUE]
        ELSE v

LabelTypes(fr) == IF fr.op = "loop" THEN fr.start ELSE fr.end

HasLabel(v, l) == l < Len(v.cframes)

TargetLabelTypes(v, l) == LabelTypes(v.cframes[Len(v.cframes) - l])

ReturnType(v) == v.cframes[1].end

\* The table of sizes has an entry from the first value on whose size is not
\* the default one (the size of the first value); find_type_annotation looks
\* for the last entry at or before an instruction.  The code compares the size
\* of the last entry with the type t, which are never equal.
RecordTypeAnnotation(v, pc) ==
    LET csz == CellSize(v.t)
    IN  IF ~v.ok \/ CurrentFrame(v).unreachable THEN v
        ELSE IF v.ei.default_size = 0
             THEN [v EXCEPT !.ei.default_size = csz]
        ELSE IF v.ei.types = <<>> /\ v.ei.default_size = csz THEN v
        ELSE [v EXCEPT !.ei.types = Append(@, [pc |-> pc, size |-> csz])]

-----------------------------------------------------------------------------
(* The VALIDATING half of the instructions: pc is the first byte of the    *)
(* instruction, next the byte after it.                                    *)

ValidateBlock(v, i, pc) ==
    LET u == IF i.op = "if" THEN PopValtype(v, "i32") ELSE v
    IN  PushCtrlframe(PopValtypes(u, i.bt.p), pc, i.op, 0, i.bt.p, i.bt.r)

\* The catch clauses are validated before the frame of try_table is pushed:
\* label 0 is the block around it.
CatchTypes(c) == (IF c.tag = "all" THEN <<>> ELSE TagType[c.tag])
                 \o (IF c.ref THEN <<"exnref">> ELSE <<>>)

ValidateCatch(v, c) ==
    IF v.ok /\ HasLabel(v, c.label)
       /\ Len(CatchTypes(c)) = Len(TargetLabelTypes(v, c.label))
    THEN PopValtypes(PushValtypes(v, CatchTypes(c)),
                     TargetLabelTypes(v, c.label))
    ELSE Fail(v)

ValidateTryTable(v, i, pc) ==
    PushCtrlframe(FoldLeft(ValidateCatch, PopValtypes(v, i.bt.p), i.catches),
                  pc, "try_table", 0, i.bt.p, i.bt.r)

ValidateElse(v, next) ==
    LET w == PopCtrlframe(v, next, TRUE)
    IN  PushCtrlframe(w, next - 1, "else", w.top.slot, w.top.start, w.top.end)

\* An "if" without "else" is validated as one with an empty "else".
ValidateEnd(v, next) ==
    LET w == PopCtrlframe(v, next, FALSE)
        x == IF w.ok /\ w.top.op = "if"
             THEN PopCtrlframe(PushCtrlframe(w, next, "empty_else", 0,
                                             w.top.start, w.top.end),
                               next, FALSE)
             ELSE w
    IN  IF x.ok /\ x.top.op # "invoke" THEN PushValtypes(x, x.top.end) ELSE x

ValidateBr(v, l) ==
    IF HasLabel(v, l)
    THEN MarkUnreachable(PopValtypes(v, TargetLabelTypes(v, l))) ELSE Fail(v)

ValidateBrIf(v, l) ==
    LET u  == PopValtype(v, "i32")
        rt == TargetLabelTypes(u, l)
    IN  IF ~u.ok \/ ~HasLabel(u, l) THEN Fail(v)
        ELSE IF CurrentFrame(u).unreachable
             THEN PushValtypes(PopValtypes(u, rt), rt)
        ELSE PeekValtypes(u, rt)

\* The last label is the default one.
ValidateBrTable(v, ls) ==
    LET u == PopValtype(v, "i32")
        peek(w, l) ==
            IF w.ok /\ Len(TargetLabelTypes(w, l))
                       = Len(TargetLabelTypes(w, Last(ls)))
            THEN PeekValtypes(w, TargetLabelTypes(w, l)) ELSE Fail(w)
    IN  IF \A l \in Range(ls) : HasLabel(v, l)
        THEN MarkUnreachable(PopValtypes(FoldLeft(peek, u, Front(ls)),
                                         TargetLabelTypes(v, Last(ls))))
        ELSE Fail(v)

ValidateCall(v, ft) == PushValtypes(PopValtypes(v, ft.p), ft.r)

ValidateReturnCall(v, ft) ==
    IF ft.r = ReturnType(v) THEN MarkUnreachable(PopValtypes(v, ft.p))
                            ELSE Fail(v)

\* Mutant: no room is kept for the exception.
ValidateThrow_NoRoom(v, tag) ==
    MarkUnreachable(PopValtypes(v, TagType[tag]))

\* The exnref is pushed so that the frame has room for push_exception.
ValidateThrow(v, tag) ==
    MarkUnreachable(PushValtypes(PopValtypes(v, TagType[tag]), <<"exnref">>))

ValidateDrop(v, next) == RecordTypeAnnotation(PopValtype(v, Unknown), next)

ValidateSelect(v, next) ==
    LET u == PopValtype(PopValtype(v, "i32"), Unknown)
        w == RecordTypeAnnotation([PopValtype(u, u.t) EXCEPT !.t = u.t], next)
    IN  IF w.ok /\ u.t # "exnref" THEN PushValtypes(w, <<u.t>>) ELSE Fail(w)

LocalType(f, k) == (FuncType[f].p \o LocalTypes[f])[k + 1]

\* memory.atomic.wait32 (address, expected, timeout) stands for the
\* instructions that may be restarted.
WaitType == [p |-> <<"i32", "i32", "i64">>, r |-> <<"i32">>]

Validate(v, f, i, pc) ==
    LET next == pc + Len(Bytes(i))
    IN  CASE i.op \in {"block", "loop", "if"} -> ValidateBlock(v, i, pc)
          [] i.op = "try_table"     -> ValidateTryTable(v, i, pc)
          [] i.op = "else"          -> ValidateElse(v, next)
          [] i.op = "end"           -> ValidateEnd(v, next)
          [] i.op = "unreachable"   -> MarkUnreachable(v)
          [] i.op = "br"            -> ValidateBr(v, i.label)
          [] i.op = "br_if"         -> ValidateBrIf(v, i.label)
          [] i.op = "br_table"      -> ValidateBrTable(v, i.labels)
          [] i.op = "return"        ->
               MarkUnreachable(PopValtypes(v, ReturnType(v)))
          [] i.op = "call"          -> ValidateCall(v, FuncType[i.func])
          [] i.op = "call_indirect" ->
               ValidateCall(PopValtype(v, "i32"), i.type)
          [] i.op = "return_call"   -> ValidateReturnCall(v, FuncType[i.func])
          [] i.op = "return_call_indirect" ->
               ValidateReturnCall(PopValtype(v, "i32"), i.type)
          [] i.op = "throw"         -> ValidateThrow(v, i.tag)
          [] i.op = "throw_ref"     -> MarkUnreachable(PopValtype(v, "exnref"))
          [] i.op = "const"         -> PushValtype(v, i.type)
          [] i.op = "local_get"     -> PushValtype(v, LocalType(f, i.idx))
          [] i.op = "local_set"     -> PopValtype(v, LocalType(f, i.idx))
          [] i.op = "local_tee"     ->
               ValidateCall(v, [p |-> <<LocalType(f, i.idx)>>,
                                r |-> <<LocalType(f, i.idx)>>])
          [] i.op = "drop"          -> ValidateDrop(v, next)
          [] i.op = "select"        -> ValidateSelect(v, next)
          [] i.op = "atomic_wait"   -> ValidateCall(v, WaitType)

-----------------------------------------------------------------------------
(* read_expr_common                                                        *)

ReusedContext == [valtypes |-> <<>>, ncells |-> 0, cframes |-> <<>>,
                  ei |-> EmptyInfo, nread |-> 0, ok |-> TRUE,
                  t |-> Unknown, top |-> NoFrame]

\* The context of the next function, with the implicit frame of its body.
StartExpr(f) == PushCtrlframe(ReusedContext, 0, "invoke", 0, <<>>,
                              FuncType[f].r)

Loading == ~rejected /\ nfuncs < Len(Order)
Loaded  == nfuncs = Len(Order)
Current == Order[nfuncs + 1]
Body == Files[file][Current]

VInit == /\ file \in DOMAIN Files
         /\ generate \in JumpTables
         /\ code = [f \in WasmFuncs |-> <<>>]
         /\ seen = [f \in WasmFuncs |-> <<>>]
         /\ ei = [f \in WasmFuncs |-> EmptyInfo]
         /\ nfuncs = 0
         /\ vctx = StartExpr(Order[1])
         /\ rejected = FALSE

\* What validation knows before an instruction: whether it can be reached, the
\* types on the operand stack and the blocks around it.
Known(v) == [reachable |-> \A k \in 1..Len(v.cframes) :
                             ~v.cframes[k].unreachable,
             types |-> v.valtypes, nlabels |-> Len(v.cframes) - 1]

ReadInsn ==
    /\ Loading
    /\ vctx.nread < Len(Body)
    /\ \E i \in Body[vctx.nread + 1] :
         LET f  == Current
             pc == Len(code[f]) + 1
             w  == Validate(vctx, f, i, pc)
         IN  /\ w.ok
             /\ code' = [code EXCEPT ![f] = @ \o Bytes(i)]
             /\ seen' = [seen EXCEPT ![f] =
                           @ \o [k \in 1..Len(Bytes(i)) |-> Known(vctx)]]
             /\ IF w.cframes = <<>>
                THEN /\ ei' = [ei EXCEPT ![f] = w.ei]
                     /\ nfuncs' = nfuncs + 1
                     /\ vctx' = IF nfuncs + 2 <= Len(Order)
                                THEN StartExpr(Order[nfuncs + 2])
                                ELSE ReusedContext
                ELSE /\ vctx' = [w EXCEPT !.nread = @ + 1, !.t = Unknown,
                                          !.top = NoFrame]
                     /\ UNCHANGED <<ei, nfuncs>>
    /\ UNCHANGED <<file, generate, rejected>>

\* An instruction fails to validate, or the section ends before the body does.
Reject ==
    /\ Loading
    /\ \/ vctx.nread = Len(Body)
       \/ /\ vctx.nread < Len(Body)
          /\ \E i \in Body[vctx.nread + 1] :
               ~Validate(vctx, Current, i, Len(code[Current]) + 1).ok
    /\ rejected' = TRUE
    /\ vctx' = ReusedContext
    /\ UNCHANGED <<file, generate, code, nfuncs, ei, seen>>

=============================================================================
