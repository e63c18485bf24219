-------------------------------- MODULE Exec --------------------------------
(***************************************************************************)
(* The interpreter: exec_expr_continue of lib/exec.c and the EXECUTING     *)
(* half of the control, call and exception instructions, run on what       *)
(* Validation accepted.  One step handles the pending event, or executes   *)
(* one instruction.  Values are abstract: a cell of the operand stack says *)
(* which part of a value of which type it is, a condition may be true or   *)
(* false.  The build is the default one (small cells, separate locals,     *)
(* jump cache of the second kind) with tail calls and exceptions.          *)
(***************************************************************************)
EXTENDS Validation

CONSTANTS
    Start,          \* the function the embedder invokes
    MaxFrames,      \* exec_options.max_frames
    MaxStackCells,  \* exec_options.max_stackcells
    MaxRestarts,    \* bound: how deep host functions call back
    JumpCacheSize   \* TOYWASM_JUMP_CACHE2_SIZE

VARIABLES
    frames,         \* ctx->frames
    labels,         \* ctx->labels
    labels_psize,   \* labels allocated
    stack,          \* ctx->stack, up to lsize
    stack_psize,    \* cells allocated
    above,          \* the cells just above lsize that are still of use
    locals,         \* ctx->locals
    p,              \* ctx->p
    cur,            \* ctx->instance and ctx->ei: the function executed
    event,          \* ctx->event and ctx->event_u
    restarts,       \* ctx->restarts, up to psize
    nrestarts,      \* ctx->restarts.lsize
    bottom,         \* ctx->bottom
    cache,          \* ctx->cache
    ret             \* what exec_expr_continue returned, or that it runs

stacks == <<frames, labels, labels_psize, stack, stack_psize, above, locals>>
evars  == <<stacks, p, cur, event, restarts, nrestarts, bottom, cache, ret>>
vars   == <<vvars, evars>>

-----------------------------------------------------------------------------
(* Cells                                                                   *)

ParamCells(ts) ==
    FlattenSeq([k \in 1..Len(ts) |->
                  IF ts[k] = "i32" THEN <<"i32">> ELSE <<"i64lo", "i64hi">>])

\* An exnref is a copy of the parameters, some unused cells, and the tag.
ExnCells(tag) ==
    LET c == IF tag = "null" THEN <<>> ELSE ParamCells(TagType[tag])
    IN  c \o [k \in 1..(MaxExnCells - Len(c)) |-> "unused"] \o <<tag>>

TypeCells(t) == IF t = "exnref" THEN ExnCells("null") ELSE ParamCells(<<t>>)

TypesCells(ts) == FlattenSeq([k \in 1..Len(ts) |-> TypeCells(ts[k])])

Take(s, n) == SubSeq(s, 1, n)
TopOf(s, n) == SubSeq(s, Len(s) - n + 1, Len(s))
DropTop(s, n) == SubSeq(s, 1, Len(s) - n)

\* Whether cells hold values of the types.
Fit(cells, ts) ==
    /\ Len(cells) = CellsSize(ts)
    /\ \A k \in 1..Len(ts) :
         LET o == CellsSize(Take(ts, k - 1))
             c == SubSeq(cells, o + 1, o + CellSize(ts[k]))
         IN  IF ts[k] = "exnref"
             THEN Last(c) \in Tags \cup {"null"} /\ c = ExnCells(Last(c))
             ELSE c = ParamCells(<<ts[k]>>)

-----------------------------------------------------------------------------
(* Events                                                                  *)

NoEvent == [type |-> "none"]
CallEvent(f) == [type |-> "call", func |-> f]
ReturnCallEvent(f) == [type |-> "return_call", func |-> f]
BranchEvent(l) == [type |-> "branch", index |-> l, goto_else |-> FALSE]
GotoElseEvent == [type |-> "branch", index |-> 0, goto_else |-> TRUE]
ExceptionEvent == [type |-> "exception"]
RestartInsnEvent == [type |-> "restart_insn"]

RestartNone == [type |-> "none"]
\* A deadline, with the one who saved it: a host function or an instruction.
RestartTimer(f, pc) == [type |-> "timer", func |-> f, pc |-> pc]

Trap == ret' = "trap"

Running(type) == Loaded /\ ret = "run" /\ event.type = type

TopFrame == Last(frames)

\* A label of the frame, or the function itself?
IsFunctionLabel(l) == Len(labels) - l = TopFrame.labelidx

-----------------------------------------------------------------------------
(* Frames                                                                  *)

NoCache == [k \in 0..(JumpCacheSize - 1) |-> [key |-> 0]]

\* Mutant: the cache is kept.
CacheFor_Kept(f) == cache

\* Every function is in a module of its own: the jump cache, whose keys are
\* positions in a module, is emptied when the function changes.
CacheFor(f) == IF cur # f THEN NoCache ELSE cache

CanPrealloc(stk, n) == MaxStackCells - Len(stk) >= n

LabelsNeeded(f) == Larger(labels_psize, Len(labels) + ei[f].maxlabels - 1)

\* frame_enter and the jump to the start of the body, with the arguments on the
\* stack.
FrameEnter(f) ==
    LET np == CellsSize(FuncType[f].p)
        s  == DropTop(stack, np)
    IN  /\ frames' = Append(frames,
               [func |-> f, nresults |-> CellsSize(FuncType[f].r),
                labelidx |-> Len(labels), localidx |-> Len(locals),
                callerpc |-> IF frames = <<>> THEN 0 ELSE p,
                height |-> Len(s)])
        /\ labels_psize' = LabelsNeeded(f)
        /\ stack' = s
        /\ stack_psize' = Larger(stack_psize, Len(s) + ei[f].maxcells)
        /\ above' = <<>>
        /\ locals' = locals \o TopOf(stack, np) \o TypesCells(LocalTypes[f])
        /\ cur' = f
        /\ cache' = CacheFor(f)
        /\ p' = 1
        /\ UNCHANGED labels

\* The limits frame_enter checks.
FrameFits(f) ==
    /\ Len(frames) < MaxFrames
    /\ CanPrealloc(DropTop(stack, CellsSize(FuncType[f].p)), ei[f].maxcells)

\* Popping the frames above the first n.  Only the module of the last frame
\* matters to the jump cache, and only if the functions are not all the same.
ExitCache(n) ==
    IF \A k \in Larger(n, 1)..Len(frames) : frames[k].func = cur
    THEN cache ELSE NoCache

ExitTo(n) ==
    /\ frames' = Take(frames, n)
    /\ locals' = Take(locals, frames[n + 1].localidx)
    /\ cur' = IF n > 0 THEN frames[n].func ELSE frames[1].func
    /\ cache' = ExitCache(n)

\* Where frame_exit returns to: the caller's pc; the last frame leaves ctx->p.
ExitPc(n) == IF n > 0 THEN frames[n + 1].callerpc ELSE p

-----------------------------------------------------------------------------
(* Calls                                                                   *)

\* do_wasm_call
CallWasm ==
    /\ Running("call")
    /\ event.func \in WasmFuncs
    /\ IF FrameFits(event.func)
       THEN /\ FrameEnter(event.func)
            /\ event' = NoEvent
            /\ UNCHANGED ret
       ELSE /\ Trap
            /\ stack' = DropTop(stack, CellsSize(FuncType[event.func].p))
            /\ labels_psize' = IF Len(frames) < MaxFrames
                               THEN LabelsNeeded(event.func) ELSE labels_psize
            /\ UNCHANGED <<frames, labels, stack_psize, above, locals, p, cur,
                           event, cache>>
    /\ UNCHANGED <<restarts, nrestarts, bottom, vvars>>

\* do_return_call: the frame is popped and the arguments moved down; then it is
\* a call.  If a host function restarts, the event is a plain call from then on.
RewindStack(stk, height, arity) == Take(stk, height) \o TopOf(stk, arity)

\* Mutant: the operands below the arguments are left on the stack.
ReturnCall_NoRewind ==
    /\ Running("return_call")
    /\ LET n == Len(frames) - 1
       IN  /\ ExitTo(n)
           /\ p' = ExitPc(n)
           /\ labels' = Take(labels, TopFrame.labelidx)
           /\ event' = CallEvent(event.func)
    /\ UNCHANGED <<stack, labels_psize, stack_psize, above, restarts,
                   nrestarts, bottom, ret, vvars>>

ReturnCall ==
    /\ Running("return_call")
    /\ LET n == Len(frames) - 1
           f == event.func
           s == RewindStack(stack, TopFrame.height, CellsSize(FuncType[f].p))
       IN  /\ ExitTo(n)
           /\ p' = ExitPc(n)
           /\ stack' = s
           /\ labels' = Take(labels, TopFrame.labelidx)
           /\ event' = CallEvent(f)
    /\ UNCHANGED <<labels_psize, stack_psize, above, restarts, nrestarts,
                   bottom, ret, vvars>>

-----------------------------------------------------------------------------
(* Host functions: do_host_call, lib/restart.c, lib/host_instance.c.  What *)
(* a host function may do follows the usage restart.c describes.           *)

\* restart_info_prealloc
Slots == IF nrestarts < Len(restarts) THEN restarts
                                      ELSE Append(restarts, RestartNone)
Slot == Slots[nrestarts + 1]

NParams == CellsSize(FuncType[event.func].p)
NResults == CellsSize(FuncType[event.func].r)

InHost == Running("call") /\ event.func \in HostFuncs

\* do_host_call makes room for the results before the call.
Growth == IF NResults > NParams THEN NResults - NParams ELSE 0
HostPrealloc == /\ InHost
                /\ Growth = 0 \/ CanPrealloc(stack, Growth)
HostPsize == Larger(stack_psize, Len(stack) + Growth)

\* It returns: the parameters are replaced by the results.
HostReturn ==
    /\ HostPrealloc
    /\ stack' = DropTop(stack, NParams) \o TypesCells(FuncType[event.func].r)
    /\ stack_psize' = HostPsize
    /\ restarts' = [Slots EXCEPT ![nrestarts + 1] = RestartNone]
    /\ event' = NoEvent
    /\ above' = <<>>
    /\ UNCHANGED <<frames, labels, labels_psize, locals, p, cur, nrestarts,
                   bottom, cache, ret, vvars>>

HostTrap ==
    /\ HostPrealloc
    /\ Trap
    /\ stack_psize' = HostPsize
    /\ restarts' = [Slots EXCEPT ![nrestarts + 1] = RestartNone]
    /\ above' = <<>>
    /\ UNCHANGED <<frames, labels, labels_psize, stack, locals, p, cur, event,
                   nrestarts, bottom, cache, vvars>>

\* It is interrupted while it waits (poll_oneoff): the arguments and the event
\* stay, the deadline is saved if there is one.
HostRestart ==
    /\ HostPrealloc
    /\ Slot.type # "hostfunc"
    /\ stack_psize' = HostPsize
    /\ \E r \in {RestartNone, RestartTimer(event.func, 0)} :
         /\ Slot.type = "timer" => r # RestartNone
         /\ restarts' = [Slots EXCEPT ![nrestarts + 1] = r]
    /\ ret' = "restart"
    /\ UNCHANGED <<frames, labels, labels_psize, stack, above, locals, p, cur,
                   event, nrestarts, bottom, cache, vvars>>

\* schedule_call_from_hostfunc: it pushes the arguments of a function, maybe
\* after it has popped the results of the previous one, and asks for the call.
Scheduled(g) == [type |-> "hostfunc", func |-> event.func,
                 saved_bottom |-> bottom,
                 stack_adj |-> CellsSize(FuncType[g].r), callee |-> g]

HostCall(g) ==
    /\ HostPrealloc
    /\ Slot.type # "timer"
    /\ nrestarts < MaxRestarts
    /\ CanPrealloc(stack, CellsSize(FuncType[g].p))
    /\ stack' = stack \o TypesCells(FuncType[g].p)
    /\ stack_psize' = Larger(HostPsize,
                             Len(stack) + CellsSize(FuncType[g].p))
    /\ restarts' = [Slots EXCEPT ![nrestarts + 1] = Scheduled(g)]
    /\ nrestarts' = nrestarts + 1
    /\ bottom' = Len(frames)
    /\ event' = CallEvent(g)
    /\ ret' = "restart"
    /\ above' = <<>>
    /\ UNCHANGED <<frames, labels, labels_psize, locals, p, cur, cache, vvars>>

\* dyld_plt: the call is handed on to the function the symbol is bound to.
HostForward(g) ==
    /\ HostPrealloc
    /\ Slot.type = "none"
    /\ g # event.func
    /\ FuncType[g] = FuncType[event.func]
    /\ stack_psize' = HostPsize
    /\ event' = CallEvent(g)
    /\ ret' = "restart"
    /\ UNCHANGED <<frames, labels, labels_psize, stack, above, locals, p, cur,
                   restarts, nrestarts, bottom, cache, vvars>>

\* The operand stack has no room for the results.
HostNoRoom ==
    /\ InHost
    /\ Growth > 0 /\ ~CanPrealloc(stack, Growth)
    /\ Trap
    /\ UNCHANGED <<stacks, p, cur, event, restarts, nrestarts, bottom, cache,
                   vvars>>

\* return_to_hostfunc: the function a host function called has returned.  The
\* host function is called again; the results are above its parameters.
AtBottom == Running("none") /\ Len(frames) = bottom

\* Mutant: the results stay.
ReturnToHostfunc_NoAdjust ==
    /\ AtBottom
    /\ nrestarts > 0
    /\ bottom' = restarts[nrestarts].saved_bottom
    /\ event' = CallEvent(restarts[nrestarts].func)
    /\ nrestarts' = nrestarts - 1
    /\ UNCHANGED <<stacks, p, cur, restarts, cache, ret, vvars>>

ReturnToHostfunc ==
    /\ AtBottom
    /\ nrestarts > 0
    /\ LET hf == restarts[nrestarts]
       IN  /\ bottom' = hf.saved_bottom
           /\ stack' = DropTop(stack, hf.stack_adj)
           /\ above' = TopOf(stack, hf.stack_adj)
           /\ event' = CallEvent(hf.func)
    /\ nrestarts' = nrestarts - 1
    /\ UNCHANGED <<frames, labels, labels_psize, stack_psize, locals, p, cur,
                   restarts, cache, ret, vvars>>

\* exec_expr_continue returns 0
Finish ==
    /\ AtBottom
    /\ nrestarts = 0
    /\ ret' = "done"
    /\ UNCHANGED <<stacks, p, cur, event, restarts, nrestarts, bottom, cache,
                   vvars>>

-----------------------------------------------------------------------------
(* Branches                                                                *)

\* jump_table_lookup: the table is sorted by position.
JumpLookup(f, pc) == CHOOSE k \in 1..Len(ei[f].jumps) : ei[f].jumps[k].pc = pc

\* skip_expr: parse from the block on for its "end", or the "else" of its "if".
SkipExpr(c, pc, goto_else) ==
    LET skip[q \in 1..Len(c), level \in 0..Len(c)] ==
          LET i    == c[q]
              next == q + Len(Bytes(i))
          IN  CASE i.op \in BlockOps -> skip[next, level + 1]
                [] i.op = "else" /\ goto_else /\ level = 1 ->
                     [p |-> next, stay |-> TRUE]
                [] i.op = "end" /\ level = 1 -> [p |-> next, stay |-> FALSE]
                [] i.op = "end" /\ level > 1 -> skip[next, level - 1]
                [] OTHER -> skip[next, level]
    IN  skip[pc, 0]

\* The target of a jump out of the block at pc (into its "else" if goto_else),
\* and whether the jump stays in the block.
TableTarget(f, pc, goto_else) ==
    LET k     == JumpLookup(f, pc)
        jumps == ei[f].jumps
    IN  IF goto_else /\ jumps[k + 1].targetpc # 0
        THEN [p |-> jumps[k + 1].targetpc, stay |-> TRUE]
        ELSE [p |-> jumps[k].targetpc, stay |-> FALSE]

\* block_exit: params and arity are the cells of the parameters of the block
\* and of its label.
BlockExit(f, pc, goto_else) ==
    LET i      == code[f][pc]
        t      == IF ei[f].jumps # <<>> THEN TableTarget(f, pc, goto_else)
                  ELSE SkipExpr(code[f], pc, goto_else)
        params == CellsSize(i.bt.p)
    IN  IF i.op = "loop"
        THEN [p |-> pc, stay |-> FALSE, params |-> params, arity |-> params]
        ELSE IF t.stay
             THEN [p |-> t.p, stay |-> TRUE, params |-> 0, arity |-> 0]
        ELSE [p |-> t.p, stay |-> FALSE, params |-> params,
              arity |-> CellsSize(i.bt.r)]

CacheKey(pc, goto_else) == IF goto_else THEN pc + 1 ELSE pc

\* cached_block_exit, from a cache c: what the branch does, and the cache then.
CachedBlockExit(c, f, pc, goto_else) ==
    LET key == CacheKey(pc, goto_else)
        e   == c[key % JumpCacheSize]
    IN  IF e.key = key THEN e.exit ELSE BlockExit(f, pc, goto_else)

CacheStored(c, f, pc, goto_else) ==
    LET key == CacheKey(pc, goto_else)
    IN  [c EXCEPT ![key % JumpCacheSize] =
           [key |-> key, exit |-> CachedBlockExit(c, f, pc, goto_else)]]

\* do_branch and branch_to_label
BranchToFunction ==
    /\ Running("branch")
    /\ IsFunctionLabel(event.index)
    /\ LET n == Len(frames) - 1
       IN  /\ ExitTo(n)
           /\ p' = ExitPc(n)
           /\ labels' = Take(labels, TopFrame.labelidx)
           /\ stack' = RewindStack(stack, TopFrame.height, TopFrame.nresults)
    /\ event' = NoEvent
    /\ UNCHANGED <<labels_psize, stack_psize, above, restarts, nrestarts,
                   bottom, ret, vvars>>

\* The height of a label is that of the stack with the parameters of the block
\* on it.
BranchToLabel ==
    /\ Running("branch")
    /\ ~IsFunctionLabel(event.index)
    /\ LET l == labels[Len(labels) - event.index]
           x == CachedBlockExit(cache, cur, l.pc, event.goto_else)
       IN  /\ p' = x.p
           /\ cache' = CacheStored(cache, cur, l.pc, event.goto_else)
           /\ IF x.stay
              THEN UNCHANGED <<labels, stack>>
              ELSE /\ labels' = DropTop(labels, event.index + 1)
                   /\ stack' = RewindStack(stack, l.height - x.params,
                                           x.arity)
    /\ event' = NoEvent
    /\ UNCHANGED <<frames, labels_psize, stack_psize, above, locals, cur,
                   restarts, nrestarts, bottom, ret, vvars>>

-----------------------------------------------------------------------------
(* Exceptions                                                              *)

\* The labels pushed by the nth frame.
LabelsOf(n) == (frames[n].labelidx + 1)..
               (IF n = Len(frames) THEN Len(labels) ELSE frames[n + 1].labelidx)

Catches(n, k, tag) ==
    LET i == code[frames[n].func][labels[k].pc]
    IN  IF i.op # "try_table" THEN {}
        ELSE {j \in 1..Len(i.catches) : i.catches[j].tag \in {"all", tag}}

Handlers(n, tag) == {k \in LabelsOf(n) : Catches(n, k, tag) # {}}

\* Mutant: the search goes on below the host function.
HandlingFrames_PastHost(tag) == {n \in 1..Len(frames) : Handlers(n, tag) # {}}

\* find_catch: the innermost try_table with a matching clause, in the last frame
\* that has one; the search ends at the frame a host function called.
HandlingFrames(tag) ==
    {n \in (bottom + 1)..Len(frames) : Handlers(n, tag) # {}}

\* do_exception: the frames above the handler are popped, the branch is the one
\* of the clause (its label 0 is the block around the try_table), and the values
\* come from the exception.
CatchClause(n, k, tag) ==
    code[frames[n].func][labels[k].pc].catches[Min(Catches(n, k, tag))]

Caught(c, tag) == (IF c.tag = "all" THEN <<>> ELSE ParamCells(TagType[tag]))
                  \o (IF c.ref THEN ExnCells(tag) ELSE <<>>)

CatchException ==
    /\ Running("exception")
    /\ Last(stack) \in Tags
    /\ HandlingFrames(Last(stack)) # {}
    /\ LET tag == Last(stack)
           n   == Max(HandlingFrames(tag))
           k   == Max(Handlers(n, tag))
           c   == CatchClause(n, k, tag)
           l   == k - 1 - c.label     \* the label branched to
       IN  IF l = frames[n].labelidx
           THEN /\ ExitTo(n - 1)
                /\ p' = ExitPc(n - 1)
                /\ labels' = Take(labels, l)
                /\ stack' = Take(stack, frames[n].height) \o Caught(c, tag)
           ELSE LET f  == frames[n].func
                    pc == labels[l].pc
                    x  == CachedBlockExit(ExitCache(n), f, pc, FALSE)
                IN  /\ frames' = Take(frames, n)
                    /\ locals' = IF n = Len(frames) THEN locals
                                 ELSE Take(locals, frames[n + 1].localidx)
                    /\ cur' = f
                    /\ cache' = CacheStored(ExitCache(n), f, pc, FALSE)
                    /\ p' = x.p
                    /\ labels' = Take(labels, l - 1)
                    /\ stack' = Take(stack, labels[l].height - x.params)
                                \o Caught(c, tag)
    /\ event' = NoEvent
    /\ UNCHANGED <<labels_psize, stack_psize, above, restarts, nrestarts,
                   bottom, ret, vvars>>

\* throw_ref of a null reference, or nobody catches it.
UncaughtException ==
    /\ Running("exception")
    /\ Last(stack) = "null" \/ HandlingFrames(Last(stack)) = {}
    /\ Trap
    /\ stack' = DropTop(stack, MaxExnCells + 1)
    /\ UNCHANGED <<frames, labels, labels_psize, stack_psize, above, locals, p,
                   cur, event, restarts, nrestarts, bottom, cache, vvars>>

-----------------------------------------------------------------------------
(* Instructions                                                            *)

Insn == code[cur][p]
Next_p == p + Len(Bytes(Insn))

\* The loop is about to execute an instruction with one of these operations.
Executing(ops) == /\ Running("none")
                  /\ Len(frames) > bottom
                  /\ Insn.op \in ops

PushLabel == labels' = Append(labels, [pc |-> p, height |-> Len(stack')])

\* block, loop and try_table (whose clauses are looked at by find_catch only)
ExecBlock ==
    /\ Executing({"block", "loop", "try_table"})
    /\ stack' = stack
    /\ PushLabel
    /\ p' = Next_p
    /\ UNCHANGED <<frames, labels_psize, stack_psize, above, locals, cur,
                   event, restarts, nrestarts, bottom, cache, ret, vvars>>

ExecIf ==
    /\ Executing({"if"})
    /\ stack' = DropTop(stack, 1)
    /\ PushLabel
    /\ p' = Next_p
    /\ event' \in {NoEvent, GotoElseEvent}
    /\ UNCHANGED <<frames, labels_psize, stack_psize, above, locals, cur,
                   restarts, nrestarts, bottom, cache, ret, vvars>>

\* schedule_return: a branch to the label of the function
ReturnEvent == BranchEvent(Len(labels) - TopFrame.labelidx)

ExecEnd ==
    /\ Executing({"end"})
    /\ IF Len(labels) > TopFrame.labelidx
       THEN labels' = Front(labels) /\ event' = NoEvent
       ELSE event' = ReturnEvent /\ UNCHANGED labels
    /\ p' = Next_p
    /\ UNCHANGED <<frames, labels_psize, stack, stack_psize, above, locals,
                   cur, restarts, nrestarts, bottom, cache, ret, vvars>>

\* What instructions that only pop operands and schedule an event do.
Schedule(popped, e) ==
    /\ stack' = DropTop(stack, popped)
    /\ event' = e
    /\ p' = Next_p
    /\ UNCHANGED <<frames, labels, labels_psize, stack_psize, above, locals,
                   cur, restarts, nrestarts, bottom, cache, ret, vvars>>

ExecElse == Executing({"else"}) /\ Schedule(0, BranchEvent(0))
ExecBr == Executing({"br"}) /\ Schedule(0, BranchEvent(Insn.label))
ExecBrIf == /\ Executing({"br_if"})
            /\ \E e \in {NoEvent, BranchEvent(Insn.label)} : Schedule(1, e)
ExecBrTable == /\ Executing({"br_table"})
               /\ \E l \in Range(Insn.labels) : Schedule(1, BranchEvent(l))
ExecReturn == Executing({"return"}) /\ Schedule(0, ReturnEvent)
ExecCall == Executing({"call"}) /\ Schedule(0, CallEvent(Insn.func))
ExecReturnCall == /\ Executing({"return_call"})
                  /\ Schedule(0, ReturnCallEvent(Insn.func))
ExecThrowRef == Executing({"throw_ref"}) /\ Schedule(0, ExceptionEvent)

\* call_indirect: the table may hold any function; one of another type, or none,
\* is a trap.
InTable(type) == {f \in Funcs : FuncType[f] = type}

ExecCallIndirect ==
    /\ Executing({"call_indirect"})
    /\ \E f \in InTable(Insn.type) : Schedule(1, CallEvent(f))
ExecReturnCallIndirect ==
    /\ Executing({"return_call_indirect"})
    /\ \E f \in InTable(Insn.type) : Schedule(1, ReturnCallEvent(f))

TrapInsn ==
    /\ Executing({"unreachable", "call_indirect", "return_call_indirect"})
    /\ Trap
    /\ UNCHANGED <<stacks, p, cur, event, restarts, nrestarts, bottom, cache,
                   vvars>>

\* What instructions that only change the operand stack do.
Operate(stk) ==
    /\ stack' = stk
    /\ p' = Next_p
    /\ UNCHANGED <<frames, labels, labels_psize, stack_psize, above, locals,
                   cur, event, restarts, nrestarts, bottom, cache, ret, vvars>>

\* push_exception: the parameters become the first cells of the exception.
ExecThrow ==
    /\ Executing({"throw"})
    /\ stack' = LET n == CellsSize(TagType[Insn.tag])
                IN  stack \o SubSeq(ExnCells(Insn.tag), n + 1, MaxExnCells + 1)
    /\ event' = ExceptionEvent
    /\ p' = Next_p
    /\ UNCHANGED <<frames, labels, labels_psize, stack_psize, above, locals,
                   cur, restarts, nrestarts, bottom, cache, ret, vvars>>

ExecConst == Executing({"const"}) /\ Operate(stack \o TypeCells(Insn.type))

\* The cells of a local: its index in cells comes from the types of the
\* parameters and locals of the function.
LocalCells(f, base, k) ==
    LET ts == FuncType[f].p \o LocalTypes[f]
        o  == base + CellsSize(Take(ts, k))
    IN  (o + 1)..(o + CellSize(ts[k + 1]))

InsnLocal == LocalCells(cur, TopFrame.localidx, Insn.idx)

ExecLocalGet ==
    /\ Executing({"local_get"})
    /\ Operate(stack \o SubSeq(locals, Min(InsnLocal), Max(InsnLocal)))

ExecLocalSet ==
    /\ Executing({"local_set", "local_tee"})
    /\ LET n == Cardinality(InsnLocal)
           o == Min(InsnLocal)
       IN  /\ locals' = [k \in 1..Len(locals) |->
                           IF k \in InsnLocal THEN TopOf(stack, n)[k - o + 1]
                                                ELSE locals[k]]
           /\ stack' = IF Insn.op = "local_set" THEN DropTop(stack, n)
                                                ELSE stack
    /\ p' = Next_p
    /\ UNCHANGED <<frames, labels, labels_psize, stack_psize, above, cur,
                   event, restarts, nrestarts, bottom, cache, ret, vvars>>

\* find_type_annotation
FindTypeAnnotation(f, pc) ==
    LET before == {k \in 1..Len(ei[f].types) : ei[f].types[k].pc <= pc}
    IN  IF before = {} THEN ei[f].default_size
                       ELSE ei[f].types[Max(before)].size

ExecDrop ==
    /\ Executing({"drop"})
    /\ Operate(DropTop(stack, FindTypeAnnotation(cur, Next_p)))

ExecSelect ==
    /\ Executing({"select"})
    /\ LET n == FindTypeAnnotation(cur, Next_p)
           s == DropTop(stack, 1)
       IN  \E v \in {TopOf(s, n), TopOf(DropTop(s, n), n)} :
             Operate(DropTop(s, 2 * n) \o v)

\* memory.atomic.wait32: it waits in pieces and may be interrupted; then the
\* operands are on the stack again, the deadline is saved if there is one, and
\* the instruction is executed again from its immediate on (restart_insn).
ImmediatePc == IF event.type = "restart_insn" THEN p ELSE p + 1

Waiting == /\ Running("none") \/ Running("restart_insn")
           /\ Len(frames) > bottom
           /\ code[cur][ImmediatePc - 1].op = "atomic_wait"

\* Mutant: the deadline is not cleared.
ExecWait_NotCleared ==
    /\ Waiting
    /\ stack' = DropTop(stack, CellsSize(WaitType.p)) \o TypesCells(WaitType.r)
    /\ restarts' = Slots
    /\ event' = NoEvent
    /\ p' = ImmediatePc + 1
    /\ UNCHANGED <<frames, labels, labels_psize, stack_psize, above, locals,
                   cur, nrestarts, bottom, cache, ret, vvars>>

ExecWait ==
    /\ Waiting
    /\ stack' = DropTop(stack, CellsSize(WaitType.p)) \o TypesCells(WaitType.r)
    /\ restarts' = [Slots EXCEPT ![nrestarts + 1] = RestartNone]
    /\ event' = NoEvent
    /\ p' = ImmediatePc + 1
    /\ UNCHANGED <<frames, labels, labels_psize, stack_psize, above, locals,
                   cur, nrestarts, bottom, cache, ret, vvars>>

ExecWaitRestart ==
    /\ Waiting
    /\ \E r \in {RestartNone, RestartTimer(cur, ImmediatePc)} :
         /\ Slot.type = "timer" => r # RestartNone
         /\ restarts' = [Slots EXCEPT ![nrestarts + 1] = r]
    /\ event' = RestartInsnEvent
    /\ p' = ImmediatePc
    /\ ret' = "restart"
    /\ UNCHANGED <<stacks, cur, nrestarts, bottom, cache, vvars>>

\* The address is not one of a shared memory, or the thread has to end.
ExecWaitTrap ==
    /\ Waiting
    /\ Trap
    /\ restarts' = [Slots EXCEPT ![nrestarts + 1] = RestartNone]
    /\ event' = NoEvent
    /\ UNCHANGED <<stacks, p, cur, nrestarts, bottom, cache, vvars>>

-----------------------------------------------------------------------------
(* The embedder                                                            *)

\* exec_push_vals and invoke: as if a call instruction was restarted.
Invoke ==
    /\ Loaded
    /\ ret = "idle"
    /\ IF CanPrealloc(stack, CellsSize(FuncType[Start].p))
       THEN /\ stack' = TypesCells(FuncType[Start].p)
            /\ stack_psize' = CellsSize(FuncType[Start].p)
            /\ event' = CallEvent(Start)
            /\ ret' = "restart"
       ELSE Trap /\ UNCHANGED <<stack, stack_psize, event>>
    /\ UNCHANGED <<frames, labels, labels_psize, above, locals, p, cur,
                   restarts, nrestarts, bottom, cache, vvars>>

\* instance_execute_handle_restart
Continue ==
    /\ ret = "restart"
    /\ ret' = "run"
    /\ UNCHANGED <<stacks, p, cur, event, restarts, nrestarts, bottom, cache,
                   vvars>>

\* check_interrupt between two instructions
Interrupt ==
    /\ Running("none")
    /\ Len(frames) > bottom
    /\ ret' \in {"restart", "trap"}
    /\ UNCHANGED <<stacks, p, cur, event, restarts, nrestarts, bottom, cache,
                   vvars>>

\* Nothing is left to do.
Terminated == /\ rejected \/ ret \in {"done", "trap"}
              /\ UNCHANGED vars

EInit == /\ frames = <<>>
         /\ labels = <<>>
         /\ labels_psize = 0
         /\ stack = <<>>
         /\ stack_psize = 0
         /\ above = <<>>
         /\ locals = <<>>
         /\ p = 0
         /\ cur = Start
         /\ event = NoEvent
         /\ restarts = <<>>
         /\ nrestarts = 0
         /\ bottom = 0
         /\ cache = NoCache
         /\ ret = "idle"

Init == VInit /\ EInit

Load == (ReadInsn \/ Reject) /\ UNCHANGED evars

Events == \/ CallWasm \/ ReturnCall \/ BranchToFunction \/ BranchToLabel
          \/ CatchException \/ UncaughtException
          \/ ReturnToHostfunc \/ Finish

Host == \/ HostReturn \/ HostTrap \/ HostRestart \/ HostNoRoom
        \/ \E g \in Funcs : HostCall(g) \/ HostForward(g)

Instructions == \/ ExecBlock \/ ExecIf \/ ExecElse \/ ExecEnd \/ ExecBr
                \/ ExecBrIf \/ ExecBrTable \/ ExecReturn \/ ExecCall
                \/ ExecCallIndirect \/ ExecReturnCall \/ ExecReturnCallIndirect
                \/ ExecThrow
                \/ ExecThrowRef \/ TrapInsn \/ ExecConst \/ ExecLocalGet
                \/ ExecLocalSet
                \/ ExecDrop \/ ExecSelect \/ ExecWait \/ ExecWaitRestart
                \/ ExecWaitTrap

Embedder == Invoke \/ Continue \/ Interrupt

Next == Load \/ Events \/ Host \/ Instructions \/ Embedder \/ Terminated

Spec == Init /\ [][Next]_vars

-----------------------------------------------------------------------------
(* Properties                                                              *)

\* The state of the interpreter has its type, and the counters of the vectors
\* of struct exec_context agree with one another.
TypeOK ==
    /\ ret \in {"idle", "run", "restart", "trap", "done"}
    /\ event.type \in {"none", "call", "return_call", "branch", "exception",
                       "restart_insn"}
    /\ nrestarts \in 0..Len(restarts)
    /\ bottom \in 0..Len(frames)
    /\ \A n \in 1..Len(frames) :
         /\ frames[n].func \in WasmFuncs
         /\ frames[n].labelidx \in 0..Len(labels)
         /\ frames[n].localidx \in 0..Len(locals)
         /\ frames[n].height \in 0..MaxStackCells
    /\ frames # <<>> => cur = TopFrame.func

\* Validation is sound for the interpreter.  Whenever an instruction is about to
\* be executed, validation took it for reachable, the operands of the frame are
\* values of the types it computed there, and the frame has the labels of the
\* blocks it saw around the instruction; so no pop, branch or end needs a check.
\* The locals too are values of their types whatever was called, caught or
\* restarted in between.
StackMatchesValidation ==
  /\ TypeOK
  /\ Running("none") /\ Len(frames) > bottom =>
       LET known == seen[cur][p]
       IN  /\ p \in 1..Len(code[cur])
           /\ known.reachable
           /\ Fit(SubSeq(stack, TopFrame.height + 1, Len(stack)), known.types)
           /\ Len(labels) - TopFrame.labelidx = known.nlabels
           /\ Fit(SubSeq(locals, TopFrame.localidx + 1, Len(locals)),
                  FuncType[cur].p \o LocalTypes[cur])

\* The interpreter pushes labels and values without a check: frame_enter,
\* do_host_call and exec_push_vals have allocated enough (maxlabels, maxcells).
WithinPreallocated == /\ Len(labels) <= labels_psize
                      /\ Len(stack) + Len(above) <= stack_psize

\* The jump table, the jump cache and skip_expr, three ways to find the end or
\* the else of a block, agree: the table for every block of a validated
\* function, the cache for every entry it has, in the current module.
BranchTargetsAgree ==
    /\ \A f \in WasmFuncs :
          ei[f].jumps # <<>> =>
             \A pc \in 1..Len(code[f]) :
                code[f][pc].op \in BlockOps \ {"loop"} =>
                   \A goto_else \in {FALSE, code[f][pc].op = "if"} :
                      TableTarget(f, pc, goto_else)
                         = SkipExpr(code[f], pc, goto_else)
    /\ \A k \in DOMAIN cache :
          cache[k].key # 0 =>
             \E goto_else \in BOOLEAN :
                LET pc == cache[k].key - (IF goto_else THEN 1 ELSE 0)
                IN  /\ pc \in 1..Len(code[cur])
                    /\ code[cur][pc].op \in IF goto_else THEN {"if"} ELSE BlockOps
                    /\ cache[k].exit = BlockExit(cur, pc, goto_else)

\* A host function finds its own parameters on the stack, also when it is called
\* again after a restart or after a function it called, whose results it then
\* finds above them.
HostCallIsConsistent ==
    InHost => /\ Fit(TopOf(stack, NParams), FuncType[event.func].p)
              /\ Slot.type = "hostfunc" => Fit(above, FuncType[Slot.callee].r)

\* Whoever finds restart information saved it: a host function or an instruction
\* that is started anew finds none, although the vector is shared by everything
\* that may restart and is only cleared by those who used it.
RestartInfoIsOwn ==
    /\ Running("none") /\ Len(frames) > bottom => Slot.type = "none"
    /\ InHost /\ Slot.type # "none" => Slot.func = event.func
    /\ Running("restart_insn") =>
         Slot \in {RestartNone, RestartTimer(cur, ImmediatePc)}

\* The frames below a host function stay as they are, whatever the function it
\* called does (exceptions included), until the host function itself returns.
HostFramesKept ==
    [][/\ Len(frames') >= bottom'
       /\ Take(frames', bottom) = Take(frames, bottom)]_vars

=============================================================================
