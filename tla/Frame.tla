------------------------------- MODULE Frame --------------------------------
(***************************************************************************)
(* The statement generators of x86.c and the stack frame of the code they  *)
(* emit.  A behaviour first generates one function, as the recursion over  *)
(* some statement tree does, and then runs it.  The point is %rsp: the     *)
(* generators allocate and release locals by moving it, and rely on        *)
(* stack_index to know at compile time where it is.                        *)
(*                                                                         *)
(* Expressions are abstract: one pushes and pops (or calls) below %rsp.    *)
(* It leaves %rsp where it was, but for the calls with arguments on the    *)
(* stack: 8 bytes are pushed for each and 4 released, so that 4 stay.      *)
(* stack_index counts them where the call is generated, %rsp where it is   *)
(* executed.  An expression the source leaves out (for (;;), return;) is   *)
(* generated like one that does nothing.                                   *)
(***************************************************************************)
EXTENDS Integers, Sequences, FiniteSets

CONSTANTS
  Labels,     \* labels the source uses with goto
  StackBytes, \* bytes an expression may leave: 4 for each stack argument
  MaxParams,  \* bound: parameters of the function
  MaxCode,    \* bound: instructions generated (roughly: see Room)
  MaxUser,    \* bound: instructions before the last label, goto or expression
              \* that leaves bytes
  MaxLeaving, \* bound: expressions of the function that leave bytes
  MaxFrame    \* bound: how far %rsp may be from %rbp, above or below

ASSUME FrameAssumption ==
  /\ StackBytes \subseteq Nat
  /\ MaxParams \in Nat /\ MaxCode \in Nat /\ MaxUser \in Nat
  /\ MaxLeaving \in Nat /\ MaxFrame \in Nat

VARIABLES
  phase,     \* "start", "gen", "died", "run", "returned"
  work,      \* what the generator calls in progress have left to do
  code,      \* the instructions emitted
  idx,       \* ctx->stack_index
  scopes,    \* number of variables in each open scope, innermost first
  breaks,    \* ctx->break_labels, top first
  conts,     \* ctx->continue_labels
  nr,        \* the static counters behind the label names, as one
  userset,   \* ctx->user_labels
  pc,        \* the instruction to execute
  depth,     \* %rbp - %rsp
  uses       \* history: "loop" (break, continue), "label", "goto", "args"
             \* (calls with arguments on the stack)

ctx == <<scopes, breaks, conts, nr, userset, uses>>
machine == <<pc, depth>>
vars == <<phase, work, code, idx, ctx, machine>>

(***************************************************************************)
(* Instructions.  at is the stack_index the generator had in mind when it  *)
(* emitted the instruction, by what it moves %rsp by.                      *)
(***************************************************************************)
NoLabel == <<"none", 0>>
Ins(op, label, by, at) == [op |-> op, label |-> label, by |-> by, at |-> at]

Eval(n, at) == Ins("eval", NoLabel, n, at)   \* an expression, leaves n at most
Branch(l, n, at) == Ins("branch", l, n, at)  \* a condition, cmp, je or jne
Jump(l, at) == Ins("jmp", l, 0, at)
Mark(l, at) == Ins("label", l, 0, at)
Sub(at) == Ins("sub", NoLabel, 4, at)
Add(n, at) == Ins("add", NoLabel, n, at)
Ret(at) == Ins("ret", NoLabel, 0, at)        \* epilogue and ret

UserLabel(l) == <<"user", l>>

Init ==
  /\ phase = "start"
  /\ work = <<>> /\ code = <<>> /\ idx = 0
  /\ scopes = <<>> /\ breaks = <<>> /\ conts = <<>> /\ nr = 0
  /\ userset = [l \in Labels |-> "unknown"]
  /\ pc = 1 /\ depth = 0
  /\ uses = {}

(***************************************************************************)
(* The work left is a stack, as the C stack of the recursion is.           *)
(***************************************************************************)
Task(do, n) == [do |-> do, n |-> n]
Statement == Task("statement", 0)
Item == Task("item", 0)     \* a statement or a declaration
Items == Task("items", 0)   \* the rest of a block

At(do) == phase = "gen" /\ Head(work).do = do

\* Once the room is used up only empty statements and ends of blocks follow.
Room == Len(code) + Len(work) <= MaxCode
UserRoom == Len(code) + Len(work) <= MaxUser

\* Emit instructions, then go on with tasks and with what was left before.
Emit(ins, tasks) ==
  /\ code' = code \o ins
  /\ work' = tasks \o Tail(work)
  /\ UNCHANGED <<phase, machine>>

\* An expression that leaves n bytes was generated at index x.
Leaving == {i \in DOMAIN code : code[i].op \in {"eval", "branch"} /\ code[i].by > 0}
Generated(n, x) ==
  /\ n > 0 => UserRoom /\ Cardinality(Leaving) < MaxLeaving
  /\ idx' = x + n
  /\ uses' = IF n = 0 THEN uses ELSE uses \cup {"args"}

Die ==
  /\ phase' = "died"
  /\ UNCHANGED <<work, code, idx, ctx, machine>>

\* generate_func_decl and func_body_generator up to the statements: the
\* function has k parameters.
StartFunction(k) ==
  /\ phase = "start"
  /\ phase' = "gen"
  /\ code' = [i \in 1 .. k |-> Sub(4 * (i - 1))]
  /\ idx' = 4 * k
  /\ scopes' = <<k>>
  /\ work' = <<Items, Task("close", 0), Task("end_function", 0)>>
  /\ UNCHANGED <<breaks, conts, nr, userset, uses, machine>>

\* The end of a function: the epilogue and labelset_check.
EndFunction ==
  /\ At("end_function")
  /\ IF \E l \in Labels : userset[l] = "referenced" THEN Die
     ELSE /\ code' = Append(code, Ret(idx))
          /\ work' = Tail(work)
          /\ phase' = "run"
          /\ UNCHANGED <<idx, ctx, machine>>

\* generate_new_scope, before and behind the call of the generator; saved is
\* saved_stack_index.
Scope(body) == body \o <<Task("close", idx)>>

OpenScope == scopes' = <<0>> \o scopes

\* Mutants: stack_index is decremented as well as restored; all the bytes of the
\* frame are released; none is.
CloseScopeTwice ==
  /\ At("close")
  /\ Emit(<<Add(4 * Head(scopes), idx)>>, <<>>)
  /\ idx' = Head(work).n - 4 * Head(scopes)
  /\ scopes' = Tail(scopes)
  /\ UNCHANGED <<breaks, conts, nr, userset, uses>>
CloseScopeReleasesAll ==
  /\ At("close")
  /\ Emit(<<Add(idx, idx)>>, <<>>)
  /\ idx' = Head(work).n
  /\ scopes' = Tail(scopes)
  /\ UNCHANGED <<breaks, conts, nr, userset, uses>>
CloseScopeKeeps ==
  /\ At("close")
  /\ Emit(<<>>, <<>>)
  /\ idx' = Head(work).n
  /\ scopes' = Tail(scopes)
  /\ UNCHANGED <<breaks, conts, nr, userset, uses>>

CloseScope ==
  /\ At("close")
  /\ Emit(<<Add(4 * Head(scopes), idx)>>, <<>>)
  /\ idx' = Head(work).n
  /\ scopes' = Tail(scopes)
  /\ UNCHANGED <<breaks, conts, nr, userset, uses>>

\* block_statement_generator: one more item, or the end of the block.
NextItem ==
  /\ At("items")
  /\ \/ Room /\ Emit(<<>>, <<Item, Items>>)
     \/ Emit(<<>>, <<>>)
  /\ UNCHANGED <<idx, ctx>>

\* A declaration, where the parser allows one: generate_var_decl.  The
\* initialiser, if any, is evaluated behind the allocation.
VarDecl(n) ==
  /\ At("item") /\ Room
  /\ Emit(<<Sub(idx), Eval(n, idx + 4)>>, <<>>)
  /\ Generated(n, idx + 4)
  /\ scopes' = [scopes EXCEPT ![1] = @ + 1]
  /\ UNCHANGED <<breaks, conts, nr, userset>>

-----------------------------------------------------------------------------
(***************************************************************************)
(* generate_statement, with the start of each generator it calls.          *)
(***************************************************************************)
AtStatement == (At("statement") \/ At("item")) /\ Room

Expression(n) ==
  /\ At("statement") \/ At("item")
  /\ Emit(<<Eval(n, idx)>>, <<>>)
  /\ Generated(n, idx)
  /\ UNCHANGED <<scopes, breaks, conts, nr, userset>>

\* return; it dies when the function's type does not agree.
Return(n) ==
  /\ AtStatement
  /\ Emit(<<Eval(n, idx), Ret(idx + n)>>, <<>>)
  /\ Generated(n, idx)
  /\ UNCHANGED <<scopes, breaks, conts, nr, userset>>

ReturnDies == AtStatement /\ Die

Block ==
  /\ AtStatement
  /\ Emit(<<>>, Scope(<<Items>>))
  /\ OpenScope
  /\ UNCHANGED <<idx, breaks, conts, nr, userset, uses>>

If(n) ==
  /\ AtStatement
  /\ Emit(<<Branch(<<"if_end", nr>>, n, idx)>>, <<Statement, Task("if_end", nr)>>)
  /\ Generated(n, idx)
  /\ nr' = nr + 1
  /\ UNCHANGED <<scopes, breaks, conts, userset>>

IfElse(n) ==
  /\ AtStatement
  /\ Emit(<<Branch(<<"else", nr>>, n, idx)>>,
          <<Statement, Task("else", nr), Statement, Task("if_end", nr)>>)
  /\ Generated(n, idx)
  /\ nr' = nr + 1
  /\ UNCHANGED <<scopes, breaks, conts, userset>>

\* Mutant: the counter is not incremented.
EnterLoopSameNumber(cont) ==
  /\ breaks' = <<<<"end", nr>>>> \o breaks
  /\ conts' = <<<<cont, nr>>>> \o conts
  /\ UNCHANGED nr

\* The loops push their labels before they generate anything.
EnterLoop(cont) ==
  /\ breaks' = <<<<"end", nr>>>> \o breaks
  /\ conts' = <<<<cont, nr>>>> \o conts
  /\ nr' = nr + 1

While(n) ==
  /\ AtStatement
  /\ Emit(<<Mark(<<"start", nr>>, idx), Branch(<<"end", nr>>, n, idx)>>,
          <<Statement, Task("end_while", nr)>>)
  /\ Generated(n, idx)
  /\ EnterLoop("start")
  /\ UNCHANGED <<scopes, userset>>

Do ==
  /\ AtStatement
  /\ Emit(<<Mark(<<"start", nr>>, idx)>>, <<Statement, Task("end_do", nr)>>)
  /\ EnterLoop("condition")
  /\ UNCHANGED <<idx, scopes, userset, uses>>

For(n, m) ==
  /\ AtStatement
  /\ Emit(<<Eval(n, idx), Mark(<<"condition", nr>>, idx + n),
            Branch(<<"end", nr>>, m, idx + n)>>,
          <<Statement, Task("end_for", nr)>>)
  /\ Generated(n + m, idx)
  /\ EnterLoop("epilogue")
  /\ UNCHANGED <<scopes, userset>>

\* A for that declares one variable: for_decl_generator in a scope of its own.
ForDecl(n, m) ==
  /\ AtStatement
  /\ Emit(<<Sub(idx), Eval(n, idx + 4), Mark(<<"condition", nr>>, idx + 4 + n),
            Branch(<<"end", nr>>, m, idx + 4 + n)>>,
          Scope(<<Statement, Task("end_for", nr)>>))
  /\ Generated(n + m, idx + 4)
  /\ EnterLoop("epilogue")
  /\ scopes' = <<1>> \o scopes
  /\ UNCHANGED userset

\* break and continue
JumpOut(labels) ==
  /\ AtStatement
  /\ IF labels = <<>> THEN Die
     ELSE /\ Emit(<<Jump(Head(labels), idx)>>, <<>>)
          /\ uses' = uses \cup {"loop"}
          /\ UNCHANGED <<idx, scopes, breaks, conts, nr, userset>>

\* labelset_put_definition; a label is followed by a statement or a declaration.
Labeled(l) ==
  /\ AtStatement /\ UserRoom
  /\ IF userset[l] = "defined" THEN Die
     ELSE /\ Emit(<<Mark(UserLabel(l), idx)>>, <<Item>>)
          /\ userset' = [userset EXCEPT ![l] = "defined"]
          /\ uses' = uses \cup {"label"}
          /\ UNCHANGED <<idx, scopes, breaks, conts, nr>>

\* labelset_put_reference
Goto(l) ==
  /\ AtStatement /\ UserRoom
  /\ Emit(<<Jump(UserLabel(l), idx)>>, <<>>)
  /\ userset' = [userset EXCEPT ![l] = IF @ = "unknown" THEN "referenced" ELSE @]
  /\ uses' = uses \cup {"goto"}
  /\ UNCHANGED <<idx, scopes, breaks, conts, nr>>

-----------------------------------------------------------------------------
(***************************************************************************)
(* The ends of the generators.                                             *)
(***************************************************************************)
number == Head(work).n

Else ==
  /\ At("else")
  /\ Emit(<<Jump(<<"if_end", number>>, idx), Mark(<<"else", number>>, idx)>>, <<>>)
  /\ UNCHANGED <<idx, ctx>>

EndIf ==
  /\ At("if_end")
  /\ Emit(<<Mark(<<"if_end", number>>, idx)>>, <<>>)
  /\ UNCHANGED <<idx, ctx>>

\* Mutant: continue_labels is not popped.
LeaveLoopHalf ==
  /\ breaks' = Tail(breaks)
  /\ UNCHANGED <<conts, scopes, nr, userset>>

LeaveLoop ==
  /\ breaks' = Tail(breaks)
  /\ conts' = Tail(conts)
  /\ UNCHANGED <<scopes, nr, userset>>

EndWhile ==
  /\ At("end_while")
  /\ Emit(<<Jump(<<"start", number>>, idx), Mark(<<"end", number>>, idx)>>, <<>>)
  /\ LeaveLoop
  /\ UNCHANGED <<idx, uses>>

EndDo(n) ==
  /\ At("end_do")
  /\ Emit(<<Mark(<<"condition", number>>, idx), Branch(<<"start", number>>, n, idx),
            Mark(<<"end", number>>, idx + n)>>, <<>>)
  /\ Generated(n, idx)
  /\ LeaveLoop

EndFor(n) ==
  /\ At("end_for")
  /\ Emit(<<Mark(<<"epilogue", number>>, idx), Eval(n, idx),
            Jump(<<"condition", number>>, idx + n), Mark(<<"end", number>>, idx + n)>>, <<>>)
  /\ Generated(n, idx)
  /\ LeaveLoop

-----------------------------------------------------------------------------
(***************************************************************************)
(* The processor.  The prologue of the function made depth 0.              *)
(***************************************************************************)
cur == code[pc]

Running(ops) == phase = "run" /\ cur.op \in ops

Target(l) == CHOOSE i \in DOMAIN code : code[i].op = "label" /\ code[i].label = l

\* %rsp behind an expression: some of its calls were executed, some may have
\* been skipped by &&, || or ?:.
Behind == {depth + k : k \in {j \in 0 .. cur.by : j % 4 = 0 /\ depth + j <= MaxFrame}}

Straight ==
  /\ Running({"eval", "label", "branch"})
  /\ depth' \in Behind
  /\ pc' = pc + 1
  /\ UNCHANGED <<phase, work, code, idx, ctx>>

Jumps ==
  /\ Running({"jmp", "branch"})
  /\ depth' \in Behind
  /\ pc' = Target(cur.label)
  /\ UNCHANGED <<phase, work, code, idx, ctx>>

Allocate ==
  /\ Running({"sub"})
  /\ depth + cur.by <= MaxFrame
  /\ depth' = depth + cur.by
  /\ pc' = pc + 1
  /\ UNCHANGED <<phase, work, code, idx, ctx>>

Release ==
  /\ Running({"add"})
  /\ cur.by - depth <= MaxFrame
  /\ depth' = depth - cur.by
  /\ pc' = pc + 1
  /\ UNCHANGED <<phase, work, code, idx, ctx>>

Returns ==
  /\ Running({"ret"})
  /\ phase' = "returned"
  /\ UNCHANGED <<work, code, idx, ctx, machine>>

Next ==
  \/ \E k \in 0 .. MaxParams : StartFunction(k)
  \/ EndFunction
  \/ NextItem \/ CloseScope \/ ReturnDies \/ Block \/ Do
  \/ \E n \in StackBytes :
       \/ VarDecl(n) \/ Expression(n) \/ Return(n)
       \/ If(n) \/ IfElse(n) \/ While(n) \/ EndDo(n) \/ EndFor(n)
       \/ \E m \in StackBytes : For(n, m) \/ ForDecl(n, m)
  \/ JumpOut(breaks) \/ JumpOut(conts)
  \/ \E l \in Labels : Labeled(l) \/ Goto(l)
  \/ Else \/ EndIf \/ EndWhile
  \/ Straight \/ Jumps \/ Allocate \/ Release \/ Returns

Spec == Init /\ [][Next]_vars

-----------------------------------------------------------------------------
(***************************************************************************)
(* Properties.                                                             *)
(***************************************************************************)
Op == {"eval", "branch", "jmp", "label", "sub", "add", "ret"}

Phase == {"start", "gen", "died", "run", "returned"}

JumpLabels == {code[i].label : i \in {j \in DOMAIN code : code[j].op \in {"jmp", "branch"}}}
Marks(l) == {i \in DOMAIN code : code[i].op = "label" /\ code[i].label = l}

\* Type invariant of the generator, its output and the processor.
TypeOK ==
  /\ phase \in Phase
  /\ \A i \in DOMAIN work : work[i].n \in Nat
  /\ \A i \in DOMAIN code : code[i].op \in Op /\ code[i].by \in Nat /\ code[i].at \in Nat
  /\ idx \in Nat /\ nr \in Nat
  /\ scopes \in Seq(Nat)
  /\ userset \in [Labels -> {"unknown", "referenced", "defined"}]
  /\ pc \in Nat \ {0}

\* A break or continue binds to the innermost loop whose generator is running,
\* and the stacks are empty when the function ends (x86.c:754): the label of a
\* loop is as deep on its stack as the loop is among those in the work left.
Loops == {"end_while", "end_do", "end_for"}
LoopsIn(w, i) == {j \in 1 .. i : w[j].do \in Loops}
Nested(w, bs, cs) ==
  /\ Len(bs) = Cardinality(LoopsIn(w, Len(w))) /\ Len(cs) = Len(bs)
  /\ \A i \in LoopsIn(w, Len(w)) :
       LET k == Cardinality(LoopsIn(w, i))
       IN  bs[k] = <<"end", w[i].n>> /\ cs[k][2] = w[i].n
InnermostLoop == phase \in {"gen", "run"} => Nested(work, breaks, conts)

\* No label is defined twice, and in a function that was accepted each jump
\* has a label to go to: what labelset.c and the counters are for.
LabelsResolve ==
  /\ \A i, j \in DOMAIN code :
       code[i].op = "label" /\ code[j].op = "label" /\ i # j
         => code[i].label # code[j].label
  /\ phase = "run" => \A l \in JumpLabels : Marks(l) # {}

\* An expression is evaluated, and what it pushes or calls overwrites what is
\* below %rsp: no local variable may be there ("-{stack_index}(%rbp)" is to be
\* "(%rsp)", x86.c:26).
LocalsSafe == phase = "run" /\ cur.op \in {"eval", "branch"} => depth >= cur.at

\* That holds for every program without goto, labels and calls with arguments
\* on the stack, whichever way break, continue and return leave the scopes they
\* are in and however often loops are repeated.
StructuredSafe == uses \subseteq {"loop"} => LocalsSafe

\* "goto and labels" are listed as supported (README.md:134): it holds for
\* programs that use them as well.
GotoSafe == "goto" \in uses => LocalsSafe

\* "at any given moment, -{stack_index}(%rbp) will be the same as (%rsp)"
\* (x86.c:26).
RspTracked == phase = "run" => depth = cur.at

\* It is so in programs that have no break, continue, goto, label or call with
\* arguments on the stack: the generators of blocks and loops give back exactly
\* what they took.  A label alone breaks it, as a declaration may follow one:
\* if (0) l: int a;
RspExact == uses = {} => RspTracked
=============================================================================
