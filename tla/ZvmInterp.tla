------------------------------ MODULE ZvmInterp ------------------------------
(***************************************************************************)
(* function::process and op_process of zvm: a function on one frame, with  *)
(* its registers, op stack, locals, the pool of objs and the exception of  *)
(* the stack.  An s64 holds an integer, or the address of an obj; integers *)
(* are 0 and 1 and addresses are the naturals from 2 on, so that 0 is also *)
(* NULL.  The code is chosen as it is reached, among the operations that   *)
(* find an obj where they use one, as a compiler would emit them; ecx and  *)
(* edx are used like ebx and left out.  new never returns NULL (it throws) *)
(* and the locks of objs are in ZvmObj.                                    *)
(***************************************************************************)
EXTENDS Naturals, SequencesExt

CONSTANTS
  Ops,        \* the operations code is made of: [op, arg]
  NoOp,       \* a place of the code not reached yet
  Size,       \* bound: operations of the function, op 0 (ACATCH) apart
  Handlers,   \* the possible lists of [type, from, to, entry, again]
  InitEnds,   \* what an init function may come to: [fails, catch, left], or NoInit if the class has none
  FrameMax,   \* locals of the frame
  OpStackMax, \* OP_STACK_DEFAULT_SIZE
  W,          \* pc is of W values, more than Size + 2
  MaxMade,    \* bound: objs created
  MaxCalls    \* bound: calls of the function

\* The class has no init function
NoInit == [fails |-> "none", catch |-> "no", left |-> 0]

\* The places of a function and those of its handlers are u32; what an
\* operation pushes or sets is an integer.
ASSUME CodeAssumption ==
  /\ Size \in Nat /\ W \in Nat /\ W > Size + 3
  /\ \A o \in Ops : o.arg \in Nat /\ (o.op \in {"ICONST", "ICONSTA", "PUSH_ICONST"} => o.arg \in {0, 1})
  /\ InitEnds \subseteq {NoInit} \cup [fails : {"no", "status", "throw", "null"}, catch : {"no", "keep", "give"}, left : 1..(W - 1)]
  /\ Handlers \subseteq Seq([type : STRING, from : Nat, to : Nat, entry : Nat, again : BOOLEAN])

VARIABLES
  code, handlers, initEnd,
  phase,      \* "idle", "run", or "dead" once the process has crashed
  calls, pc, ret,
  eax, ebx, opStack,
  locals,     \* of the frame: <<value, type>>
  heap,       \* objs: free (the pool), ent (by address), made, refs (of the entity)
  retObj,     \* the entity of m_ret_obj
  excp,       \* m_excp
  caught,     \* the exception was caught and given back, and m_excp still names it
  lost,       \* objs only a register or nothing at all refers to
  failed      \* something led to operation 0 since the last clear

codeVars == <<code, handlers, initEnd>>
interpVars == <<code, handlers, initEnd, phase, calls, pc, ret, eax, ebx, opStack, locals, heap, retObj, excp, caught, lost, failed>>

Ints == {0, 1}
IsObj(v) == v > 1
AccessNull == 1  \* set_exception(ACCESS_NULL): a number where an obj is expected
Far == W - 2     \* (u32)(-1) - 1
This == 2        \* ths(): an obj of the caller
Objs == 2..heap.made

InterpInit ==
  /\ code = [i \in 1..Size |-> NoOp] /\ handlers \in Handlers /\ initEnd \in InitEnds
  /\ phase = "idle" /\ calls = 0 /\ pc = 0 /\ ret = "ok"
  /\ eax = 0 /\ ebx = 0 /\ opStack = <<>> /\ locals = <<>>
  /\ \E e \in {"user", "null"} : heap = [free |-> <<>>, ent |-> <<"null", e>>, made |-> This, refs |-> IF e = "user" THEN 1 ELSE 0]
  /\ retObj = "null" /\ excp = 0 /\ caught = FALSE /\ lost = {} /\ failed = FALSE

-----------------------------------------------------------------------------
(* The pool and the entity.                                                *)

UserRefs(e, d) == IF e = "user" THEN d ELSE 0
\* entry_reference, then set_entry of the new obj
Room == heap.free # <<>> \/ heap.made <= MaxMade
NextObj == IF heap.free = <<>> THEN heap.made + 1 ELSE Head(heap.free)
Allocate(h, e) ==
  IF h.free = <<>>
  THEN [h EXCEPT !.made = @ + 1, !.ent = Append(@, e), !.refs = @ + UserRefs(e, 1)]
  ELSE LET o == Head(h.free) IN
       [h EXCEPT !.free = Tail(@), !.ent[o] = e, !.refs = @ + UserRefs(e, 1) - UserRefs(h.ent[o], 1)]
Dup(v) == Allocate(heap, heap.ent[v])
\* Mutant: clear only takes the entity from the obj.
DeallocateUncounted(h, o) == [h EXCEPT !.free = <<o>> \o @, !.ent[o] = "null"]
\* clear, then the head of the pool
Deallocate(h, o) ==
  [h EXCEPT !.free = <<o>> \o @, !.ent[o] = "null", !.refs = @ - UserRefs(h.ent[o], 1)]

ObjLocals == {i \in DOMAIN locals : locals[i][2] = "obj"}
\* Locals are popped from the top, and the objs among them given back
Popped(h) ==
  LET popped[n \in 0..Len(locals)] ==
        IF n = 0 THEN h
        ELSE LET l == locals[Len(locals) - n + 1] IN
             IF l[2] = "obj" /\ l[1] # 0 THEN Deallocate(popped[n - 1], l[1]) ELSE popped[n - 1]
  IN popped[Len(locals)]

-----------------------------------------------------------------------------
(* The caller.                                                             *)

\* process: the frame may hold an argument.  The caller clears the op stack,
\* and no code uses what the registers held before.
Call ==
  /\ phase = "idle" /\ locals = <<>> /\ calls < MaxCalls /\ Room
  /\ phase' = "run" /\ calls' = calls + 1 /\ pc' = 1 /\ ret' = "ok"
  /\ \/ locals' = <<<<NextObj, "obj">>>> /\ heap' = Dup(This)
     \/ UNCHANGED <<locals, heap>>
  /\ eax' = 0 /\ ebx' = 0 /\ opStack' = <<>>
  /\ UNCHANGED <<code, handlers, initEnd, retObj, excp, caught, lost, failed>>

\* stack::clear
ClearStack ==
  /\ phase = "idle" /\ calls \in 1..(MaxCalls - 1) /\ (excp # 0 \/ retObj # "null")
  /\ pc' = 0 /\ excp' = 0 /\ caught' = FALSE /\ failed' = FALSE
  /\ lost' = IF caught \/ ~IsObj(excp) THEN lost ELSE lost \cup {excp}
  /\ retObj' = "null" /\ heap' = [heap EXCEPT !.refs = @ - UserRefs(retObj, 1)]
  /\ UNCHANGED <<code, handlers, initEnd, phase, calls, ret, eax, ebx, opStack, locals>>

\* After the last operation
Finish ==
  /\ phase = "run" /\ pc > Size
  /\ phase' = "idle" /\ ret' = IF excp # 0 THEN "athrow" ELSE ret
  /\ locals' = <<>> /\ heap' = Popped(heap)
  /\ UNCHANGED <<code, handlers, initEnd, calls, pc, eax, ebx, opStack, retObj, excp, caught, lost, failed>>

-----------------------------------------------------------------------------
(* Operations.  Each ends with a result and the place it leaves in pc.     *)

At(p) == (p + 1) % W
Ends(r, p) == /\ ret' = r /\ pc' = IF r = "ok" THEN At(p) ELSE 0
              /\ failed' = (failed \/ pc' = 0)
Succeeds == Ends("ok", pc)
Fails(r) == Ends(r, pc)
objVarsKept == UNCHANGED <<heap, retObj, excp, caught, lost>>
Sets(a, b) == eax' = a /\ ebx' = b
RegsKept == UNCHANGED <<eax, ebx>>

\* AB, BA and their like
Move(o) ==
  /\ \/ o.op = "AB" /\ Sets(eax, eax)
     \/ o.op = "BA" /\ Sets(ebx, ebx)
  /\ Succeeds /\ UNCHANGED <<opStack, locals>> /\ objVarsKept

PushOp(v) == IF Len(opStack) < OpStackMax THEN Succeeds /\ opStack' = Append(opStack, v)
             ELSE Fails("overflow") /\ UNCHANGED opStack
TopOp == IF opStack = <<>> THEN 0 ELSE Last(opStack)
PopOp == opStack' = IF opStack = <<>> THEN opStack ELSE Front(opStack)
OnOpStack(o) ==
  /\ \/ o.op = "AOPSTACK" /\ PushOp(eax) /\ RegsKept
     \/ o.op = "OPSTACKA" /\ Sets(TopOp, ebx) /\ PopOp /\ Succeeds
     \/ o.op = "ICONST" /\ PushOp(o.arg) /\ RegsKept
     \/ o.op = "ILOAD" /\ o.arg \in DOMAIN locals /\ PushOp(locals[o.arg][1]) /\ RegsKept
  /\ UNCHANGED locals /\ objVarsKept

Constant(o) ==
  /\ \/ o.op = "ICONSTA" /\ Sets(o.arg, ebx)
     \/ o.op = "ILOADA" /\ o.arg \in DOMAIN locals /\ Sets(locals[o.arg][1], ebx)
  /\ Succeeds /\ UNCHANGED <<opStack, locals>> /\ objVarsKept

\* An integer goes to a local of its type
SetLocal(i, v) == /\ i \in DOMAIN locals /\ locals[i][2] = "int" /\ v \in Ints
                  /\ locals' = [locals EXCEPT ![i][1] = v]
StoreLocal(o) ==
  /\ \/ o.op = "ISTORE" /\ Len(opStack) = 1 /\ SetLocal(o.arg, TopOp) /\ PopOp
     \/ o.op = "ISTOREA" /\ SetLocal(o.arg, eax) /\ UNCHANGED opStack
  /\ Succeeds /\ RegsKept /\ objVarsKept

\* IADD and the others leave any integer; IDIV and IREM fail on zero
Arithmetic(o) ==
  /\ eax \in Ints /\ ebx \in Ints
  /\ \/ o.op = "IADD" /\ eax' \in Ints /\ Succeeds
     \/ o.op = "IDIV" /\ ebx # 0 /\ eax' \in Ints /\ Succeeds
     \/ o.op = "IDIV" /\ ebx = 0 /\ UNCHANGED eax /\ Fails("div_zero")
  /\ UNCHANGED <<ebx, opStack, locals>> /\ objVarsKept

\* MONENTER and MONEXIT both lock the obj at eax
Monitor(o) ==
  /\ o.op = "MONENTER" /\ (eax = 0 \/ IsObj(eax))
  /\ IF eax # 0 THEN Succeeds ELSE Fails("lock_null")
  /\ RegsKept /\ UNCHANGED <<opStack, locals>> /\ objVarsKept

PushLocal(v, t) == IF Len(locals) < FrameMax THEN Succeeds /\ locals' = Append(locals, <<v, t>>)
                   ELSE Fails("overflow") /\ UNCHANGED locals
PushInt(o) ==
  /\ \/ o.op = "PUSH_I" /\ eax \in Ints /\ PushLocal(eax, "int")
     \/ o.op = "PUSH_ICONST" /\ PushLocal(o.arg, "int")
  /\ RegsKept /\ UNCHANGED opStack /\ objVarsKept

\* The obj is made first, and nobody has it when the frame is full
PushObj(o) ==
  /\ Room
  /\ \/ o.op = "PUSH_O" /\ IsObj(eax) /\ heap' = Dup(eax)
     \/ o.op = "PUSH_NULL" /\ heap' = Allocate(heap, "null")
  /\ PushLocal(NextObj, "obj")
  /\ lost' = IF Len(locals) < FrameMax THEN lost ELSE lost \cup {NextObj}
  /\ RegsKept /\ UNCHANGED <<opStack, retObj, excp, caught>>

\* The obj m_excp named so far is forgotten
Raise(v) ==
  /\ excp' = v /\ caught' = FALSE
  /\ lost' = IF caught \/ ~IsObj(excp) THEN lost ELSE lost \cup {excp}

Throw(o) ==
  /\ o.op = "ATHROW" /\ Len(opStack) = 1 /\ IsObj(eax) /\ Room
  /\ heap' = Dup(eax) /\ Raise(NextObj) /\ Fails("athrow")
  /\ RegsKept /\ UNCHANGED <<opStack, locals, retObj>>

\* The order of eax and ebx, integers or addresses
Jump(o) ==
  /\ \/ o.op = "JUMP" /\ Ends("ok", o.arg)
     \/ o.op = "JE" /\ Ends("ok", IF eax = ebx THEN o.arg ELSE pc)
     \/ o.op = "JLG" /\ Ends("ok", IF eax > ebx THEN o.arg ELSE pc)
     \/ o.op = "JNULL" /\ IsObj(eax) /\ Ends("ok", IF heap.ent[eax] = "null" THEN o.arg ELSE pc)
  /\ RegsKept /\ UNCHANGED <<opStack, locals>> /\ objVarsKept

\* assign refuses an obj without an entity: to return one is a failure.  eax
\* is then the address of m_ret_obj, which no operation here may use.
Return(o) ==
  /\ \/ o.op = "RET" /\ Ends("ok", Far) /\ RegsKept /\ UNCHANGED <<heap, retObj>>
     \/ /\ o.op = "ARET" /\ IsObj(eax) /\ Sets(0, ebx)
        /\ IF heap.ent[eax] = "null" THEN Fails("out_of_mem") /\ UNCHANGED <<heap, retObj>>
           ELSE /\ retObj' = heap.ent[eax] /\ Ends("ok", Far)
                /\ heap' = [heap EXCEPT !.refs = @ + UserRefs(heap.ent[eax], 1) - UserRefs(retObj, 1)]
  /\ UNCHANGED <<opStack, locals, excp, caught, lost>>

\* ANEW finds its class and reports that it has none; ANOTHOR calls
\* entry::create_entry_obj, which classdef does not override.
New(o) ==
  /\ \/ o.op = "ANEW" /\ Raise(AccessNull) /\ Fails("access_null") /\ RegsKept
     \/ o.op = "ANOTHOR" /\ Succeeds /\ Sets(0, ebx) /\ UNCHANGED <<excp, caught, lost>>
  /\ UNCHANGED <<opStack, locals, heap, retObj>>

\* AINIT processes the init function on the same frame and the same pc.  An
\* operation of it that fails leaves a status (the exception so far, or a new
\* one), throws an obj, or sets ACCESS_NULL; a handler of its own may keep the
\* exception or give it back.  It gives the locals back, and leaves pc where its
\* own loop ended: behind its last operation, shorter or longer than the caller
\* as it is, or, by RET or with no handler, at the largest value, from where the
\* caller goes on at 0.  What it leaves in ebx, on the op stack and in m_ret_obj
\* is left out, and so is the crash of a handler that looks at a NULL.
Processed(i) ==
  LET new == i.fails = "throw" \/ (i.fails = "status" /\ excp = 0)
      forgets == i.fails \in {"throw", "null"}
      e == IF new THEN NextObj ELSE IF i.fails = "null" THEN AccessNull ELSE excp
      h0 == IF ~new THEN heap ELSE IF i.fails = "throw" THEN Dup(This) ELSE Allocate(heap, "inner")
      given == i.fails # "no" /\ i.catch = "give"
  IN
  /\ (new => Room) /\ (given => IsObj(e))
  /\ excp' = e /\ caught' = (given \/ (caught /\ ~forgets))
  /\ lost' = IF forgets /\ ~caught /\ IsObj(excp) THEN lost \cup {excp} ELSE lost
  /\ heap' = Popped(IF given THEN Deallocate(h0, e) ELSE h0) /\ locals' = <<>>
  /\ Sets(IF e # 0 THEN 1 ELSE 0, ebx)
  /\ ret' = "ok" /\ pc' = At(i.left)
  /\ failed' = (failed \/ i.fails # "no" \/ pc' = 0)
InitObj(o) ==
  /\ o.op = "AINIT"
  /\ \/ /\ heap.ent[This] = "null"
        /\ Raise(AccessNull) /\ Fails("access_null") /\ RegsKept /\ UNCHANGED <<locals, heap>>
     \/ /\ heap.ent[This] # "null" /\ initEnd = NoInit
        /\ Succeeds /\ Sets(0, ebx) /\ UNCHANGED locals /\ objVarsKept
     \/ heap.ent[This] # "null" /\ initEnd # NoInit /\ Processed(initEnd)
  /\ UNCHANGED <<opStack, retObj>>

Operate(o) ==
  \/ Move(o) \/ OnOpStack(o) \/ Constant(o) \/ StoreLocal(o) \/ Arithmetic(o) \/ Monitor(o)
  \/ PushInt(o) \/ PushObj(o) \/ Throw(o) \/ Jump(o) \/ Return(o) \/ New(o) \/ InitObj(o)

Process ==
  /\ phase = "run" /\ pc \in 1..Size
  /\ \E o \in IF code[pc] = NoOp THEN Ops ELSE {code[pc]} :
       code' = [code EXCEPT ![pc] = o] /\ Operate(o)
  /\ UNCHANGED <<handlers, initEnd, phase, calls>>

-----------------------------------------------------------------------------
(* ACATCH, operation 0.                                                    *)

\* No entity overrides entry::type: it is "" for every one
TypeOf(e) == IF e = "null" THEN "NULL" ELSE ""

\* The handlers are tried in order, with pc at 0
Matches(h, e) == h.type \in {"", e} /\ h.from <= pc /\ pc < h.to
\* Mutant: the status is not turned into an exception.
CatchUnset ==
  /\ phase = "run" /\ pc = 0 /\ excp = 0
  /\ ret' = "ok" /\ pc' = At(Far)
  /\ UNCHANGED <<code, handlers, initEnd, phase, calls, eax, ebx, opStack, locals, heap, retObj, excp, caught, lost, failed>>
Catch ==
  LET fresh == excp = 0
      e == IF fresh THEN NextObj ELSE excp
      h0 == IF fresh THEN Allocate(heap, "inner") ELSE heap
      type == IF IsObj(e) THEN TypeOf(h0.ent[e]) ELSE "NULL"
      found == {i \in DOMAIN handlers : Matches(handlers[i], type)}
      looked == IF found = {} THEN DOMAIN handlers ELSE 1..Min(found)
      h == handlers[Min(found)]
      crashes == ~IsObj(e) /\ (\/ \E i \in looked : handlers[i].type # ""
                               \/ found # {} /\ ~h.again)
      given == found # {} /\ ~h.again /\ ~crashes
  IN
  /\ phase = "run" /\ pc = 0 /\ (fresh => Room)
  /\ phase' = IF crashes THEN "dead" ELSE "run"
  /\ heap' = IF given THEN Deallocate(h0, e) ELSE h0
  /\ excp' = e /\ caught' = (caught \/ given)
  /\ ret' = "ok" /\ pc' = At(IF found = {} THEN Far ELSE h.entry)
  /\ UNCHANGED <<failed, code, handlers, initEnd, calls, eax, ebx, opStack, locals, retObj, lost>>

-----------------------------------------------------------------------------
(* Where every obj is.                                                     *)

Pooled == ToSet(heap.free)
OnFrame == {locals[i][1] : i \in ObjLocals}
Raised == IF IsObj(excp) /\ ~caught THEN {excp} ELSE {}
\* In one place each, and the entity counts those that refer to it
Once ==
  /\ Len(heap.free) + Cardinality(ObjLocals) + Cardinality(Raised) + Cardinality(lost) + 1 = heap.made - 1
  /\ Pooled \cup OnFrame \cup Raised \cup lost \cup {This} = Objs
  /\ heap.refs = Cardinality({o \in Objs : heap.ent[o] = "user"}) + UserRefs(retObj, 1)

InterpNext == Once /\ (Call \/ ClearStack \/ Finish \/ Process \/ Catch)
InterpSpec == InterpInit /\ [][InterpNext]_interpVars

-----------------------------------------------------------------------------
(* Properties.                                                             *)

\* Every obj is in one place: the pool, one local, the exception, the caller's
\* hands or among those that were forgotten (pushed on a full frame, or an
\* exception that another one replaced).  So a call gives back what it took, by
\* whatever path of failures, handlers and nested init functions it ends.  Only
\* a handler, of the function or of the init function, can give an obj back that
\* is in use or in the pool: one that catches the exception the stack has kept
\* from an earlier catch.
Catching == pc = 0 \/ (pc \in 1..Size /\ code'[pc].op = "AINIT" /\ initEnd.catch = "give")
OnceUntilCaughtAgain == [][Once' \/ (caught /\ Catching)]_interpVars

\* A call reports RET_ATHROW exactly if in it, or in an earlier call since
\* clear(), an operation failed, there or in an init function, or an init
\* function ended by RET: neither a handler nor a jump hides a failure, and that
\* of the last operation is told.
ResultTells == phase = "idle" /\ pc > Size => (ret = "athrow" <=> failed)
=============================================================================
