-------------------------------- MODULE MCZvm --------------------------------
(* The three parts of zvm in one run: `which` says which of them moves. *)
EXTENDS ZvmGc, ZvmObj, ZvmInterp
VARIABLE which

MCInit == /\ which \in {"gc", "obj", "interp"} /\ Init /\ ObjInit
          /\ IF which = "interp" THEN InterpInit ELSE InterpInit /\ handlers = <<>> /\ initEnd = NoInit /\ heap.refs = 0
MCNext == /\ UNCHANGED which
          /\ \/ which = "gc" /\ Next /\ UNCHANGED <<objVars, interpVars>>
             \/ which = "obj" /\ ObjNext /\ UNCHANGED <<state, interpVars>>
             \/ which = "interp" /\ InterpNext /\ UNCHANGED <<state, objVars>>
MCSpec == MCInit /\ [][MCNext]_<<which, state, objVars, interpVars>>

Base == [parent |-> NULL, slots |-> <<"obj">>]
Pair == [parent |-> NULL, slots |-> <<"obj", "obj">>]
Child == [parent |-> Base, slots |-> <<"int", "obj">>]
MCClasses == {Base, Pair, Child}
MCMaxOf(c) == IF c = Pair THEN 2 ELSE 1

O(n, a) == [op |-> n, arg |-> a]
MCOps == {O(n, 0) : n \in {"AB", "BA", "AOPSTACK", "OPSTACKA", "ICONST", "IADD", "IDIV", "MONENTER", "PUSH_I", "PUSH_ICONST",
                           "PUSH_O", "PUSH_NULL", "ATHROW", "RET", "ARET", "ANEW", "ANOTHOR", "AINIT"}}
  \cup {O(n, 1) : n \in {"ICONSTA", "ILOAD", "ILOADA", "ISTORE", "ISTOREA", "JNULL", "JLG"}}
  \cup {O("JUMP", 2), O("JE", 2)}
H(t, f, l, e, a) == [type |-> t, from |-> f, to |-> l, entry |-> e, again |-> a]
MCHandlers == {<<>>, <<H("", 0, 2, 1, FALSE)>>, <<H("", 1, 3, 1, FALSE), H("T", 0, 2, 0, FALSE), H("", 0, 2, 1, TRUE)>>}

\* One, two and more operations, RET, and failures of each kind with and without handlers
E(f, c, l) == [fails |-> f, catch |-> c, left |-> l]
MCInitEnds == {NoInit, E("no", "no", 1), E("no", "no", Size + 1), E("no", "no", W - 1),
               E("status", "no", W - 1), E("status", "give", 1), E("throw", "keep", 2), E("throw", "give", W - 1)}

MCLow == CHOOSE f \in [Stacks -> 1..Cardinality(Stacks)] : \A t, u \in Stacks : f[t] = f[u] => t = u

Symmetry == Permutations(Vars)
=============================================================================
