------------------------------ MODULE JobProofs ------------------------------
(***************************************************************************)
(* What Job keeps for any number of children, workers and retries, with or *)
(* without a combiner, and whatever the depth of the calls a combiner that *)
(* cancels nests.  A child is a token (Tokens): it is queued, or one frame *)
(* of one stack has it, and once that frame has reported it no other ever  *)
(* does.  m_finish_num and m_semp count the tokens that are past the count *)
(* and past the permit (Counts), and the frame that counted the last one   *)
(* is the only one that may tell the combiner so (Told).                   *)
(***************************************************************************)
EXTENDS Job, FiniteSetTheorems, SequenceTheorems, TLAPS

\* The stacks with the outermost call first: a call keeps its index.
calls == [t \in Threads |-> [d \in 1..Len(stack[t]) |-> stack[t][Len(stack[t]) - d + 1]]]

\* f will report child c; f has reported it.
Bears(f, c) == \/ f.op = "process" /\ f.at # "count" /\ f.c = c
               \/ f.op = "handle" /\ f.at = "report" /\ f.c = c
               \/ f.op = "stop" /\ c \in f.ctl
Past(f, c) == f.op = "handle" /\ f.at # "report" /\ f.c = c
Holds(f, c) == Bears(f, c) \/ Past(f, c)

Shape(f) ==
    /\ f.op = "process" => f.at \in {"check", "run", "retry", "count"} /\ f.c \in Children
    /\ f.op = "handle" => f.at \in {"report", "count", "all", "give", "tail"} /\ f.c \in Children
    /\ f.op = "stop" => f.at \in {"enter", "report"} /\ (f.at = "enter" => f.ctl = {})

PType ==
    /\ plan \in Plans
    /\ m_finish_num \in Nat
    /\ m_semp \in Nat
    /\ callbacks \subseteq plan.children
    /\ tasks \in Seq(Children)
    /\ stack \in [Threads -> Seq(Frame)]
    /\ \A t \in Threads : \A d \in DOMAIN calls[t] : Shape(calls[t][d])
    /\ reported \in [Children -> Nat]
    /\ opc \in {"new", "dispatch", "ran", "cancelling", "wait", "clear", "deleted"}
    /\ opc \in {"ran", "cancelling", "wait", "clear"} => callbacks = plan.children

\* No two calls have one child.
Unique ==
    \A t, u \in Threads : \A d \in DOMAIN calls[t], e \in DOMAIN calls[u] : \A c \in Children :
        Holds(calls[t][d], c) /\ Holds(calls[u][e], c) => t = u /\ d = e

Touched(c) == \/ \E i \in DOMAIN tasks : tasks[i] = c
              \/ \E t \in Threads : \E d \in DOMAIN calls[t] : Holds(calls[t][d], c)
              \/ reported[c] # 0

Tokens ==
    /\ Unique
    /\ \A i, j \in DOMAIN tasks : tasks[i] = tasks[j] => i = j
    /\ \A i \in DOMAIN tasks :
          /\ reported[tasks[i]] = 0
          /\ \A t \in Threads : \A d \in DOMAIN calls[t] : ~Holds(calls[t][d], tasks[i])
    /\ \A t \in Threads : \A d \in DOMAIN calls[t] : \A c \in Children :
          /\ Bears(calls[t][d], c) => reported[c] = 0
          /\ Past(calls[t][d], c) => reported[c] = 1
    /\ \A c \in Children : reported[c] \in {0, 1}
    /\ \A c \in Children : Touched(c) => /\ c \in plan.children
                                         /\ opc \in {"new", "dispatch"} => c \in callbacks

\* The children counted, and those whose permit is given.
Uncounted == {c \in Children : \E t \in Threads : \E d \in DOMAIN calls[t] :
                 Past(calls[t][d], c) /\ calls[t][d].at = "count"}
Unpaid == {c \in Children : \E t \in Threads : \E d \in DOMAIN calls[t] :
                 Past(calls[t][d], c) /\ calls[t][d].at # "tail"}
Counted == {c \in Children : reported[c] = 1} \ Uncounted
Paid == {c \in Children : reported[c] = 1} \ Unpaid

Counts ==
    /\ m_finish_num = Cardinality(Counted)
    /\ opc \notin {"clear", "deleted"} => m_semp = Cardinality(Paid)
    /\ opc \in {"clear", "deleted"} => Paid = plan.children

\* A call about to tell the combiner that all is done.
Tells(f) == f.op = "handle" /\ f.at = "all"
Told ==
    /\ \A t \in Threads : \A d \in DOMAIN calls[t] :
          Tells(calls[t][d]) => m_finish_num = N /\ allCalls = 0 /\ Combiner # "none"
    /\ \A t, u \in Threads : \A d \in DOMAIN calls[t], e \in DOMAIN calls[u] :
          Tells(calls[t][d]) /\ Tells(calls[u][e]) => t = u /\ d = e
    /\ allCalls \in {0, 1}
    /\ allCalls = 1 => m_finish_num = N
    /\ m_finish_num = N /\ Combiner # "none" /\ plan.children # {} =>
          allCalls = 1 \/ \E t \in Threads : \E d \in DOMAIN calls[t] : Tells(calls[t][d])

IInv == PType /\ Tokens /\ Counts /\ Told

-----------------------------------------------------------------------------
(* Lemmas about the stacks: what a step does to one of them *)

StackType == stack \in [Threads -> Seq(Frame)]

\* The two views of a stack agree.
LEMMA CallsDef ==
  ASSUME NEW u \in Threads
  PROVE  /\ DOMAIN calls[u] = 1..Len(stack[u])
         /\ calls[u] = [d \in 1..Len(stack[u]) |-> stack[u][Len(stack[u]) - d + 1]]
  BY DEF calls

\* And so they do after a step.
LEMMA CallsDefNext ==
  ASSUME NEW u \in Threads
  PROVE  /\ DOMAIN calls'[u] = 1..Len(stack'[u])
         /\ calls'[u] = [d \in 1..Len(stack'[u]) |-> stack'[u][Len(stack'[u]) - d + 1]]
  BY DEF calls

\* A stack a step leaves alone keeps its calls.
LEMMA SameCalls ==
  ASSUME NEW u \in Threads, stack'[u] = stack[u]
  PROVE  calls'[u] = calls[u]
  BY CallsDef, CallsDefNext

\* The call at an index, in either view.
LEMMA CallAt ==
  ASSUME NEW u \in Threads, NEW d \in 1..Len(stack[u])
  PROVE  calls[u][d] = stack[u][Len(stack[u]) - d + 1]
  BY CallsDef, Zenon

\* And after a step.
LEMMA CallAtNext ==
  ASSUME NEW u \in Threads, NEW d \in 1..Len(stack'[u])
  PROVE  calls'[u][d] = stack'[u][Len(stack'[u]) - d + 1]
  BY CallsDefNext, Zenon

\* The call on top has an index.
LEMMA TopInStack ==
  ASSUME StackType, NEW t \in Threads, stack[t] # <<>>
  PROVE  Top(t) \in Frame /\ \E n \in DOMAIN calls[t] : calls[t][n] = Top(t)
<1> DEFINE n == Len(stack[t])
<1>1. /\ stack[t] \in Seq(Frame) /\ n \in Nat \ {0}
      /\ Head(stack[t]) = stack[t][1] /\ stack[t][1] \in Frame
  BY DEF StackType
<1>2. n \in 1..n /\ n - n + 1 = 1
  BY <1>1
<1>3. calls[t][n] = stack[t][n - n + 1]
  BY <1>2, CallAt
<1> QED
  BY <1>1, <1>2, <1>3, CallsDef DEF Top

\* A step that exchanges the top of t's stack for the calls in s leaves the
\* calls below it where they are.
LEMMA Below ==
  ASSUME StackType, NEW t \in Threads, stack[t] # <<>>, NEW s \in Seq(Frame),
         stack' = [stack EXCEPT ![t] = s \o Tail(@)]
  PROVE  /\ StackType'
         /\ Len(stack[t]) \in Nat \ {0}
         /\ Len(stack'[t]) = Len(s) + Len(stack[t]) - 1
         /\ \A u \in Threads : u # t => calls'[u] = calls[u]
         /\ \A d \in 1..(Len(stack[t]) - 1) : calls'[t][d] = calls[t][d]
         /\ \A d \in 1..Len(s) : calls'[t][Len(stack[t]) - 1 + d] = s[Len(s) - d + 1]
         /\ calls[t][Len(stack[t])] = Top(t)
<1> DEFINE n == Len(stack[t])
<1>1. stack[t] \in Seq(Frame) /\ n \in Nat \ {0} /\ Head(stack[t]) = stack[t][1]
  BY DEF StackType
<1>2. /\ s \o Tail(stack[t]) \in Seq(Frame)
      /\ Len(s) \in Nat
      /\ Len(s \o Tail(stack[t])) = Len(s) + n - 1
      /\ \A i \in 1..Len(s) : (s \o Tail(stack[t]))[i] = s[i]
      /\ \A i \in 1..(n - 1) : (s \o Tail(stack[t]))[Len(s) + i] = stack[t][i + 1]
  BY <1>1
<1>3. stack'[t] = s \o Tail(stack[t]) /\ \A u \in Threads : u # t => stack'[u] = stack[u]
  BY DEF StackType
<1>4. StackType'
  BY <1>2 DEF StackType
<1>5. Len(stack'[t]) = Len(s) + n - 1
  BY <1>2, <1>3
<1>6. \A u \in Threads : u # t => calls'[u] = calls[u]
  BY <1>3, SameCalls
<1>7. ASSUME NEW d \in 1..(n - 1) PROVE calls'[t][d] = calls[t][d]
  <2>1. d \in 1..n /\ d \in 1..Len(stack'[t]) /\ n - d \in 1..(n - 1)
    BY <1>1, <1>2, <1>5
  <2>2. calls[t][d] = stack[t][n - d + 1]
    BY <2>1, CallAt
  <2>3. calls'[t][d] = stack'[t][Len(stack'[t]) - d + 1]
    BY <2>1, CallAtNext
  <2>4. Len(stack'[t]) - d + 1 = Len(s) + (n - d)
    BY <1>1, <1>2, <1>5
  <2>5. (s \o Tail(stack[t]))[Len(s) + (n - d)] = stack[t][n - d + 1]
    BY <1>2, <2>1
  <2> QED
    BY <1>3, <2>2, <2>3, <2>4, <2>5
<1>8. ASSUME NEW d \in 1..Len(s) PROVE calls'[t][n - 1 + d] = s[Len(s) - d + 1]
  <2>0. n \in Nat \ {0} /\ Len(s) \in Nat /\ Len(stack'[t]) = Len(s) + n - 1
    BY <1>1, <1>2, <1>5
  <2>1. n - 1 + d \in 1..Len(stack'[t]) /\ Len(s) - d + 1 \in 1..Len(s)
    <3> HIDE DEF n
    <3> QED
      BY <2>0
  <2>2. calls'[t][n - 1 + d] = stack'[t][Len(stack'[t]) - (n - 1 + d) + 1]
    BY <2>1, CallAtNext
  <2>3. Len(stack'[t]) - (n - 1 + d) + 1 = Len(s) - d + 1
    <3> HIDE DEF n
    <3> QED
      BY <2>0
  <2>4. (s \o Tail(stack[t]))[Len(s) - d + 1] = s[Len(s) - d + 1]
    BY <1>2, <2>1
  <2> QED
    BY <1>3, <2>2, <2>3, <2>4
<1>9. calls[t][n] = Top(t)
  <2>1. n \in 1..n /\ n - n + 1 = 1
    BY <1>1
  <2>2. calls[t][n] = stack[t][n - n + 1]
    BY <2>1, CallAt
  <2> QED
    BY <1>1, <2>1, <2>2 DEF Top
<1> QED
  BY <1>1, <1>4, <1>5, <1>6, <1>7, <1>8, <1>9

\* The call n on top returns.
LEMMA Returns ==
  ASSUME StackType, NEW t \in Threads, stack[t] # <<>>, Return(t)
  PROVE  /\ StackType'
         /\ \E n \in DOMAIN calls[t] :
               /\ calls[t][n] = Top(t)
               /\ DOMAIN calls'[t] = (DOMAIN calls[t]) \ {n}
               /\ \A u \in Threads : u # t => DOMAIN calls'[u] = DOMAIN calls[u]
               /\ \A u \in Threads : \A d \in DOMAIN calls'[u] : calls'[u][d] = calls[u][d]
<1> DEFINE n == Len(stack[t])
<1>1. stack' = [stack EXCEPT ![t] = <<>> \o Tail(@)]
  BY DEF Return, StackType
<1>2. <<>> \in Seq(Frame) /\ Len(<<>>) = 0
  OBVIOUS
<1>3. /\ StackType'
      /\ n \in Nat \ {0}
      /\ Len(stack'[t]) = n - 1
      /\ \A u \in Threads : u # t => calls'[u] = calls[u]
      /\ \A d \in 1..(n - 1) : calls'[t][d] = calls[t][d]
      /\ calls[t][n] = Top(t)
  <2>1. /\ StackType'
        /\ n \in Nat \ {0}
        /\ Len(stack'[t]) = Len(<<>>) + n - 1
        /\ \A u \in Threads : u # t => calls'[u] = calls[u]
        /\ \A d \in 1..(n - 1) : calls'[t][d] = calls[t][d]
        /\ calls[t][n] = Top(t)
    BY <1>1, <1>2, Below, Zenon
  <2> QED
    BY <1>2, <2>1
<1>4. DOMAIN calls[t] = 1..n /\ DOMAIN calls'[t] = 1..(n - 1)
  BY <1>3, CallsDef, CallsDefNext
<1>5. n \in DOMAIN calls[t] /\ DOMAIN calls'[t] = (DOMAIN calls[t]) \ {n}
  <2>1. n \in 1..n /\ 1..(n - 1) = (1..n) \ {n}
    <3> HIDE DEF n
    <3> QED
      BY <1>3
  <2> QED
    BY <1>4, <2>1
<1>6. \A d \in DOMAIN calls'[t] : calls'[t][d] = calls[t][d]
  BY <1>3, <1>4, Zenon
<1>7. \A u \in Threads : u # t => calls'[u] = calls[u]
  BY <1>3, Zenon
<1>8. StackType' /\ calls[t][n] = Top(t)
  BY <1>3, Zenon
<1> HIDE DEF n
<1>9. \A u \in Threads : u # t => DOMAIN calls'[u] = DOMAIN calls[u]
  BY <1>7, Zenon
<1>10. \A u \in Threads : \A d \in DOMAIN calls'[u] : calls'[u][d] = calls[u][d]
  BY <1>6, <1>7, Zenon
<1> QED
  BY <1>5, <1>8, <1>9, <1>10, Zenon

\* The call n on top moves on, to f.
LEMMA Moves ==
  ASSUME StackType, NEW t \in Threads, stack[t] # <<>>, NEW f \in Frame,
         stack' = [stack EXCEPT ![t] = <<f>> \o Tail(@)]
  PROVE  /\ StackType'
         /\ \E n \in DOMAIN calls[t] :
               /\ calls[t][n] = Top(t)
               /\ \A u \in Threads : DOMAIN calls'[u] = DOMAIN calls[u]
               /\ calls'[t][n] = f
               /\ \A u \in Threads : \A d \in DOMAIN calls[u] :
                     u # t \/ d # n => calls'[u][d] = calls[u][d]
<1> DEFINE n == Len(stack[t])
<1>2. <<f>> \in Seq(Frame) /\ Len(<<f>>) = 1 /\ <<f>>[1] = f
  OBVIOUS
<1>3. /\ StackType'
      /\ n \in Nat \ {0}
      /\ Len(stack'[t]) = n
      /\ \A u \in Threads : u # t => calls'[u] = calls[u]
      /\ \A d \in 1..(n - 1) : calls'[t][d] = calls[t][d]
      /\ \A d \in 1..1 : calls'[t][n - 1 + d] = <<f>>[1 - d + 1]
      /\ calls[t][n] = Top(t)
  <2>1. /\ StackType'
        /\ n \in Nat \ {0}
        /\ Len(stack'[t]) = Len(<<f>>) + n - 1
        /\ \A u \in Threads : u # t => calls'[u] = calls[u]
        /\ \A d \in 1..(n - 1) : calls'[t][d] = calls[t][d]
        /\ \A d \in 1..Len(<<f>>) : calls'[t][n - 1 + d] = <<f>>[Len(<<f>>) - d + 1]
        /\ calls[t][n] = Top(t)
    BY <1>2, Below, Zenon
  <2> HIDE DEF n
  <2>2. PICK k : k = Len(<<f>>) /\ k = 1
    BY <1>2
  <2>3. Len(stack'[t]) = n
    <3>1. n \in Nat /\ Len(stack'[t]) = k + n - 1
      BY <2>1, <2>2, Zenon
    <3> QED
      BY <2>2, <3>1
  <2>4. \A d \in 1..k : calls'[t][n - 1 + d] = <<f>>[k - d + 1]
    BY <2>1, <2>2, Zenon
  <2> QED
    BY <2>1, <2>2, <2>3, <2>4, Zenon
<1>4. calls'[t][n] = f
  BY <1>2, <1>3
<1>5. DOMAIN calls[t] = 1..n /\ DOMAIN calls'[t] = 1..n
  BY <1>3, CallsDef, CallsDefNext
<1>6. n \in DOMAIN calls[t] /\ \A d \in DOMAIN calls[t] : d # n => calls'[t][d] = calls[t][d]
  <2>1. n \in 1..n /\ \A d \in 1..n : d # n => d \in 1..(n - 1)
    <3> HIDE DEF n
    <3> QED
      BY <1>3
  <2>2. \A d \in 1..(n - 1) : calls'[t][d] = calls[t][d]
    BY <1>3, Zenon
  <2>3. DOMAIN calls[t] = 1..n
    BY <1>5, Zenon
  <2> HIDE DEF n
  <2> QED
    BY <2>1, <2>2, <2>3
<1>7. \A u \in Threads : u # t => calls'[u] = calls[u]
  BY <1>3, Zenon
<1>8. StackType' /\ calls[t][n] = Top(t)
  BY <1>3, Zenon
<1> HIDE DEF n
<1>9. \A u \in Threads : DOMAIN calls'[u] = DOMAIN calls[u]
  BY <1>5, <1>7, Zenon
<1>10. \A u \in Threads : \A d \in DOMAIN calls[u] : u # t \/ d # n => calls'[u][d] = calls[u][d]
  BY <1>6, <1>7, Zenon
<1> QED
  BY <1>4, <1>6, <1>8, <1>9, <1>10, Zenon

\* Only call n of t changes.
OnlyCall(t, n) == \A u \in Threads : \A d \in DOMAIN calls[u] :
                     u # t \/ d # n => calls'[u][d] = calls[u][d]

\* The index of the next call of t.
NewCall(t) == Len(stack[t]) + 1

\* The call n on top, now f, makes the call g.
LEMMA Nests ==
  ASSUME StackType, NEW t \in Threads, stack[t] # <<>>, NEW f \in Frame, NEW g \in Frame,
         stack' = [stack EXCEPT ![t] = <<g, f>> \o Tail(@)]
  PROVE  /\ StackType'
         /\ \E n \in DOMAIN calls[t] :
               /\ calls[t][n] = Top(t)
               /\ NewCall(t) \notin DOMAIN calls[t]
               /\ \A d : d \in DOMAIN calls'[t] <=> d \in DOMAIN calls[t] \/ d = NewCall(t)
               /\ \A u \in Threads : u # t => DOMAIN calls'[u] = DOMAIN calls[u]
               /\ calls'[t][n] = f
               /\ calls'[t][NewCall(t)] = g
               /\ OnlyCall(t, n)
<1> DEFINE n == Len(stack[t])
<1>2. /\ <<g, f>> \in Seq(Frame)
      /\ Len(<<g, f>>) = 2
      /\ <<g, f>>[1] = g
      /\ <<g, f>>[2] = f
  OBVIOUS
<1>3. /\ StackType'
      /\ n \in Nat \ {0}
      /\ Len(stack'[t]) = n + 1
      /\ \A u \in Threads : u # t => calls'[u] = calls[u]
      /\ \A d \in 1..(n - 1) : calls'[t][d] = calls[t][d]
      /\ \A d \in 1..2 : calls'[t][n - 1 + d] = <<g, f>>[2 - d + 1]
      /\ calls[t][n] = Top(t)
  <2>1. /\ StackType'
        /\ n \in Nat \ {0}
        /\ Len(stack'[t]) = Len(<<g, f>>) + n - 1
        /\ \A u \in Threads : u # t => calls'[u] = calls[u]
        /\ \A d \in 1..(n - 1) : calls'[t][d] = calls[t][d]
        /\ \A d \in 1..Len(<<g, f>>) : calls'[t][n - 1 + d] = <<g, f>>[Len(<<g, f>>) - d + 1]
        /\ calls[t][n] = Top(t)
    BY <1>2, Below, Zenon
  <2> HIDE DEF n
  <2>2. PICK k : k = Len(<<g, f>>) /\ k = 2
    BY <1>2
  <2>3. Len(stack'[t]) = n + 1
    <3>1. n \in Nat /\ Len(stack'[t]) = k + n - 1
      BY <2>1, <2>2, Zenon
    <3> QED
      BY <2>2, <3>1
  <2>4. \A d \in 1..k : calls'[t][n - 1 + d] = <<g, f>>[k - d + 1]
    BY <2>1, <2>2, Zenon
  <2> QED
    BY <2>1, <2>2, <2>3, <2>4, Zenon
<1>4. calls'[t][n] = f /\ calls'[t][n + 1] = g
  <2>1. calls'[t][n - 1 + 1] = <<g, f>>[2 - 1 + 1] /\ calls'[t][n - 1 + 2] = <<g, f>>[2 - 2 + 1]
    BY <1>3
  <2> QED
    BY <1>2, <1>3, <2>1
<1>5. DOMAIN calls[t] = 1..n /\ DOMAIN calls'[t] = 1..(n + 1)
  BY <1>3, CallsDef, CallsDefNext
<1>6. /\ n \in DOMAIN calls[t]
      /\ NewCall(t) \notin DOMAIN calls[t]
      /\ calls'[t][NewCall(t)] = g
      /\ \A d : d \in DOMAIN calls'[t] <=> d \in DOMAIN calls[t] \/ d = NewCall(t)
      /\ \A d \in DOMAIN calls[t] : d # n => calls'[t][d] = calls[t][d]
  <2>1. \A d \in 1..n : d # n => d \in 1..(n - 1)
    BY <1>3
  <2>2. 1..(n + 1) = (1..n) \cup {n + 1} /\ n \in 1..n /\ n + 1 \notin 1..n
    BY <1>3
  <2> QED
    BY <1>3, <1>4, <1>5, <2>1, <2>2 DEF NewCall
<1> HIDE DEF n
<1> QED
  BY <1>3, <1>4, <1>6 DEF OnlyCall

\* A thread makes the call g, which is m, from where it is.
LEMMA Enters ==
  ASSUME StackType, NEW t \in Threads, NEW g \in Frame, Push(t, g)
  PROVE  /\ StackType'
         /\ \E m :
               /\ m \notin DOMAIN calls[t]
               /\ DOMAIN calls'[t] = DOMAIN calls[t] \cup {m}
               /\ \A u \in Threads : u # t => DOMAIN calls'[u] = DOMAIN calls[u]
               /\ calls'[t][m] = g
               /\ \A u \in Threads : \A d \in DOMAIN calls[u] : calls'[u][d] = calls[u][d]
<1> DEFINE n == Len(stack[t])
<1>1. CASE stack[t] = <<>>
  <2>1. /\ stack' = [stack EXCEPT ![t] = <<g>>]
        /\ stack'[t] = <<g>>
        /\ \A u \in Threads : u # t => stack'[u] = stack[u]
    BY <1>1 DEF Push, StackType
  <2>2. <<g>> \in Seq(Frame) /\ Len(<<g>>) = 1 /\ <<g>>[1] = g /\ Len(<<>>) = 0
    OBVIOUS
  <2>3. StackType'
    BY <2>1, <2>2 DEF StackType
  <2>4. DOMAIN calls[t] = {} /\ DOMAIN calls'[t] = {1}
    <3>1. Len(stack[t]) = 0 /\ Len(stack'[t]) = 1
      BY <1>1, <2>1, <2>2
    <3>2. DOMAIN calls[t] = 1..0 /\ DOMAIN calls'[t] = 1..1
      BY <3>1, CallsDef, CallsDefNext
    <3> QED
      BY <3>2
  <2>5. calls'[t][1] = g
    <3>1. 1 \in 1..Len(stack'[t]) /\ Len(stack'[t]) - 1 + 1 = 1
      <4>1. Len(stack'[t]) = 1
        BY <2>1, <2>2, Zenon
      <4> QED
        BY <4>1
    <3> QED
      BY <2>1, <2>2, <3>1, CallAtNext
  <2>6. \A u \in Threads : u # t => calls'[u] = calls[u]
    BY <2>1, SameCalls
  <2> QED
    BY <2>3, <2>4, <2>5, <2>6
<1>2. CASE stack[t] # <<>>
  <2>1. stack[t] \in Seq(Frame) /\ Top(t) \in Frame
    BY <1>2 DEF StackType, Top
  <2>2. <<g>> \o stack[t] = <<g, Top(t)>> \o Tail(stack[t])
    BY <1>2, <2>1 DEF Top
  <2>3. stack' = [stack EXCEPT ![t] = <<g, Top(t)>> \o Tail(@)]
    BY <2>2 DEF Push
  <2>4. /\ StackType'
        /\ \E k \in DOMAIN calls[t] :
               /\ calls[t][k] = Top(t)
               /\ NewCall(t) \notin DOMAIN calls[t]
               /\ \A d : d \in DOMAIN calls'[t] <=> d \in DOMAIN calls[t] \/ d = NewCall(t)
               /\ \A u \in Threads : u # t => DOMAIN calls'[u] = DOMAIN calls[u]
               /\ calls'[t][k] = Top(t)
               /\ calls'[t][NewCall(t)] = g
               /\ OnlyCall(t, k)
    BY <1>2, <2>1, <2>3, Nests
  <2> QED
    BY <2>4 DEF OnlyCall
<1> QED
  BY <1>1, <1>2

-----------------------------------------------------------------------------
(* What most steps do: no call gets a child, and no call counts or pays *)

Shapes == \A t \in Threads : \A d \in DOMAIN calls[t] : Shape(calls[t][d])

\* What a call has after the step it had before.
Shrinks ==
    \A u \in Threads : \A d \in DOMAIN calls'[u] : \A c \in Children :
        /\ Bears(calls'[u][d], c) => d \in DOMAIN calls[u] /\ Bears(calls[u][d], c)
        /\ Past(calls'[u][d], c) => d \in DOMAIN calls[u] /\ Past(calls[u][d], c)

\* The calls that a count or a permit is waiting for are those before the step.
Quiet(f) == f.op # "handle" \/ f.at \in {"report", "tail"}
Quietly ==
    /\ \A u \in Threads : \A d \in DOMAIN calls'[u] :
          ~Quiet(calls'[u][d]) => d \in DOMAIN calls[u] /\ calls'[u][d] = calls[u][d]
    /\ \A u \in Threads : \A d \in DOMAIN calls[u] :
          ~Quiet(calls[u][d]) => d \in DOMAIN calls'[u] /\ calls'[u][d] = calls[u][d]

\* A call that returns.
LEMMA ReturnsQuietly ==
  ASSUME StackType, Shapes, NEW t \in Threads, stack[t] # <<>>, Return(t)
  PROVE  StackType' /\ Shapes' /\ Shrinks /\ (Quiet(Top(t)) => Quietly)
<1>1. StackType'
  BY Returns
<1>2. PICK n \in DOMAIN calls[t] :
               /\ calls[t][n] = Top(t)
               /\ DOMAIN calls'[t] = (DOMAIN calls[t]) \ {n}
               /\ \A u \in Threads : u # t => DOMAIN calls'[u] = DOMAIN calls[u]
               /\ \A u \in Threads : \A d \in DOMAIN calls'[u] : calls'[u][d] = calls[u][d]
  BY Returns
<1>3. \A u \in Threads : \A d \in DOMAIN calls'[u] : d \in DOMAIN calls[u]
  BY <1>2
<1>4. Shapes' /\ Shrinks
  BY <1>2, <1>3 DEF Shapes, Shrinks
<1>5. Quiet(Top(t)) => Quietly
  BY <1>2, <1>3 DEF Quietly
<1> QED
  BY <1>1, <1>4, <1>5

\* A call that moves on to f and gets no child.
LEMMA MovesQuietly ==
  ASSUME StackType, Shapes, NEW t \in Threads, stack[t] # <<>>, NEW f \in Frame, Shape(f),
         stack' = [stack EXCEPT ![t] = <<f>> \o Tail(@)],
         \A c \in Children : /\ Bears(f, c) => Bears(Top(t), c)
                             /\ Past(f, c) => Past(Top(t), c)
  PROVE  StackType' /\ Shapes' /\ Shrinks /\ (Quiet(Top(t)) /\ Quiet(f) => Quietly)
<1>1. StackType'
  BY Moves
<1>2. PICK n \in DOMAIN calls[t] :
               /\ calls[t][n] = Top(t)
               /\ \A u \in Threads : DOMAIN calls'[u] = DOMAIN calls[u]
               /\ calls'[t][n] = f
               /\ \A u \in Threads : \A d \in DOMAIN calls[u] :
                     u # t \/ d # n => calls'[u][d] = calls[u][d]
  BY Moves
<1>3. Shapes'
  BY <1>2 DEF Shapes
<1>4. Shrinks
  BY <1>2 DEF Shrinks
<1>5. Quiet(Top(t)) /\ Quiet(f) => Quietly
  BY <1>2 DEF Quietly
<1> QED
  BY <1>1, <1>3, <1>4, <1>5

\* Then every child is where it was, or gone.
LEMMA TokensShrink ==
  ASSUME PType, Tokens, Shrinks, tasks' = tasks, reported' = reported, plan' = plan,
         opc' \in {"new", "dispatch"} => opc \in {"new", "dispatch"} /\ callbacks' = callbacks
  PROVE  Tokens'
<1>0. \A u \in Threads : \A d \in DOMAIN calls'[u] : \A c \in Children :
         Holds(calls'[u][d], c) => d \in DOMAIN calls[u] /\ Holds(calls[u][d], c)
  BY DEF Shrinks, Holds
<1>1. Unique'
  BY <1>0 DEF Tokens, Unique
<1>2. \A i \in DOMAIN tasks : tasks[i] \in Children
  BY DEF PType
<1>3. (\A i \in DOMAIN tasks :
          /\ reported[tasks[i]] = 0
          /\ \A t \in Threads : \A d \in DOMAIN calls[t] : ~Holds(calls[t][d], tasks[i]))'
  BY <1>0, <1>2 DEF Tokens
<1>4. (\A t \in Threads : \A d \in DOMAIN calls[t] : \A c \in Children :
          /\ Bears(calls[t][d], c) => reported[c] = 0
          /\ Past(calls[t][d], c) => reported[c] = 1)'
  BY DEF Tokens, Shrinks
<1>5. ASSUME NEW c \in Children, Touched(c)'
      PROVE  c \in plan.children /\ (opc' \in {"new", "dispatch"} => c \in callbacks')
  <2>1. Touched(c)
    BY <1>0, <1>5 DEF Touched
  <2> QED
    BY <2>1 DEF Tokens
<1> QED
  BY <1>1, <1>3, <1>4, <1>5 DEF Tokens

\* And the counters count what they counted.
LEMMA QuietlyKeeps ==
  ASSUME PType, Counts, Told, Quietly, reported' = reported, plan' = plan,
         allCalls' = allCalls, m_finish_num' = m_finish_num, m_semp' = m_semp,
         opc' \in {"clear", "deleted"} <=> opc \in {"clear", "deleted"}
  PROVE  Counts' /\ Told'
<1>1. \A f, c : /\ Past(f, c) /\ f.at = "count" => ~Quiet(f)
                /\ Past(f, c) /\ f.at # "tail" => ~Quiet(f)
  BY DEF Past, Quiet
<1>2. \A f : Tells(f) => ~Quiet(f)
  BY DEF Tells, Quiet
<1>3. Uncounted' = Uncounted /\ Unpaid' = Unpaid
  BY <1>1 DEF Uncounted, Unpaid, Quietly
<1>4. Counted' = Counted /\ Paid' = Paid
  BY <1>3 DEF Counted, Paid
<1>5. Counts'
  BY <1>4 DEF Counts
<1>6. \A u \in Threads : \A d \in DOMAIN calls'[u] :
         Tells(calls'[u][d]) => d \in DOMAIN calls[u] /\ Tells(calls[u][d])
  BY <1>2 DEF Quietly
<1>7. \A u \in Threads : \A d \in DOMAIN calls[u] :
         Tells(calls[u][d]) => d \in DOMAIN calls'[u] /\ Tells(calls'[u][d])
  BY <1>2 DEF Quietly
<1>8. Told'
  BY <1>6, <1>7 DEF Told, N
<1> QED
  BY <1>5, <1>8

-----------------------------------------------------------------------------
(* The calls there are *)

\* The calls as they start.
LEMMA CallForms ==
  /\ \A c \in Children : /\ Process(c) \in Frame /\ Shape(Process(c)) /\ Quiet(Process(c))
                         /\ \A e : (Bears(Process(c), e) <=> e = c) /\ ~Past(Process(c), e)
  /\ \A c \in Children : /\ Handle(c) \in Frame /\ Shape(Handle(c)) /\ Quiet(Handle(c))
                         /\ \A e : (Bears(Handle(c), e) <=> e = c) /\ ~Past(Handle(c), e)
  /\ StopCall \in Frame /\ Shape(StopCall) /\ Quiet(StopCall)
  /\ \A e : ~Bears(StopCall, e) /\ ~Past(StopCall, e)
  BY DEF Process, Handle, StopCall, Frame, Shape, Quiet, Bears, Past, NoChild

\* Goto changes where a call is, and nothing else of it.
LEMMA AtForm ==
  ASSUME NEW f \in Frame, NEW g, NEW x, g = [f EXCEPT !.at = x],
         x \in {"check", "run", "retry", "count", "report", "all", "give", "tail", "enter"}
  PROVE  g \in Frame /\ g.op = f.op /\ g.at = x /\ g.c = f.c /\ g.ctl = f.ctl
  BY DEF Frame

\* The call on top, in a thread whose guard names it.
LEMMA InTop ==
  ASSUME PType, NEW t \in Threads, NEW op, NEW at, In(t, op, at)
  PROVE  /\ StackType /\ Shapes
         /\ stack[t] # <<>> /\ Top(t) \in Frame /\ Shape(Top(t))
         /\ Top(t).op = op /\ Top(t).at = at
         /\ \E n \in DOMAIN calls[t] : calls[t][n] = Top(t)
<1>1. StackType /\ Shapes /\ stack[t] # <<>>
  BY DEF PType, StackType, Shapes, In
<1>2. Top(t) \in Frame /\ Top(t).op = op /\ Top(t).at = at
  BY <1>1, TopInStack DEF In, Top
<1>3. \E n \in DOMAIN calls[t] : calls[t][n] = Top(t)
  BY <1>1, TopInStack
<1> QED
  BY <1>1, <1>2, <1>3 DEF Shapes

\* A step of the owner alone makes no call.
LEMMA NoCalls ==
  ASSUME PType, stack' = stack
  PROVE  StackType' /\ Shapes' /\ Shrinks /\ Quietly /\ calls' = calls
<1>1. calls' = calls
  BY DEF calls
<1> QED
  BY <1>1 DEF PType, StackType, Shapes, Shrinks, Quietly

-----------------------------------------------------------------------------
(* The invariant is inductive: the owner *)

\* The sets of children the counts are of are finite.
LEMMA SetsOfChildren ==
  ASSUME PType, Tokens
  PROVE  /\ IsFiniteSet(plan.children)
         /\ Counted \subseteq plan.children /\ Paid \subseteq plan.children
         /\ IsFiniteSet(Counted) /\ IsFiniteSet(Paid)
<1>1. IsFiniteSet(Children) /\ plan.children \subseteq Children
  BY JobAssumption DEF PType
<1>2. IsFiniteSet(plan.children)
  BY <1>1, FS_Subset
<1>3. Counted \subseteq plan.children /\ Paid \subseteq plan.children
  BY DEF Tokens, Touched, Counted, Paid
<1> QED
  BY <1>2, <1>3, FS_Subset

\* A job not run yet: no child is touched.
LEMMA InitIInv == Init => IInv
<1> SUFFICES ASSUME Init PROVE IInv
  OBVIOUS
<1>1. \A t \in Threads : stack[t] = <<>>
  BY DEF Init
<1>2. \A t \in Threads : DOMAIN calls[t] = {}
  <2>1. ASSUME NEW t \in Threads PROVE DOMAIN calls[t] = 1..0
    <3>1. Len(stack[t]) = 0
      BY <1>1
    <3> QED
      BY <3>1, CallsDef
  <2> QED
    BY <2>1
<1>3. stack \in [Threads -> Seq(Frame)]
  BY DEF Init
<1>4. PType
  BY <1>2, <1>3 DEF Init, PType
<1>5. Tokens
  BY <1>2 DEF Init, Tokens, Unique, Touched
<1>6. Counted = {} /\ Paid = {}
  BY DEF Init, Counted, Paid
<1>7. Counts
  BY <1>6, FS_EmptySet DEF Init, Counts
<1>8. plan.children = {} \/ N # 0
  BY <1>4, <1>5, SetsOfChildren, FS_EmptySet DEF N
<1>9. Told
  BY <1>2, <1>8 DEF Init, Told
<1> QED
  BY <1>4, <1>5, <1>7, <1>9 DEF IInv

\* run() takes the lock.
LEMMA DispatchEnterKeeps == ASSUME IInv, DispatchEnter PROVE IInv'
<1> USE DEF IInv
<1>1. Shapes' /\ Shrinks /\ Quietly
  BY NoCalls DEF DispatchEnter
<1>2. PType'
  BY <1>1 DEF DispatchEnter, PType, history, Shapes
<1>3. Tokens'
  BY <1>1, TokensShrink DEF DispatchEnter, history
<1>4. Counts' /\ Told'
  BY <1>1, QuietlyKeeps DEF DispatchEnter, history
<1> QED
  BY <1>2, <1>3, <1>4

\* run() returns, every child dispatched.
LEMMA DispatchReturnKeeps == ASSUME IInv, DispatchReturn PROVE IInv'
<1> USE DEF IInv
<1>1. Shapes' /\ Shrinks /\ Quietly
  BY NoCalls DEF DispatchReturn
<1>2. PType'
  BY <1>1 DEF DispatchReturn, PType, history, Shapes
<1>3. Tokens'
  BY <1>1, TokensShrink DEF DispatchReturn, history
<1>4. Counts' /\ Told'
  BY <1>1, QuietlyKeeps DEF DispatchReturn, history
<1> QED
  BY <1>2, <1>3, <1>4

\* The owner starts the delete.
LEMMA OwnerDeleteKeeps == ASSUME IInv, OwnerDelete PROVE IInv'
<1> USE DEF IInv
<1>1. Shapes' /\ Shrinks /\ Quietly
  BY NoCalls DEF OwnerDelete
<1>2. PType'
  BY <1>1 DEF OwnerDelete, PType, history, jobVars, Shapes
<1>3. Tokens'
  BY <1>1, TokensShrink DEF OwnerDelete, history, jobVars
<1>4. Counts' /\ Told'
  BY <1>1, QuietlyKeeps DEF OwnerDelete, history, jobVars
<1> QED
  BY <1>2, <1>3, <1>4

\* What wait_for_all_child_task has collected is a permit for every child.
LEMMA WaitAllKeeps == ASSUME IInv, WaitAll PROVE IInv'
<1> USE DEF IInv
<1>0. Shapes' /\ Shrinks /\ Quietly /\ calls' = calls
  BY NoCalls DEF WaitAll
<1>1. callbacks = plan.children /\ opc = "wait" /\ opc' = "clear"
  BY DEF WaitAll, PType
<1>2. /\ m_semp = Cardinality(Paid)
      /\ m_semp >= Cardinality(plan.children)
      /\ m_semp' = m_semp - Cardinality(plan.children)
  BY <1>1 DEF WaitAll, Counts
<1>3. IsFiniteSet(plan.children) /\ Paid \subseteq plan.children /\ IsFiniteSet(Paid)
  BY SetsOfChildren
<1>4. Cardinality(Paid) \in Nat /\ Cardinality(plan.children) \in Nat
  BY <1>3, FS_CardinalityType
<1>5. Paid = plan.children
  BY <1>2, <1>3, <1>4, FS_Subset
<1>6. m_semp' \in Nat
  BY <1>2, <1>4
<1>7. PType'
  BY <1>0, <1>1, <1>6 DEF WaitAll, PType, history, Shapes
<1>8. Tokens'
  BY <1>0, TokensShrink DEF WaitAll, history
<1>9. UNCHANGED <<reported, plan, allCalls, m_finish_num>>
  BY DEF WaitAll, history
<1>10. Counted' = Counted /\ Paid' = Paid
  BY <1>0, <1>9 DEF Counted, Paid, Uncounted, Unpaid
<1>11. Counts'
  BY <1>1, <1>5, <1>9, <1>10 DEF Counts
<1>12. Told'
  BY <1>0, <1>9 DEF Told, N
<1> QED
  BY <1>7, <1>8, <1>11, <1>12

\* The rest of the destructor: no call, no count.
LEMMA ClearKeeps == ASSUME IInv, Clear PROVE IInv'
<1> USE DEF IInv
<1>1. Shapes' /\ Shrinks /\ Quietly
  BY NoCalls DEF Clear
<1>2. PType'
  BY <1>1 DEF Clear, PType, history, Shapes
<1>3. Tokens'
  BY <1>1, TokensShrink DEF Clear, history
<1>4. Counts' /\ Told'
  BY <1>1, QuietlyKeeps DEF Clear, history
<1> QED
  BY <1>2, <1>3, <1>4

\* A child is queued for the first time.
LEMMA DispatchOneKeeps == ASSUME IInv, NEW c \in Children, DispatchOne(c) PROVE IInv'
<1> USE DEF IInv
<1>1. Shapes' /\ Quietly /\ calls' = calls
  BY NoCalls DEF DispatchOne
<1>2. /\ opc = "dispatch" /\ opc' = opc
      /\ c \in plan.children /\ c \notin callbacks
      /\ callbacks' = callbacks \cup {c}
      /\ UNCHANGED <<reported, plan, stack>>
  BY DEF DispatchOne, history
<1>3. /\ tasks' \in Seq(Children)
      /\ DOMAIN tasks' = DOMAIN tasks \cup {Len(tasks) + 1}
      /\ Len(tasks) + 1 \notin DOMAIN tasks
      /\ tasks'[Len(tasks) + 1] = c
      /\ \A i \in DOMAIN tasks : tasks'[i] = tasks[i]
  BY DEF DispatchOne, PType
<1>4. PType'
  BY <1>1, <1>2, <1>3 DEF DispatchOne, PType, history, Shapes
<1>5. ~Touched(c)
  BY <1>2 DEF Tokens
<1>6. Tokens'
  <2> DEFINE k == Len(tasks) + 1
  <2> HIDE DEF k
  <2>1. /\ DOMAIN tasks' = DOMAIN tasks \cup {k} /\ k \notin DOMAIN tasks /\ tasks'[k] = c
        /\ \A i \in DOMAIN tasks : tasks'[i] = tasks[i]
    BY <1>3 DEF k
  <2>2. Unique'
    BY <1>1 DEF Tokens, Unique
  <2>3. (\A i, j \in DOMAIN tasks : tasks[i] = tasks[j] => i = j)'
    BY <1>5, <2>1 DEF Tokens, Touched
  <2>4. (\A i \in DOMAIN tasks :
          /\ reported[tasks[i]] = 0
          /\ \A t \in Threads : \A d \in DOMAIN calls[t] : ~Holds(calls[t][d], tasks[i]))'
    BY <1>1, <1>2, <1>5, <2>1 DEF Tokens, Touched
  <2>5. ASSUME NEW e \in Children, Touched(e)' PROVE e = c \/ Touched(e)
    BY <1>1, <1>2, <2>1, <2>5 DEF Touched
  <2> QED
    BY <1>1, <1>2, <2>2, <2>3, <2>4, <2>5 DEF Tokens
<1>7. Counts' /\ Told'
  BY <1>1, QuietlyKeeps DEF DispatchOne, history
<1> QED
  BY <1>4, <1>6, <1>7

\* The owner's call of cancel has no child yet.
LEMMA OwnerCancelKeeps == ASSUME IInv, OwnerCancel PROVE IInv'
<1> USE DEF IInv
<1>0. Owner \in Threads /\ StackType
  BY DEF Threads, PType, StackType
<1>1. /\ StackType'
      /\ \E m :
               /\ m \notin DOMAIN calls[Owner]
               /\ DOMAIN calls'[Owner] = DOMAIN calls[Owner] \cup {m}
               /\ \A u \in Threads : u # Owner => DOMAIN calls'[u] = DOMAIN calls[u]
               /\ calls'[Owner][m] = StopCall
               /\ \A u \in Threads : \A d \in DOMAIN calls[u] : calls'[u][d] = calls[u][d]
  BY <1>0, Enters, CallForms DEF OwnerCancel
<1>2. PICK m :
               /\ m \notin DOMAIN calls[Owner]
               /\ DOMAIN calls'[Owner] = DOMAIN calls[Owner] \cup {m}
               /\ \A u \in Threads : u # Owner => DOMAIN calls'[u] = DOMAIN calls[u]
               /\ calls'[Owner][m] = StopCall
               /\ \A u \in Threads : \A d \in DOMAIN calls[u] : calls'[u][d] = calls[u][d]
  BY <1>1
<1>3. \A u \in Threads : \A d \in DOMAIN calls'[u] :
         \/ d \in DOMAIN calls[u] /\ calls'[u][d] = calls[u][d]
         \/ calls'[u][d] = StopCall
  BY <1>2
<1>4. Shapes'
  BY <1>3, CallForms DEF Shapes, PType
<1>5. Shrinks
  BY <1>3, CallForms DEF Shrinks
<1>6. Quietly
  BY <1>2, <1>3, CallForms DEF Quietly
<1>7. PType'
  BY <1>1, <1>4 DEF OwnerCancel, PType, StackType, Shapes, jobVars, history
<1>8. Tokens'
  BY <1>5, TokensShrink DEF OwnerCancel, jobVars, history
<1>9. Counts' /\ Told'
  BY <1>6, QuietlyKeeps DEF OwnerCancel, jobVars, history
<1> QED
  BY <1>7, <1>8, <1>9

-----------------------------------------------------------------------------
(* The invariant is inductive: process() *)

\* A worker takes the head of the queue; the child moves from there to its call.
LEMMA TakeKeeps == ASSUME IInv, NEW w \in Workers, Take(w) PROVE IInv'
<1> USE DEF IInv
<1> DEFINE c == Head(tasks)
<1>0. w \in Threads /\ StackType /\ Push(w, Process(c))
  BY DEF Threads, PType, StackType, Take
<1>1. /\ c \in Children
      /\ tasks' \in Seq(Children)
      /\ \E i \in DOMAIN tasks : tasks[i] = c
      /\ \A i \in DOMAIN tasks' : tasks'[i] # c
      /\ \A i \in DOMAIN tasks' : \E j \in DOMAIN tasks : tasks'[i] = tasks[j]
      /\ \A i, j \in DOMAIN tasks' : tasks'[i] = tasks'[j] => i = j
  <2>1. /\ tasks \in Seq(Children) /\ Len(tasks) \in Nat \ {0}
        /\ tasks' = Tail(tasks) /\ c = tasks[1] /\ 1 \in DOMAIN tasks
        /\ DOMAIN tasks = 1..Len(tasks) /\ DOMAIN tasks' = 1..(Len(tasks) - 1)
        /\ \A i \in 1..(Len(tasks) - 1) : tasks'[i] = tasks[i + 1]
        /\ tasks' \in Seq(Children) /\ c \in Children
    BY DEF Take, PType
  <2>2. \A i, j \in DOMAIN tasks : tasks[i] = tasks[j] => i = j
    BY DEF Tokens
  <2>3. \A i \in 1..(Len(tasks) - 1) : i + 1 \in 1..Len(tasks) /\ i + 1 # 1
    BY <2>1
  <2> QED
    BY <2>1, <2>2, <2>3
<1> HIDE DEF c
<1>2. /\ StackType'
      /\ \E m :
               /\ m \notin DOMAIN calls[w]
               /\ DOMAIN calls'[w] = DOMAIN calls[w] \cup {m}
               /\ \A u \in Threads : u # w => DOMAIN calls'[u] = DOMAIN calls[u]
               /\ calls'[w][m] = Process(c)
               /\ \A u \in Threads : \A d \in DOMAIN calls[u] : calls'[u][d] = calls[u][d]
  BY <1>0, <1>1, Enters, CallForms
<1>3. PICK m :
               /\ m \notin DOMAIN calls[w]
               /\ DOMAIN calls'[w] = DOMAIN calls[w] \cup {m}
               /\ \A u \in Threads : u # w => DOMAIN calls'[u] = DOMAIN calls[u]
               /\ calls'[w][m] = Process(c)
               /\ \A u \in Threads : \A d \in DOMAIN calls[u] : calls'[u][d] = calls[u][d]
  BY <1>2
<1>4. \A u \in Threads : \A d \in DOMAIN calls'[u] :
         \/ d \in DOMAIN calls[u] /\ calls'[u][d] = calls[u][d]
         \/ u = w /\ d = m /\ calls'[u][d] = Process(c)
  BY <1>3
<1>5. Shapes'
  <2>1. Shapes /\ Shape(Process(c))
    BY <1>1, CallForms DEF Shapes, PType
  <2> QED
    BY <1>4, <2>1 DEF Shapes
<1>6. Quietly
  BY <1>1, <1>3, <1>4, CallForms DEF Quietly
<1>7. UNCHANGED <<reported, plan, opc, callbacks, m_finish_num, m_semp, allCalls>>
  BY DEF Take, jobVars, history
<1>8. PType'
  BY <1>1, <1>2, <1>5, <1>7 DEF PType, StackType, Shapes
<1>9. Tokens'
  <2>1. /\ reported[c] = 0
        /\ \A t \in Threads : \A d \in DOMAIN calls[t] : ~Holds(calls[t][d], c)
        /\ Touched(c)
    BY <1>1 DEF Tokens, Touched
  <2>2. \A u \in Threads : \A d \in DOMAIN calls'[u] : \A e \in Children :
           Holds(calls'[u][d], e) =>
              \/ d \in DOMAIN calls[u] /\ calls'[u][d] = calls[u][d] /\ e # c
              \/ u = w /\ d = m /\ e = c
    BY <1>1, <1>4, <2>1, CallForms DEF Holds
  <2>3. Unique'
    BY <2>2 DEF Tokens, Unique
  <2>4. \A i \in DOMAIN tasks' : tasks'[i] \in Children
    BY <1>1
  <2>5. (\A i \in DOMAIN tasks :
          /\ reported[tasks[i]] = 0
          /\ \A t \in Threads : \A d \in DOMAIN calls[t] : ~Holds(calls[t][d], tasks[i]))'
    BY <1>1, <1>7, <2>2, <2>4 DEF Tokens
  <2>6. (\A t \in Threads : \A d \in DOMAIN calls[t] : \A e \in Children :
          /\ Bears(calls[t][d], e) => reported[e] = 0
          /\ Past(calls[t][d], e) => reported[e] = 1)'
    BY <1>1, <1>4, <1>7, <2>1, CallForms DEF Tokens
  <2>7. ASSUME NEW e \in Children, Touched(e)' PROVE Touched(e)
    BY <1>1, <1>7, <2>1, <2>2, <2>7 DEF Touched
  <2> QED
    BY <1>1, <1>7, <2>3, <2>5, <2>6, <2>7 DEF Tokens
<1>10. Counts' /\ Told'
  BY <1>6, <1>7, QuietlyKeeps
<1> QED
  BY <1>8, <1>9, <1>10

\* A step that moves one call to f, whose children are among those it had.
LEMMA MoveKeeps ==
  ASSUME IInv, NEW t \in Threads, stack[t] # <<>>, NEW f \in Frame, Shape(f),
         stack' = [stack EXCEPT ![t] = <<f>> \o Tail(@)],
         \A c \in Children : /\ Bears(f, c) => Bears(Top(t), c)
                             /\ Past(f, c) => Past(Top(t), c),
         Quiet(f), Quiet(Top(t)),
         UNCHANGED <<tasks, reported, plan, opc, callbacks, m_finish_num, m_semp, allCalls>>
  PROVE  IInv'
<1> USE DEF IInv
<1>1. StackType /\ Shapes
  BY DEF PType, StackType, Shapes
<1>2. StackType' /\ Shapes' /\ Shrinks /\ Quietly
  BY <1>1, MovesQuietly
<1>3. PType'
  BY <1>2 DEF PType, StackType, Shapes
<1>4. Tokens'
  BY <1>2, TokensShrink
<1>5. Counts' /\ Told'
  BY <1>2, QuietlyKeeps
<1> QED
  BY <1>3, <1>4, <1>5

\* A step that ends one call that is not counting or paying.
LEMMA ReturnKeeps ==
  ASSUME IInv, NEW t \in Threads, stack[t] # <<>>, Return(t), Quiet(Top(t)),
         UNCHANGED <<tasks, reported, plan, opc, callbacks, m_finish_num, m_semp, allCalls>>
  PROVE  IInv'
<1> USE DEF IInv
<1>1. StackType /\ Shapes
  BY DEF PType, StackType, Shapes
<1>2. StackType' /\ Shapes' /\ Shrinks /\ Quietly
  BY <1>1, ReturnsQuietly
<1>3. PType'
  BY <1>2 DEF PType, StackType, Shapes
<1>4. Tokens'
  BY <1>2, TokensShrink
<1>5. Counts' /\ Told'
  BY <1>2, QuietlyKeeps
<1> QED
  BY <1>3, <1>4, <1>5

\* process() gives way to handle_child_task_finish for the same child.
LEMMA HandOver ==
  ASSUME IInv, NEW w \in Threads, NEW at \in {"check", "run"}, In(w, "process", at),
         TailCall(w, Handle(Top(w).c)),
         UNCHANGED <<tasks, reported, plan, opc, callbacks, m_finish_num, m_semp, allCalls>>
  PROVE  IInv'
<1>1. /\ stack[w] # <<>> /\ Top(w) \in Frame /\ Shape(Top(w))
      /\ Top(w).op = "process" /\ Top(w).at = at
  BY InTop DEF IInv
<1>2. Top(w).c \in Children
  BY <1>1 DEF Shape
<1>3. Quiet(Top(w)) /\ Bears(Top(w), Top(w).c)
  BY <1>1 DEF Quiet, Bears
<1> DEFINE f == Handle(Top(w).c)
<1>4. /\ f \in Frame /\ Shape(f) /\ Quiet(f)
      /\ \A c \in Children : (Bears(f, c) => Bears(Top(w), c)) /\ ~Past(f, c)
  BY <1>2, <1>3, CallForms
<1>5. stack' = [stack EXCEPT ![w] = <<f>> \o Tail(@)]
  BY DEF TailCall
<1> HIDE DEF f
<1> QED
  BY <1>1, <1>3, <1>4, <1>5, MoveKeeps

\* process() goes on, or counts its retry.
LEMMA ProcessGoesOn ==
  ASSUME IInv, NEW w \in Threads, NEW at, In(w, "process", at),
         NEW next \in {"run", "retry"}, at # "count", Goto(w, next),
         UNCHANGED <<tasks, reported, plan, opc, callbacks, m_finish_num, m_semp, allCalls>>
  PROVE  IInv'
<1> DEFINE f == [Top(w) EXCEPT !.at = next]
<1>1. /\ stack[w] # <<>> /\ Top(w) \in Frame /\ Shape(Top(w))
      /\ Top(w).op = "process" /\ Top(w).at = at
  BY InTop DEF IInv
<1>2. f \in Frame /\ f.op = "process" /\ f.at = next /\ f.c = Top(w).c /\ f.ctl = Top(w).ctl
  BY <1>1, AtForm
<1>3. stack' = [stack EXCEPT ![w] = <<f>> \o Tail(@)]
  BY DEF Goto
<1> HIDE DEF f
<1>4. Shape(f) /\ Quiet(f) /\ Quiet(Top(w))
  BY <1>1, <1>2 DEF Shape, Quiet
<1>5. \A c \in Children : (Bears(f, c) => Bears(Top(w), c)) /\ ~Past(f, c)
  BY <1>1, <1>2 DEF Bears, Past
<1> QED
  BY <1>1, <1>3, <1>2, <1>4, <1>5, MoveKeeps

\* A worker's check of the job's status: the child runs or is handed over.
LEMMA ProcessCheckKeeps == ASSUME IInv, NEW w \in Workers, ProcessCheck(w) PROVE IInv'
<1>1. w \in Threads /\ In(w, "process", "check")
  BY DEF Threads, ProcessCheck
<1>2. UNCHANGED <<tasks, reported, plan, opc, callbacks, m_finish_num, m_semp, allCalls>>
  BY DEF ProcessCheck, jobVars
<1>3. TailCall(w, Handle(Top(w).c)) \/ Goto(w, "run")
  BY DEF ProcessCheck
<1> QED
  BY <1>1, <1>2, <1>3, HandOver, ProcessGoesOn

\* The child has run: it is handed over or goes to retry.
LEMMA ProcessDoneKeeps == ASSUME IInv, NEW w \in Workers, ProcessDone(w) PROVE IInv'
<1>1. w \in Threads /\ In(w, "process", "run")
  BY DEF Threads, ProcessDone
<1>2. UNCHANGED <<tasks, reported, plan, opc, callbacks, m_finish_num, m_semp, allCalls>>
  BY DEF ProcessDone, jobVars, history
<1>3. TailCall(w, Handle(Top(w).c)) \/ Goto(w, "retry")
  BY DEF ProcessDone
<1> QED
  BY <1>1, <1>2, <1>3, HandOver, ProcessGoesOn

\* The retry is counted and the worker is free.
LEMMA RetryCountKeeps == ASSUME IInv, NEW w \in Workers, RetryCount(w) PROVE IInv'
<1>1. w \in Threads /\ In(w, "process", "count")
  BY DEF Threads, RetryCount
<1>2. UNCHANGED <<tasks, reported, plan, opc, callbacks, m_finish_num, m_semp, allCalls>>
  BY DEF RetryCount, jobVars, history
<1>3. stack[w] # <<>> /\ Quiet(Top(w)) /\ Return(w)
  BY <1>1, InTop DEF IInv, Quiet, RetryCount
<1> QED
  BY <1>1, <1>2, <1>3, ReturnKeeps

\* A retry puts the child back into the queue, and its call no longer has it.
LEMMA RetryKeeps == ASSUME IInv, NEW w \in Workers, Retry(w) PROVE IInv'
<1> USE DEF IInv
<1>0. /\ w \in Threads /\ In(w, "process", "retry")
      /\ UNCHANGED <<reported, plan, opc, callbacks, m_finish_num, m_semp, allCalls>>
  BY DEF Threads, Retry, jobVars, history
<1>1. /\ StackType /\ Shapes
      /\ stack[w] # <<>> /\ Top(w) \in Frame /\ Shape(Top(w))
      /\ Top(w).op = "process" /\ Top(w).at = "retry"
      /\ \E n \in DOMAIN calls[w] : calls[w][n] = Top(w)
  BY <1>0, InTop
<1>2. CASE Return(w) /\ UNCHANGED tasks
  <2>1. Quiet(Top(w))
    BY <1>1 DEF Quiet
  <2> QED
    BY <1>0, <1>1, <1>2, <2>1, ReturnKeeps
<1>3. CASE tasks' = Append(tasks, Top(w).c) /\ Goto(w, "count")
  <2> DEFINE c == Top(w).c
             f == [Top(w) EXCEPT !.at = "count"]
             k == Len(tasks) + 1
  <2>1. c \in Children /\ Bears(Top(w), c)
    BY <1>1 DEF Shape, Bears
  <2>2. f \in Frame /\ f.op = "process" /\ f.at = "count" /\ f.c = c /\ f.ctl = Top(w).ctl
    BY <1>1, AtForm
  <2>3. stack' = [stack EXCEPT ![w] = <<f>> \o Tail(@)]
    BY <1>3 DEF Goto
  <2>4. /\ tasks' \in Seq(Children)
        /\ DOMAIN tasks' = DOMAIN tasks \cup {k}
        /\ k \notin DOMAIN tasks
        /\ tasks'[k] = c
        /\ \A i \in DOMAIN tasks : tasks'[i] = tasks[i] /\ tasks[i] \in Children
    BY <1>3, <2>1 DEF PType
  <2> HIDE DEF c, f, k
  <2>5. Shape(f) /\ Quiet(f) /\ Quiet(Top(w)) /\ \A e : ~Holds(f, e)
    BY <1>1, <2>1, <2>2 DEF Shape, Quiet, Holds, Bears, Past
  <2>6. StackType' /\ Shapes' /\ Quietly
    BY <1>0, <1>1, <2>2, <2>3, <2>5, MovesQuietly DEF Holds
  <2>7. PICK n \in DOMAIN calls[w] :
               /\ calls[w][n] = Top(w)
               /\ \A u \in Threads : DOMAIN calls'[u] = DOMAIN calls[u]
               /\ calls'[w][n] = f
               /\ \A u \in Threads : \A d \in DOMAIN calls[u] :
                     u # w \/ d # n => calls'[u][d] = calls[u][d]
    BY <1>0, <1>1, <2>2, <2>3, Moves
  <2>8. PType'
    BY <1>0, <2>4, <2>6 DEF PType, StackType, Shapes
  <2>9. Holds(calls[w][n], c) /\ reported[c] = 0 /\ Touched(c)
    BY <1>0, <2>1, <2>7 DEF Tokens, Holds, Touched
  <2>10. \A u \in Threads : \A d \in DOMAIN calls'[u] : \A e \in Children :
            Holds(calls'[u][d], e) => /\ u # w \/ d # n
                                      /\ d \in DOMAIN calls[u]
                                      /\ calls'[u][d] = calls[u][d]
    BY <2>5, <2>7
  <2>11. \A u \in Threads : \A d \in DOMAIN calls'[u] : ~Holds(calls'[u][d], c)
    BY <1>0, <2>1, <2>9, <2>10 DEF Tokens, Unique
  <2>12. \A i \in DOMAIN tasks : tasks[i] # c
    BY <1>0, <2>9 DEF Tokens
  <2>13. Tokens'
    <3>1. Unique'
      BY <2>10 DEF Tokens, Unique
    <3>2. (\A i, j \in DOMAIN tasks : tasks[i] = tasks[j] => i = j)'
      BY <2>4, <2>12 DEF Tokens
    <3>3. (\A i \in DOMAIN tasks :
            /\ reported[tasks[i]] = 0
            /\ \A t \in Threads : \A d \in DOMAIN calls[t] : ~Holds(calls[t][d], tasks[i]))'
      BY <1>0, <2>4, <2>9, <2>10, <2>11 DEF Tokens
    <3>4. (\A t \in Threads : \A d \in DOMAIN calls[t] : \A e \in Children :
            /\ Bears(calls[t][d], e) => reported[e] = 0
            /\ Past(calls[t][d], e) => reported[e] = 1)'
      BY <1>0, <2>10 DEF Tokens, Holds
    <3>5. ASSUME NEW e \in Children, Touched(e)' PROVE Touched(e)
      BY <1>0, <2>4, <2>9, <2>10, <3>5 DEF Touched
    <3> QED
      BY <1>0, <3>1, <3>2, <3>3, <3>4, <3>5 DEF Tokens
  <2>14. Counts' /\ Told'
    BY <1>0, <2>6, QuietlyKeeps
  <2> QED
    BY <2>8, <2>13, <2>14
<1> QED
  BY <1>2, <1>3 DEF Retry

-----------------------------------------------------------------------------
(* The invariant is inductive: handle_child_task_finish *)

\* Call n of t, which is handling c, moves on to f without telling the combiner
\* again: every child is where it was.
HandleMoves(t, n, c, f) ==
    /\ t \in Threads /\ n \in DOMAIN calls[t] /\ c \in Children
    /\ calls[t][n] = Top(t) /\ Past(Top(t), c)
    /\ f \in Frame /\ Shape(f) /\ Past(f, c)
    /\ \A u \in Threads : DOMAIN calls'[u] = DOMAIN calls[u]
    /\ calls'[t][n] = f
    /\ \A u \in Threads : \A d \in DOMAIN calls[u] :
          u # t \/ d # n => calls'[u][d] = calls[u][d]

\* handle_child_task_finish goes on with the child it has reported.
LEMMA HandleMovesOn ==
  ASSUME PType, Tokens, NEW t \in Threads, NEW at, In(t, "handle", at), at # "report",
         NEW next \in {"all", "give", "tail"}, NEW f \in Frame,
         f.op = "handle", f.at = next, f.c = Top(t).c, f.ctl = Top(t).ctl,
         stack' = [stack EXCEPT ![t] = <<f>> \o Tail(@)],
         UNCHANGED <<tasks, reported, plan, opc, callbacks>>
  PROVE  /\ StackType' /\ Shapes' /\ Tokens'
         /\ Top(t).at = at /\ Top(t).op = "handle"
         /\ \E n \in DOMAIN calls[t] : HandleMoves(t, n, Top(t).c, f)
<1>1. /\ StackType /\ Shapes
      /\ stack[t] # <<>> /\ Top(t) \in Frame /\ Shape(Top(t))
      /\ Top(t).op = "handle" /\ Top(t).at = at
  BY InTop
<1>2. Shape(f) /\ Top(t).c \in Children /\ Past(f, Top(t).c) /\ Past(Top(t), Top(t).c)
  BY <1>1 DEF Shape, Past
<1>3. \A c \in Children : ~Bears(f, c) /\ (Past(f, c) => Past(Top(t), c))
  BY <1>1 DEF Bears, Past
<1>4. StackType' /\ Shapes' /\ Shrinks
  BY <1>1, <1>2, <1>3, MovesQuietly
<1>5. Tokens'
  BY <1>4, TokensShrink
<1>6. \E n \in DOMAIN calls[t] : HandleMoves(t, n, Top(t).c, f)
  BY <1>1, <1>2, Moves DEF HandleMoves
<1> QED
  BY <1>1, <1>4, <1>5, <1>6

\* Two calls that have reported one child are one.
LEMMA OnePast ==
  ASSUME Tokens, NEW t \in Threads, NEW n \in DOMAIN calls[t], NEW c \in Children,
         Past(calls[t][n], c)
  PROVE  /\ reported[c] = 1
         /\ c \in plan.children
         /\ \A u \in Threads : \A d \in DOMAIN calls[u] :
               Past(calls[u][d], c) => u = t /\ d = n
         /\ \A e \in Children : Past(calls[t][n], e) => e = c
<1>1. reported[c] = 1
  BY DEF Tokens
<1>2. Touched(c)
  BY <1>1 DEF Touched
<1> QED
  BY <1>1, <1>2 DEF Tokens, Unique, Holds, Past

\* ++m_finish_num counts the child, and the last one to be counted tells.
LEMMA CountKeeps == ASSUME IInv, NEW t \in Threads, Count(t) PROVE IInv'
<1> USE DEF IInv
<1> DEFINE all == m_finish_num + 1 = N
           f == [Top(t) EXCEPT !.at = IF all /\ Combiner # "none" THEN "all" ELSE "give",
                               !.all = all]
           c == Top(t).c
<1>0. /\ In(t, "handle", "count")
      /\ m_finish_num' = m_finish_num + 1
      /\ UNCHANGED <<tasks, reported, plan, opc, callbacks, m_semp, allCalls>>
      /\ stack' = [stack EXCEPT ![t] = <<f>> \o Tail(@)]
  BY DEF Count, history
<1>1. Top(t) \in Frame
  BY <1>0, InTop
<1>2. /\ f \in Frame /\ f.c = Top(t).c /\ f.ctl = Top(t).ctl /\ f.op = Top(t).op
      /\ f.at = IF all /\ Combiner # "none" THEN "all" ELSE "give"
  BY <1>1 DEF Frame
<1>3. Top(t).op = "handle" /\ Top(t).at = "count"
  BY <1>0, InTop
<1> HIDE DEF f
<1>4. /\ StackType' /\ Shapes' /\ Tokens'
      /\ \E n \in DOMAIN calls[t] : HandleMoves(t, n, c, f)
  BY <1>0, <1>2, <1>3, HandleMovesOn
<1>5. PICK n \in DOMAIN calls[t] : HandleMoves(t, n, c, f)
  BY <1>4
<1> HIDE DEF c
<1>6. PType'
  BY <1>0, <1>4 DEF PType, StackType, Shapes
<1>7. /\ c \in Children /\ calls[t][n] = Top(t) /\ Past(Top(t), c) /\ Past(f, c)
      /\ \A u \in Threads : DOMAIN calls'[u] = DOMAIN calls[u]
      /\ calls'[t][n] = f
      /\ \A u \in Threads : \A d \in DOMAIN calls[u] :
            u # t \/ d # n => calls'[u][d] = calls[u][d]
  BY <1>5 DEF HandleMoves
<1>8. /\ reported[c] = 1 /\ c \in plan.children
      /\ \A u \in Threads : \A d \in DOMAIN calls[u] :
            Past(calls[u][d], c) => u = t /\ d = n
      /\ \A e \in Children : Past(calls[t][n], e) => e = c
  BY <1>7, OnePast
<1>9. f.at # "count" /\ f.at # "tail"
  BY <1>2
<1>10. \A e \in Children : Past(f, e) <=> Past(Top(t), e)
  BY <1>2, <1>3, <1>9 DEF Past
<1>11. c \in Uncounted
  BY <1>3, <1>7 DEF Uncounted
<1>12. Uncounted' = Uncounted \ {c}
  BY <1>3, <1>7, <1>8, <1>9, <1>10 DEF Uncounted
<1>13. Unpaid' = Unpaid
  BY <1>3, <1>7, <1>9, <1>10 DEF Unpaid
<1>14. Counted' = Counted \cup {c} /\ c \notin Counted /\ Paid' = Paid
  BY <1>0, <1>8, <1>7, <1>11, <1>12, <1>13 DEF Counted, Paid
<1>15. /\ IsFiniteSet(Counted) /\ IsFiniteSet(plan.children)
       /\ Counted \subseteq plan.children /\ Cardinality(Counted) \in Nat
  BY SetsOfChildren, FS_CardinalityType
<1>16. Counts'
  BY <1>0, <1>14, <1>15, FS_AddElement DEF Counts
<1>17. m_finish_num # N
  <2>1. Counted # plan.children
    BY <1>8, <1>14
  <2> QED
    BY <1>15, <2>1, FS_Subset DEF Counts, N
<1>18. N' = N /\ N \in Nat
  BY <1>0, <1>15, FS_CardinalityType DEF N
<1>19. allCalls = 0 /\ \A u \in Threads : \A d \in DOMAIN calls[u] : ~Tells(calls[u][d])
  BY <1>17 DEF Told
<1>20. \A u \in Threads : \A d \in DOMAIN calls'[u] :
          Tells(calls'[u][d]) => u = t /\ d = n
  BY <1>7, <1>19
<1>21. Tells(f) <=> m_finish_num' = N /\ Combiner # "none"
  BY <1>0, <1>2, <1>3 DEF Tells
<1>22. Told'
  BY <1>0, <1>7, <1>18, <1>19, <1>20, <1>21 DEF Told
<1> QED
  BY <1>4, <1>6, <1>16, <1>22

\* all_child_task_finish is called, once.
LEMMA AllFinishKeeps == ASSUME IInv, NEW t \in Threads, AllFinish(t) PROVE IInv'
<1> USE DEF IInv
<1> DEFINE f == [Top(t) EXCEPT !.at = "give"]
           c == Top(t).c
<1>0. /\ In(t, "handle", "all")
      /\ allCalls' = allCalls + 1
      /\ UNCHANGED <<tasks, reported, plan, opc, callbacks, m_semp, m_finish_num>>
      /\ stack' = [stack EXCEPT ![t] = <<f>> \o Tail(@)]
  BY DEF AllFinish, jobVars, Goto
<1>1. Top(t) \in Frame /\ Top(t).op = "handle" /\ Top(t).at = "all"
  BY <1>0, InTop
<1>2. f \in Frame /\ f.c = Top(t).c /\ f.ctl = Top(t).ctl /\ f.op = Top(t).op /\ f.at = "give"
  BY <1>1, AtForm
<1> HIDE DEF f
<1>4. /\ StackType' /\ Shapes' /\ Tokens'
      /\ \E n \in DOMAIN calls[t] : HandleMoves(t, n, c, f)
  BY <1>0, <1>1, <1>2, HandleMovesOn
<1>5. PICK n \in DOMAIN calls[t] : HandleMoves(t, n, c, f)
  BY <1>4
<1> HIDE DEF c
<1>6. PType'
  BY <1>0, <1>4 DEF PType, StackType, Shapes
<1>7. /\ c \in Children /\ calls[t][n] = Top(t) /\ Past(Top(t), c) /\ Past(f, c)
      /\ \A u \in Threads : DOMAIN calls'[u] = DOMAIN calls[u]
      /\ calls'[t][n] = f
      /\ \A u \in Threads : \A d \in DOMAIN calls[u] :
            u # t \/ d # n => calls'[u][d] = calls[u][d]
  BY <1>5 DEF HandleMoves
<1>8. \A e \in Children : Past(f, e) <=> Past(Top(t), e)
  BY <1>1, <1>2 DEF Past
<1>9. Uncounted' = Uncounted /\ Unpaid' = Unpaid
  BY <1>1, <1>2, <1>7, <1>8 DEF Uncounted, Unpaid
<1>10. Counts'
  BY <1>0, <1>9 DEF Counts, Counted, Paid
<1>11. Tells(calls[t][n]) /\ ~Tells(f)
  BY <1>1, <1>2, <1>7 DEF Tells
<1>12. m_finish_num = N /\ allCalls = 0 /\ N' = N
  BY <1>0, <1>11 DEF Told, N
<1>13. \A u \in Threads : \A d \in DOMAIN calls'[u] : ~Tells(calls'[u][d])
  BY <1>7, <1>11 DEF Told
<1>14. Told'
  BY <1>0, <1>12, <1>13 DEF Told
<1> QED
  BY <1>4, <1>6, <1>10, <1>14

\* be_sem_give pays for the child, and for no other.
LEMMA GiveKeeps == ASSUME IInv, NEW t \in Threads, Give(t) PROVE IInv'
<1> USE DEF IInv
<1> DEFINE f == [Top(t) EXCEPT !.at = "tail"]
           c == Top(t).c
<1>0. /\ In(t, "handle", "give")
      /\ m_semp' = m_semp + 1
      /\ UNCHANGED <<tasks, reported, plan, opc, callbacks, m_finish_num, allCalls>>
      /\ Goto(t, "tail") \/ Return(t)
  BY DEF Give, history
<1>1. /\ StackType /\ Shapes
      /\ stack[t] # <<>> /\ Top(t) \in Frame /\ Shape(Top(t))
      /\ Top(t).op = "handle" /\ Top(t).at = "give"
  BY <1>0, InTop
<1>2. f \in Frame /\ f.c = Top(t).c /\ f.ctl = Top(t).ctl /\ f.op = Top(t).op /\ f.at = "tail"
  BY <1>1, AtForm
<1>3. c \in Children /\ Past(Top(t), c)
  BY <1>1 DEF Shape, Past
<1>4. /\ StackType' /\ Shapes' /\ Tokens'
      /\ \E n \in DOMAIN calls[t] :
            /\ calls[t][n] = Top(t)
            /\ \A u \in Threads : \A d \in DOMAIN calls'[u] :
                  \/ d \in DOMAIN calls[u] /\ calls'[u][d] = calls[u][d] /\ (u # t \/ d # n)
                  \/ u = t /\ d = n /\ calls'[u][d] = f
            /\ \A u \in Threads : \A d \in DOMAIN calls[u] :
                  u # t \/ d # n => d \in DOMAIN calls'[u] /\ calls'[u][d] = calls[u][d]
  <2>1. CASE Goto(t, "tail")
    <3>1. stack' = [stack EXCEPT ![t] = <<f>> \o Tail(@)]
      BY <2>1 DEF Goto
    <3> HIDE DEF f
    <3>2. /\ StackType' /\ Shapes' /\ Tokens'
          /\ \E n \in DOMAIN calls[t] : HandleMoves(t, n, c, f)
      BY <1>0, <1>1, <1>2, <3>1, HandleMovesOn
    <3> QED
      BY <3>2 DEF HandleMoves
  <2>2. CASE Return(t)
    <3>1. StackType' /\ Shapes' /\ Shrinks
      BY <1>1, <2>2, ReturnsQuietly
    <3>2. Tokens'
      BY <1>0, <3>1, TokensShrink
    <3>3. \E n \in DOMAIN calls[t] :
               /\ calls[t][n] = Top(t)
               /\ DOMAIN calls'[t] = (DOMAIN calls[t]) \ {n}
               /\ \A u \in Threads : u # t => DOMAIN calls'[u] = DOMAIN calls[u]
               /\ \A u \in Threads : \A d \in DOMAIN calls'[u] : calls'[u][d] = calls[u][d]
      BY <1>1, <2>2, Returns
    <3> QED
      BY <3>1, <3>2, <3>3
  <2> QED
    BY <1>0, <2>1, <2>2
<1> HIDE DEF f, c
<1>5. PICK n \in DOMAIN calls[t] :
            /\ calls[t][n] = Top(t)
            /\ \A u \in Threads : \A d \in DOMAIN calls'[u] :
                  \/ d \in DOMAIN calls[u] /\ calls'[u][d] = calls[u][d] /\ (u # t \/ d # n)
                  \/ u = t /\ d = n /\ calls'[u][d] = f
            /\ \A u \in Threads : \A d \in DOMAIN calls[u] :
                  u # t \/ d # n => d \in DOMAIN calls'[u] /\ calls'[u][d] = calls[u][d]
  BY <1>4
<1>6. PType'
  BY <1>0, <1>4 DEF PType, StackType, Shapes
<1>7. /\ reported[c] = 1 /\ c \in plan.children
      /\ \A u \in Threads : \A d \in DOMAIN calls[u] :
            Past(calls[u][d], c) => u = t /\ d = n
      /\ \A e \in Children : Past(calls[t][n], e) => e = c
  BY <1>3, <1>5, OnePast
<1>8. \A u \in Threads : \A d \in DOMAIN calls'[u] :
         u = t /\ d = n => calls'[u][d].at = "tail"
  BY <1>2, <1>5
<1>9. Uncounted' = Uncounted
  BY <1>1, <1>2, <1>5 DEF Uncounted
<1>10. c \in Unpaid
  BY <1>1, <1>3, <1>5 DEF Unpaid
<1>11. Unpaid' = Unpaid \ {c}
  BY <1>1, <1>2, <1>5, <1>7 DEF Unpaid
<1>12. Paid' = Paid \cup {c} /\ c \notin Paid /\ Counted' = Counted
  BY <1>0, <1>3, <1>7, <1>9, <1>10, <1>11 DEF Counted, Paid
<1>13. IsFiniteSet(Paid) /\ Paid \subseteq plan.children /\ Cardinality(Paid) \in Nat
  BY SetsOfChildren, FS_CardinalityType
<1>14. Counts'
  BY <1>0, <1>7, <1>12, <1>13, FS_AddElement DEF Counts
<1>15. /\ \A u \in Threads : \A d \in DOMAIN calls'[u] :
             Tells(calls'[u][d]) => d \in DOMAIN calls[u] /\ calls'[u][d] = calls[u][d]
       /\ \A u \in Threads : \A d \in DOMAIN calls[u] :
             Tells(calls[u][d]) => d \in DOMAIN calls'[u] /\ calls'[u][d] = calls[u][d]
  BY <1>1, <1>2, <1>5 DEF Tells
<1>16. Told'
  BY <1>0, <1>15 DEF Told, N
<1> QED
  BY <1>4, <1>6, <1>14, <1>16

\* The tail of handle_child_task_finish returns.
LEMMA HandleTailKeeps == ASSUME IInv, NEW t \in Threads, HandleTail(t) PROVE IInv'
<1>1. In(t, "handle", "tail") /\ Return(t)
  BY DEF HandleTail
<1>2. UNCHANGED <<tasks, reported, plan, opc, callbacks, m_finish_num, m_semp, allCalls>>
  BY DEF HandleTail, history
<1>3. stack[t] # <<>> /\ Quiet(Top(t))
  BY <1>1, InTop DEF IInv, Quiet
<1> QED
  BY <1>1, <1>2, <1>3, ReturnKeeps

\* A call on top of another.
LEMMA TwoCalls ==
  ASSUME NEW f, NEW g
  PROVE  <<g>> \o <<f>> = <<g, f>>
<1> DEFINE a == <<g>> \o <<f>>
           b == <<g, f>>
<1>1. a \in Seq({f, g}) /\ b \in Seq({f, g}) /\ Len(a) = 2 /\ Len(b) = 2
  OBVIOUS
<1>2. a[1] = b[1] /\ a[2] = b[2]
  OBVIOUS
<1> HIDE DEF a, b
<1>3. \A i \in 1..Len(a) : a[i] = b[i]
  BY <1>1, <1>2
<1>4. a = b
  BY <1>1, <1>3, SeqEqual
<1> QED
  BY <1>4 DEF a, b

\* combiner::child_task_finish: the child is reported, for the first time; a
\* combiner that cancels calls stop() before anything else of this call.
LEMMA ReportKeeps == ASSUME IInv, NEW t \in Threads, Report(t) PROVE IInv'
<1> USE DEF IInv
<1> DEFINE f == [Top(t) EXCEPT !.at = "count"]
           c == Top(t).c
<1>0. /\ In(t, "handle", "report")
      /\ reported' = [reported EXCEPT ![c] = @ + 1]
      /\ UNCHANGED <<tasks, plan, opc, callbacks, m_finish_num, m_semp, allCalls>>
  BY DEF Report, jobVars
<1>1. /\ StackType /\ Shapes
      /\ stack[t] # <<>> /\ Top(t) \in Frame /\ Shape(Top(t))
      /\ Top(t).op = "handle" /\ Top(t).at = "report"
  BY <1>0, InTop
<1>2. f \in Frame /\ f.c = Top(t).c /\ f.ctl = Top(t).ctl /\ f.op = Top(t).op /\ f.at = "count"
  BY <1>1, AtForm
<1>3. \/ stack' = [stack EXCEPT ![t] = <<f>> \o Tail(@)]
      \/ stack' = [stack EXCEPT ![t] = <<StopCall, f>> \o Tail(@)]
  <2>1. <<StopCall>> \o <<f>> = <<StopCall, f>> /\ <<>> \o <<f>> = <<f>>
    BY TwoCalls, \A e : <<>> \o <<e>> = <<e>>
  <2> QED
    BY <2>1 DEF Report
<1> HIDE DEF f
<1>4. /\ StackType'
      /\ \E n \in DOMAIN calls[t] :
            /\ calls[t][n] = Top(t)
            /\ \A u \in Threads : \A d \in DOMAIN calls'[u] :
                  \/ d \in DOMAIN calls[u] /\ calls'[u][d] = calls[u][d] /\ (u # t \/ d # n)
                  \/ u = t /\ d = n /\ calls'[u][d] = f
                  \/ calls'[u][d] = StopCall
            /\ n \in DOMAIN calls'[t] /\ calls'[t][n] = f
            /\ \A u \in Threads : \A d \in DOMAIN calls[u] :
                  u # t \/ d # n => d \in DOMAIN calls'[u] /\ calls'[u][d] = calls[u][d]
  <2>1. CASE stack' = [stack EXCEPT ![t] = <<f>> \o Tail(@)]
    <3>1. StackType' /\ \E n \in DOMAIN calls[t] :
               /\ calls[t][n] = Top(t)
               /\ \A u \in Threads : DOMAIN calls'[u] = DOMAIN calls[u]
               /\ calls'[t][n] = f
               /\ \A u \in Threads : \A d \in DOMAIN calls[u] :
                     u # t \/ d # n => calls'[u][d] = calls[u][d]
      BY <1>1, <1>2, <2>1, Moves
    <3> QED
      BY <3>1
  <2>2. CASE stack' = [stack EXCEPT ![t] = <<StopCall, f>> \o Tail(@)]
    <3>1. StopCall \in Frame
      BY CallForms
    <3>2. StackType' /\ \E n \in DOMAIN calls[t] :
               /\ calls[t][n] = Top(t)
               /\ NewCall(t) \notin DOMAIN calls[t]
               /\ \A d : d \in DOMAIN calls'[t] <=> d \in DOMAIN calls[t] \/ d = NewCall(t)
               /\ \A u \in Threads : u # t => DOMAIN calls'[u] = DOMAIN calls[u]
               /\ calls'[t][n] = f
               /\ calls'[t][NewCall(t)] = StopCall
               /\ OnlyCall(t, n)
      BY <1>1, <1>2, <2>2, <3>1, Nests
    <3> QED
      BY <3>2 DEF OnlyCall
  <2> QED
    BY <1>3, <2>1, <2>2
<1>5. PICK n \in DOMAIN calls[t] :
            /\ calls[t][n] = Top(t)
            /\ \A u \in Threads : \A d \in DOMAIN calls'[u] :
                  \/ d \in DOMAIN calls[u] /\ calls'[u][d] = calls[u][d] /\ (u # t \/ d # n)
                  \/ u = t /\ d = n /\ calls'[u][d] = f
                  \/ calls'[u][d] = StopCall
            /\ n \in DOMAIN calls'[t] /\ calls'[t][n] = f
            /\ \A u \in Threads : \A d \in DOMAIN calls[u] :
                  u # t \/ d # n => d \in DOMAIN calls'[u] /\ calls'[u][d] = calls[u][d]
  BY <1>4
<1>6. c \in Children /\ Bears(Top(t), c) /\ \A e : Bears(Top(t), e) \/ Past(Top(t), e) => e = c
  BY <1>1 DEF Shape, Bears, Past
<1>7. Shape(f) /\ (\A e : ~Bears(f, e) /\ (Past(f, e) <=> e = c))
  BY <1>1, <1>2, <1>6 DEF Shape, Bears, Past
<1>8. /\ reported[c] = 0 /\ Touched(c) /\ Holds(calls[t][n], c)
      /\ \A i \in DOMAIN tasks : tasks[i] # c
  BY <1>5, <1>6 DEF Tokens, Touched, Holds
<1> HIDE DEF c
<1>9. /\ reported' \in [Children -> Nat]
      /\ reported'[c] = 1
      /\ \A e \in Children : e # c => reported'[e] = reported[e]
  BY <1>0, <1>6, <1>8 DEF PType
<1>10. Shapes'
  BY <1>1, <1>5, <1>7, CallForms DEF Shapes
<1>11. PType'
  BY <1>0, <1>4, <1>9, <1>10 DEF PType, StackType, Shapes
<1>12. \A u \in Threads : \A d \in DOMAIN calls'[u] : \A e \in Children :
          Holds(calls'[u][d], e) =>
             /\ d \in DOMAIN calls[u]
             /\ \/ calls'[u][d] = calls[u][d] /\ (u # t \/ d # n)
                \/ u = t /\ d = n /\ e = c
  BY <1>5, <1>7, CallForms DEF Holds
<1>13. \A u \in Threads : \A d \in DOMAIN calls[u] :
          u # t \/ d # n => ~Holds(calls[u][d], c)
  BY <1>6, <1>8 DEF Tokens, Unique
<1>14. Tokens'
  <2>1. Unique'
    BY <1>8, <1>12 DEF Tokens, Unique
  <2>2. \A i \in DOMAIN tasks : tasks[i] \in Children
    BY DEF PType
  <2>3. (\A i \in DOMAIN tasks :
          /\ reported[tasks[i]] = 0
          /\ \A u \in Threads : \A d \in DOMAIN calls[u] : ~Holds(calls[u][d], tasks[i]))'
    BY <1>0, <1>8, <1>9, <1>12, <2>2 DEF Tokens
  <2>4. (\A u \in Threads : \A d \in DOMAIN calls[u] : \A e \in Children :
          /\ Bears(calls[u][d], e) => reported[e] = 0
          /\ Past(calls[u][d], e) => reported[e] = 1)'
    BY <1>5, <1>7, <1>9, <1>13, CallForms DEF Tokens, Holds
  <2>5. ASSUME NEW e \in Children, Touched(e)' PROVE Touched(e)
    BY <1>0, <1>8, <1>9, <1>12, <2>5 DEF Touched
  <2> QED
    BY <1>0, <1>9, <2>1, <2>3, <2>4, <2>5 DEF Tokens
<1>15. Uncounted' = Uncounted \cup {c} /\ Unpaid' = Unpaid \cup {c}
  BY <1>1, <1>2, <1>5, <1>6, <1>7, CallForms DEF Uncounted, Unpaid
<1>16. Counted' = Counted /\ Paid' = Paid
  BY <1>6, <1>8, <1>9, <1>15 DEF Counted, Paid
<1>17. Counts'
  BY <1>0, <1>16 DEF Counts
<1>18. /\ ~Tells(f) /\ ~Tells(StopCall) /\ ~Tells(Top(t))
  BY <1>1, <1>2 DEF Tells, StopCall
<1>19. /\ \A u \in Threads : \A d \in DOMAIN calls'[u] :
             Tells(calls'[u][d]) => d \in DOMAIN calls[u] /\ calls'[u][d] = calls[u][d]
       /\ \A u \in Threads : \A d \in DOMAIN calls[u] :
             Tells(calls[u][d]) => d \in DOMAIN calls'[u] /\ calls'[u][d] = calls[u][d]
  BY <1>5, <1>18
<1>20. Told'
  BY <1>0, <1>19 DEF Told, N
<1> QED
  BY <1>11, <1>14, <1>17, <1>20

-----------------------------------------------------------------------------
(* The invariant is inductive: stop() *)

\* What is left of the queue is part of it, and no child is in it twice.
LEMMA WithoutKeeps ==
  ASSUME PType, Tokens, NEW ctl \in SUBSET Queued, tasks' \in Without(ctl)
  PROVE  /\ tasks' \in Seq(Children)
         /\ \A i \in DOMAIN tasks' : /\ tasks'[i] \notin ctl
                                     /\ \E k \in DOMAIN tasks : tasks[k] = tasks'[i]
         /\ \A i, j \in DOMAIN tasks' : tasks'[i] = tasks'[j] => i = j
<1> DEFINE m == Len(tasks) - Cardinality(ctl)
<1>1. /\ tasks' \in [1..m -> ToSet(tasks) \ ctl]
      /\ \A i, j \in DOMAIN tasks' : i < j =>
            \E k, l \in DOMAIN tasks : k < l /\ tasks[k] = tasks'[i] /\ tasks[l] = tasks'[j]
  BY DEF Without
<1>2. ToSet(tasks) \subseteq Children
  BY DEF ToSet, PType
<1>3. m \in Int
  <2>1. IsFiniteSet(ctl)
    BY <1>2, JobAssumption, FS_Subset DEF Queued
  <2> QED
    BY <2>1, FS_CardinalityType DEF PType
<1> HIDE DEF m
<1>4. \A i, j \in DOMAIN tasks' : tasks'[i] = tasks'[j] => i = j
  <2> SUFFICES ASSUME NEW i \in DOMAIN tasks', NEW j \in DOMAIN tasks',
                      tasks'[i] = tasks'[j], i # j
               PROVE  FALSE
    OBVIOUS
  <2>1. i \in Int /\ j \in Int
    BY <1>1, <1>3
  <2>2. i < j \/ j < i
    BY <2>1
  <2>3. PICK k \in DOMAIN tasks, l \in DOMAIN tasks : k < l /\ tasks[k] = tasks[l]
    BY <1>1, <2>2
  <2>4. k \in Int
    BY DEF PType
  <2> QED
    BY <2>3, <2>4 DEF Tokens
<1>5. tasks' \in Seq(Children)
  <2> DEFINE n == IF m > 0 THEN m ELSE 0
  <2>1. n \in Nat /\ 1..n = 1..m
    BY <1>3
  <2>2. tasks' \in [1..n -> Children]
    BY <1>1, <1>2, <2>1
  <2> HIDE DEF n
  <2> QED
    BY <2>1, <2>2
<1>6. \A i \in DOMAIN tasks' : tasks'[i] \notin ctl /\ \E k \in DOMAIN tasks : tasks[k] = tasks'[i]
  BY <1>1 DEF ToSet
<1> QED
  BY <1>4, <1>5, <1>6

\* stop() takes the children it withdraws from the queue into its own hands.
LEMMA StopEnterKeeps == ASSUME IInv, NEW t \in Threads, StopEnter(t) PROVE IInv'
<1> USE DEF IInv
<1>0. /\ In(t, "stop", "enter")
      /\ UNCHANGED <<reported, plan, opc, callbacks, m_finish_num, m_semp, allCalls>>
  BY DEF StopEnter, history
<1>1. /\ StackType /\ Shapes
      /\ stack[t] # <<>> /\ Top(t) \in Frame /\ Shape(Top(t))
      /\ Top(t).op = "stop" /\ Top(t).at = "enter"
  BY <1>0, InTop
<1>2. Quiet(Top(t)) /\ \A e : ~Holds(Top(t), e)
  BY <1>1 DEF Quiet, Holds, Bears, Past, Shape
<1>3. CASE Return(t) /\ UNCHANGED tasks
  BY <1>0, <1>1, <1>2, <1>3, ReturnKeeps
<1>4. ASSUME NEW ctl \in SUBSET Queued, tasks' \in Without(ctl),
             stack' = [stack EXCEPT ![t] =
                         <<[Top(t) EXCEPT !.at = "report", !.ctl = ctl]>> \o Tail(@)]
      PROVE  IInv'
  <2> DEFINE f == [Top(t) EXCEPT !.at = "report", !.ctl = ctl]
  <2>1. /\ tasks' \in Seq(Children)
        /\ \A i \in DOMAIN tasks' : /\ tasks'[i] \notin ctl
                                    /\ \E k \in DOMAIN tasks : tasks[k] = tasks'[i]
        /\ \A i, j \in DOMAIN tasks' : tasks'[i] = tasks'[j] => i = j
    BY <1>4, WithoutKeeps
  <2>2. /\ ctl \subseteq Children
        /\ \A c \in ctl : \E i \in DOMAIN tasks : tasks[i] = c
    BY DEF Queued, ToSet, PType
  <2>3. f \in Frame /\ f.op = "stop" /\ f.at = "report" /\ f.ctl = ctl
    BY <1>1, <2>2 DEF Frame
  <2>4. stack' = [stack EXCEPT ![t] = <<f>> \o Tail(@)]
    BY <1>4
  <2> HIDE DEF f
  <2>5. Shape(f) /\ Quiet(f) /\ \A e : ~Past(f, e) /\ (Bears(f, e) <=> e \in ctl)
    BY <2>3 DEF Shape, Quiet, Bears, Past
  <2>6. StackType'
    BY <1>1, <2>3, <2>4, Moves
  <2>7. PICK n \in DOMAIN calls[t] :
               /\ calls[t][n] = Top(t)
               /\ \A u \in Threads : DOMAIN calls'[u] = DOMAIN calls[u]
               /\ calls'[t][n] = f
               /\ \A u \in Threads : \A d \in DOMAIN calls[u] :
                     u # t \/ d # n => calls'[u][d] = calls[u][d]
    BY <1>1, <2>3, <2>4, Moves
  <2>8. Shapes'
    BY <1>1, <2>5, <2>7 DEF Shapes
  <2>9. Quietly
    BY <1>2, <2>5, <2>7 DEF Quietly
  <2>10. PType'
    BY <1>0, <2>1, <2>6, <2>8 DEF PType, StackType, Shapes
  <2>11. /\ \A c \in ctl : reported[c] = 0 /\ Touched(c)
         /\ \A c \in ctl : \A u \in Threads : \A d \in DOMAIN calls[u] : ~Holds(calls[u][d], c)
    BY <2>2 DEF Tokens, Touched
  <2>12. \A u \in Threads : \A d \in DOMAIN calls'[u] : \A e \in Children :
            Holds(calls'[u][d], e) =>
               \/ (u # t \/ d # n) /\ d \in DOMAIN calls[u]
               \/ u = t /\ d = n /\ e \in ctl
    BY <2>5, <2>7 DEF Holds
  <2>13. \A u \in Threads : \A d \in DOMAIN calls'[u] : \A e \in Children :
            Holds(calls'[u][d], e) =>
               \/ d \in DOMAIN calls[u] /\ Holds(calls[u][d], e) /\ e \notin ctl
                    /\ calls'[u][d] = calls[u][d]
               \/ u = t /\ d = n /\ e \in ctl
    BY <2>5, <2>7, <2>11, <2>12 DEF Holds
  <2>14. Tokens'
    <3>1. Unique'
      BY <2>13 DEF Tokens, Unique
    <3>2. \A i \in DOMAIN tasks' : tasks'[i] \in Children
      BY <2>1
    <3>3. (\A i \in DOMAIN tasks :
            /\ reported[tasks[i]] = 0
            /\ \A u \in Threads : \A d \in DOMAIN calls[u] : ~Holds(calls[u][d], tasks[i]))'
      BY <1>0, <2>1, <2>13, <3>2 DEF Tokens
    <3>4. (\A u \in Threads : \A d \in DOMAIN calls[u] : \A e \in Children :
            /\ Bears(calls[u][d], e) => reported[e] = 0
            /\ Past(calls[u][d], e) => reported[e] = 1)'
      BY <1>0, <2>5, <2>7, <2>11 DEF Tokens
    <3>5. ASSUME NEW e \in Children, Touched(e)' PROVE Touched(e)
      BY <1>0, <2>1, <2>11, <2>13, <3>5 DEF Touched
    <3> QED
      BY <1>0, <2>1, <3>1, <3>3, <3>4, <3>5 DEF Tokens
  <2>15. Counts' /\ Told'
    BY <1>0, <2>9, QuietlyKeeps
  <2> QED
    BY <2>10, <2>14, <2>15
<1> QED
  BY <1>3, <1>4 DEF StopEnter

\* A child withdrawn goes from stop() to the handle_child_task_finish it calls.
LEMMA StopReportKeeps == ASSUME IInv, NEW t \in Threads, StopReport(t) PROVE IInv'
<1> USE DEF IInv
<1>0. /\ In(t, "stop", "report")
      /\ UNCHANGED <<tasks, reported, plan, opc, callbacks, m_finish_num, m_semp, allCalls>>
  BY DEF StopReport, jobVars, history
<1>1. /\ StackType /\ Shapes
      /\ stack[t] # <<>> /\ Top(t) \in Frame /\ Shape(Top(t))
      /\ Top(t).op = "stop" /\ Top(t).at = "report"
  BY <1>0, InTop
<1>2. Quiet(Top(t)) /\ \A e : ~Past(Top(t), e) /\ (Bears(Top(t), e) <=> e \in Top(t).ctl)
  BY <1>1 DEF Quiet, Bears, Past
<1>3. CASE Return(t)
  BY <1>0, <1>1, <1>2, <1>3, ReturnKeeps
<1>4. ASSUME NEW c \in Top(t).ctl,
             stack' = [stack EXCEPT ![t] =
                        <<Handle(c), [Top(t) EXCEPT !.ctl = @ \ {c}]>> \o Tail(@)]
      PROVE  IInv'
  <2> DEFINE f == [Top(t) EXCEPT !.ctl = @ \ {c}]
             g == Handle(c)
  <2>1. c \in Children /\ Top(t).ctl \subseteq Children
    BY <1>1 DEF Frame
  <2>2. f \in Frame /\ f.op = "stop" /\ f.at = "report" /\ f.ctl = Top(t).ctl \ {c}
    BY <1>1, <2>1 DEF Frame
  <2>3. stack' = [stack EXCEPT ![t] = <<g, f>> \o Tail(@)]
    BY <1>4
  <2>4. g \in Frame /\ Shape(g) /\ Quiet(g) /\ \A e : ~Past(g, e) /\ (Bears(g, e) <=> e = c)
    BY <2>1, CallForms
  <2> HIDE DEF f, g
  <2>5. /\ Shape(f) /\ Quiet(f)
        /\ \A e : ~Past(f, e) /\ (Bears(f, e) <=> e \in Top(t).ctl /\ e # c)
    BY <2>2 DEF Shape, Quiet, Bears, Past
  <2>6. StackType' /\ \E n \in DOMAIN calls[t] :
               /\ calls[t][n] = Top(t)
               /\ NewCall(t) \notin DOMAIN calls[t]
               /\ \A d : d \in DOMAIN calls'[t] <=> d \in DOMAIN calls[t] \/ d = NewCall(t)
               /\ \A u \in Threads : u # t => DOMAIN calls'[u] = DOMAIN calls[u]
               /\ calls'[t][n] = f
               /\ calls'[t][NewCall(t)] = g
               /\ OnlyCall(t, n)
    BY <1>1, <2>2, <2>3, <2>4, Nests
  <2>7. PICK n \in DOMAIN calls[t] :
               /\ calls[t][n] = Top(t)
               /\ NewCall(t) \notin DOMAIN calls[t]
               /\ \A d : d \in DOMAIN calls'[t] <=> d \in DOMAIN calls[t] \/ d = NewCall(t)
               /\ \A u \in Threads : u # t => DOMAIN calls'[u] = DOMAIN calls[u]
               /\ calls'[t][n] = f
               /\ calls'[t][NewCall(t)] = g
               /\ \A u \in Threads : \A d \in DOMAIN calls[u] :
                     u # t \/ d # n => calls'[u][d] = calls[u][d]
    BY <2>6 DEF OnlyCall
  <2>8. \A u \in Threads : \A d \in DOMAIN calls'[u] :
           \/ d \in DOMAIN calls[u] /\ calls'[u][d] = calls[u][d] /\ (u # t \/ d # n)
           \/ u = t /\ d = n /\ calls'[u][d] = f
           \/ u = t /\ d = NewCall(t) /\ calls'[u][d] = g
    BY <2>7
  <2>9. Shapes'
    BY <1>1, <2>4, <2>5, <2>8 DEF Shapes
  <2>10. Quietly
    BY <1>2, <2>4, <2>5, <2>7, <2>8 DEF Quietly
  <2>11. PType'
    BY <1>0, <2>6, <2>9 DEF PType, StackType, Shapes
  <2>12. /\ \A e \in Top(t).ctl : reported[e] = 0 /\ Touched(e) /\ Holds(calls[t][n], e)
         /\ \A e \in Top(t).ctl : \A u \in Threads : \A d \in DOMAIN calls[u] :
               u # t \/ d # n => ~Holds(calls[u][d], e)
    <3>1. \A e \in Top(t).ctl : Holds(calls[t][n], e) /\ reported[e] = 0
      BY <1>2, <2>1, <2>7 DEF Holds, Tokens
    <3> QED
      BY <2>1, <3>1 DEF Tokens, Touched, Unique
  <2>13. \A u \in Threads : \A d \in DOMAIN calls'[u] : \A e \in Children :
            Holds(calls'[u][d], e) =>
               \/ d \in DOMAIN calls[u] /\ Holds(calls[u][d], e) /\ (u # t \/ d # n)
                    /\ e \notin Top(t).ctl
               \/ u = t /\ d = n /\ e \in Top(t).ctl /\ e # c
               \/ u = t /\ d = NewCall(t) /\ e = c
    BY <2>4, <2>5, <2>8, <2>12 DEF Holds
  <2>14. Tokens'
    <3>1. Unique'
      BY <2>1, <2>13 DEF Tokens, Unique
    <3>2. \A i \in DOMAIN tasks : tasks[i] \in Children
      BY DEF PType
    <3>3. \A u \in Threads : \A d \in DOMAIN calls'[u] : \A e \in Children :
             Holds(calls'[u][d], e) => \E v \in Threads : \E x \in DOMAIN calls[v] : Holds(calls[v][x], e)
      BY <2>1, <2>12, <2>13
    <3>4. (\A i \in DOMAIN tasks :
            /\ reported[tasks[i]] = 0
            /\ \A u \in Threads : \A d \in DOMAIN calls[u] : ~Holds(calls[u][d], tasks[i]))'
      BY <1>0, <3>2, <3>3 DEF Tokens
    <3>5. (\A u \in Threads : \A d \in DOMAIN calls[u] : \A e \in Children :
            /\ Bears(calls[u][d], e) => reported[e] = 0
            /\ Past(calls[u][d], e) => reported[e] = 1)'
      BY <1>0, <2>4, <2>5, <2>8, <2>12 DEF Tokens
    <3>6. ASSUME NEW e \in Children, Touched(e)' PROVE Touched(e)
      BY <1>0, <3>3, <3>6 DEF Touched
    <3> QED
      BY <1>0, <3>1, <3>4, <3>5, <3>6 DEF Tokens
  <2>15. Counts' /\ Told'
    BY <1>0, <2>10, QuietlyKeeps
  <2> QED
    BY <2>11, <2>14, <2>15
<1> QED
  BY <1>3, <1>4 DEF StopReport

-----------------------------------------------------------------------------
(* Every step keeps the invariant; what follows from it *)

\* A step that changes nothing keeps it.
LEMMA StutterKeeps == ASSUME IInv, UNCHANGED vars PROVE IInv'
<1>1. UNCHANGED <<m_finish_num, m_semp, callbacks, tasks, stack, opc, reported, allCalls, plan>>
  BY DEF vars, jobVars, history
<1>2. calls' = calls
  BY <1>1 DEF calls
<1>3. PType' /\ Tokens'
  BY <1>1, <1>2 DEF IInv, PType, Tokens, Unique, Touched
<1>4. Counts' /\ Told'
  BY <1>1, <1>2 DEF IInv, Counts, Told, Counted, Paid, Uncounted, Unpaid, N
<1> QED
  BY <1>3, <1>4 DEF IInv

\* Whatever the workers, the calls and the owner do.
LEMMA NextKeeps == IInv /\ [Next]_vars => IInv'
<1> SUFFICES ASSUME IInv, [Next]_vars PROVE IInv'
  OBVIOUS
<1>1. ASSUME NEW w \in Workers, WorkerStep(w) PROVE IInv'
  BY <1>1, TakeKeeps, ProcessCheckKeeps, ProcessDoneKeeps, RetryKeeps, RetryCountKeeps
  DEF WorkerStep
<1>2. ASSUME NEW t \in Threads, CallStep(t) PROVE IInv'
  BY <1>2, ReportKeeps, CountKeeps, AllFinishKeeps, GiveKeeps, HandleTailKeeps,
     StopEnterKeeps, StopReportKeeps
  DEF CallStep
<1>3. CASE OwnerStep
  BY <1>3, DispatchEnterKeeps, DispatchReturnKeeps, OwnerDeleteKeeps, WaitAllKeeps,
     ClearKeeps, DispatchOneKeeps
  DEF OwnerStep
<1>4. CASE OwnerCancel
  BY <1>4, OwnerCancelKeeps
<1>5. CASE UNCHANGED vars
  BY <1>5, StutterKeeps
<1> QED
  BY <1>1, <1>2, <1>3, <1>4, <1>5 DEF Next

\* The tokens, the counts and the calls agree in every state.
THEOREM Invariance == Spec => []IInv
<1> QED
  BY InitIInv, NextKeeps, PTL DEF Spec

\* m_finish_num has reached N when every child is counted.
LEMMA AllCounted ==
  ASSUME IInv, m_finish_num = N
  PROVE  \A c \in plan.children : reported[c] = 1
<1>1. /\ IsFiniteSet(plan.children) /\ plan.children \subseteq Children
      /\ Counted \subseteq plan.children
  BY SetsOfChildren, JobAssumption DEF IInv, PType
<1>2. Counted = plan.children
  BY <1>1, FS_Subset DEF IInv, Counts, N
<1> QED
  BY <1>2 DEF Counted

\* A child is reported once, and all_child_task_finish comes once and last:
\* whatever the nesting of handle_child_task_finish and stop().
THEOREM LastIsLast == Spec => []AllFinishLast
<1>1. IInv => AllFinishLast
  BY AllCounted DEF IInv, Tokens, Told, AllFinishLast
<1> QED
  BY <1>1, Invariance, PTL

\* A call of a stack has an index.
LEMMA FramesAreCalls ==
  ASSUME StackType, NEW f \in Frames
  PROVE  \E t \in Threads : \E d \in DOMAIN calls[t] : calls[t][d] = f
<1>1. PICK t \in Threads : f \in ToSet(stack[t])
  BY DEF Frames
<1>2. PICK i \in DOMAIN stack[t] : stack[t][i] = f
  BY <1>1 DEF ToSet
<1> DEFINE n == Len(stack[t])
           d == n - i + 1
<1>3. n \in Nat /\ i \in 1..n
  BY <1>2 DEF StackType
<1>4. d \in 1..n /\ n - d + 1 = i
  <2> HIDE DEF n
  <2> QED
    BY <1>3
<1>5. calls[t][d] = stack[t][n - d + 1]
  BY <1>4, CallAt
<1> QED
  BY <1>2, <1>4, <1>5, CallsDef
-----------------------------------------------------------------------------
(* What a call rests on: a stop() that is not the owner's was called from a *)
(* report that is not counted yet, and only children with a retry left are  *)
(* queued again                                                             *)

MayRetry(f, r) == f.op = "process" /\ f.at \in {"retry", "count"} => r # 0
Uncounts(f) == f.op = "handle" /\ f.at = "count"

Called(t, d) ==
    calls[t][d].op = "stop" => t = Owner \/ \E e \in 1..(d - 1) : Uncounts(calls[t][e])

UInv ==
    /\ retry_times \in [Children -> Nat]
    /\ \A t \in Threads : \A d \in DOMAIN calls[t] : MayRetry(calls[t][d], MaxRetry) /\ Called(t, d)
    /\ stack[Owner] # <<>> => opc = "cancelling"

\* The calls of s take the place of top: a stop() among them rests on one of
\* them, or was top.
Rests(s, i, top) ==
    s[i].op = "stop" => \/ i = Len(s) /\ top.op = "stop"
                        \/ \E j \in (i + 1)..Len(s) : Uncounts(s[j])

\* A step that exchanges the top of a stack for s.
LEMMA TopChanges ==
  ASSUME StackType, UInv, NEW t \in Threads, stack[t] # <<>>, NEW s \in Seq(Frame),
         stack' = [stack EXCEPT ![t] = s \o Tail(@)], UNCHANGED <<plan, opc>>,
         retry_times' \in [Children -> Nat],
         \A i \in 1..Len(s) : MayRetry(s[i], MaxRetry) /\ Rests(s, i, Top(t))
  PROVE  UInv'
<1>1. PICK n \in Nat, k \in Nat : n = Len(stack[t]) /\ n # 0 /\ k = Len(s)
  <2>1. Len(stack[t]) \in Nat \ {0}
    BY Below
  <2>2. Len(s) \in Nat
    BY LenProperties
  <2> QED
    BY <2>1, <2>2
<1>2. /\ Len(stack'[t]) = k + n - 1
      /\ \A u \in Threads : u # t => calls'[u] = calls[u]
      /\ \A d \in 1..(n - 1) : calls'[t][d] = calls[t][d]
      /\ \A d \in 1..k : calls'[t][n - 1 + d] = s[k - d + 1]
      /\ calls[t][n] = Top(t)
  <2>1. /\ Len(stack'[t]) = Len(s) + Len(stack[t]) - 1
        /\ \A u \in Threads : u # t => calls'[u] = calls[u]
        /\ \A d \in 1..(Len(stack[t]) - 1) : calls'[t][d] = calls[t][d]
        /\ \A d \in 1..Len(s) : calls'[t][Len(stack[t]) - 1 + d] = s[Len(s) - d + 1]
        /\ calls[t][Len(stack[t])] = Top(t)
    BY Below
  <2> QED
    BY <1>1, <2>1
<1>0. n \in Nat /\ k \in Nat /\ n >= 1
  BY <1>1
<1>3. DOMAIN calls[t] = 1..n /\ DOMAIN calls'[t] = 1..(k + n - 1)
  BY <1>1, <1>2, CallsDef, CallsDefNext
<1>4. MaxRetry' = MaxRetry
  BY DEF MaxRetry
<1>5. ASSUME NEW u \in Threads, NEW d \in DOMAIN calls'[u], u # t
      PROVE  MayRetry(calls'[u][d], MaxRetry) /\ Called(u, d)'
  <2>1. calls'[u] = calls[u]
    BY <1>2, <1>5
  <2> QED
    BY <2>1 DEF UInv, Called
<1>6. ASSUME NEW d \in 1..(n - 1)
      PROVE  MayRetry(calls'[t][d], MaxRetry) /\ Called(t, d)'
  <2>1. d \in 1..n /\ \A e \in 1..(d - 1) : e \in 1..(n - 1)
    OBVIOUS
  <2>2. MayRetry(calls[t][d], MaxRetry) /\ Called(t, d)
    BY <1>3, <2>1 DEF UInv
  <2> QED
    BY <1>2, <2>1, <2>2 DEF Called
<1>7. ASSUME NEW x \in 1..k
      PROVE  MayRetry(calls'[t][n - 1 + x], MaxRetry) /\ Called(t, n - 1 + x)'
  <2>1. PICK i \in 1..k : i = k - x + 1
    <3>1. k - x + 1 \in 1..k
      OBVIOUS
    <3> QED
      BY <3>1
  <2>2. calls'[t][n - 1 + x] = s[i]
    BY <1>2, <2>1
  <2>3. MayRetry(s[i], MaxRetry) /\ Rests(s, i, Top(t))
    BY <1>1, <2>1
  <2>4. ASSUME s[i].op = "stop", t # Owner
        PROVE  \E e \in 1..((n - 1 + x) - 1) : Uncounts(calls'[t][e])
    <3>1. CASE i = k /\ Top(t).op = "stop"
      <4>1. Called(t, n) /\ n \in 1..n
        BY <1>1, <1>3 DEF UInv
      <4>2. PICK e \in 1..(n - 1) : Uncounts(calls[t][e])
        BY <1>2, <2>4, <3>1, <4>1 DEF Called
      <4>3. e \in 1..((n - 1 + x) - 1)
        BY <1>1
      <4> QED
        BY <1>2, <4>2, <4>3
    <3>2. ASSUME NEW j \in (i + 1)..k, Uncounts(s[j])
          PROVE  \E e \in 1..((n - 1 + x) - 1) : Uncounts(calls'[t][e])
      <4>1. PICK y \in 1..k : y = k - j + 1 /\ k - y + 1 = j /\ y < x
        <5>1. k - j + 1 \in 1..k /\ k - (k - j + 1) + 1 = j /\ k - j + 1 < x
          BY <2>1
        <5> QED
          BY <5>1
      <4>2. calls'[t][n - 1 + y] = s[j]
        <5>1. calls'[t][n - 1 + y] = s[k - y + 1]
          BY <1>2, <4>1
        <5> QED
          BY <4>1, <5>1
      <4>3. n - 1 + y \in 1..((n - 1 + x) - 1)
        BY <1>0, <4>1
      <4> QED
        BY <3>2, <4>2, <4>3
    <3> QED
      BY <1>1, <2>3, <2>4, <3>1, <3>2 DEF Rests
  <2>5. Called(t, n - 1 + x)'
    BY <2>2, <2>4 DEF Called
  <2> QED
    BY <2>2, <2>3, <2>5
<1>8. ASSUME NEW d \in DOMAIN calls'[t]
      PROVE  MayRetry(calls'[t][d], MaxRetry) /\ Called(t, d)'
  <2>1. d \in 1..(n - 1) \/ \E x \in 1..k : d = n - 1 + x
    <3>1. d \in Nat /\ d >= 1 /\ d <= k + n - 1
      BY <1>1, <1>3
    <3>2. CASE d <= n - 1
      BY <1>1, <3>1, <3>2
    <3>3. CASE ~(d <= n - 1)
      <4>1. PICK x \in Int : x = d - (n - 1)
        BY <1>0, <3>1
      <4>2. x \in 1..k /\ d = n - 1 + x
        BY <1>0, <3>1, <3>3, <4>1
      <4> QED
        BY <4>2
    <3> QED
      BY <3>2, <3>3
  <2> QED
    BY <1>6, <1>7, <2>1
<1>9. stack'[Owner] # <<>> => opc' = "cancelling"
  <2>1. CASE t = Owner
    BY <2>1 DEF UInv
  <2>2. CASE t # Owner
    BY <2>2 DEF UInv, StackType, Threads
  <2> QED
    BY <2>1, <2>2
<1> QED
  BY <1>4, <1>5, <1>8, <1>9 DEF UInv

\* The call on top returns, or one takes its place.
LEMMA TopReturns ==
  ASSUME StackType, UInv, NEW t \in Threads, stack[t] # <<>>, Return(t), UNCHANGED <<plan, opc>>,
         retry_times' \in [Children -> Nat]
  PROVE  UInv'
<1>1. stack' = [stack EXCEPT ![t] = <<>> \o Tail(@)] /\ <<>> \in Seq(Frame) /\ Len(<<>>) = 0
  BY DEF Return, StackType
<1>2. \A i \in 1..Len(<<>>) : MayRetry(<<>>[i], MaxRetry) /\ Rests(<<>>, i, Top(t))
  BY <1>1
<1>3. PICK s \in Seq(Frame) : s = <<>>
  BY <1>1
<1>4. /\ stack' = [stack EXCEPT ![t] = s \o Tail(@)]
      /\ \A i \in 1..Len(s) : MayRetry(s[i], MaxRetry) /\ Rests(s, i, Top(t))
  BY <1>1, <1>2, <1>3
<1> QED
  BY <1>4, TopChanges

LEMMA TopMoves ==
  ASSUME StackType, UInv, NEW t \in Threads, stack[t] # <<>>, NEW f \in Frame,
         stack' = [stack EXCEPT ![t] = <<f>> \o Tail(@)], UNCHANGED <<plan, opc>>,
         retry_times' \in [Children -> Nat],
         MayRetry(f, MaxRetry), f.op = "stop" => Top(t).op = "stop"
  PROVE  UInv'
<1>1. PICK s \in Seq(Frame) : s = <<f>> /\ Len(s) = 1 /\ s[1] = f
  <2>1. <<f>> \in Seq(Frame) /\ Len(<<f>>) = 1 /\ <<f>>[1] = f
    OBVIOUS
  <2> QED
    BY <2>1
<1>2. \A i \in 1..Len(s) : MayRetry(s[i], MaxRetry) /\ Rests(s, i, Top(t))
  BY <1>1 DEF Rests
<1>3. stack' = [stack EXCEPT ![t] = s \o Tail(@)]
  BY <1>1
<1> QED
  BY <1>2, <1>3, TopChanges

\* It makes the call g from f.
LEMMA TopCalls ==
  ASSUME StackType, UInv, NEW t \in Threads, stack[t] # <<>>, NEW f \in Frame, NEW g \in Frame,
         stack' = [stack EXCEPT ![t] = <<g, f>> \o Tail(@)], UNCHANGED <<plan, opc>>,
         retry_times' \in [Children -> Nat],
         MayRetry(f, MaxRetry), f.op = "stop" => Top(t).op = "stop",
         MayRetry(g, MaxRetry), g.op = "stop" => Uncounts(f)
  PROVE  UInv'
<1>1. PICK s \in Seq(Frame) : s = <<g, f>> /\ Len(s) = 2 /\ s[1] = g /\ s[2] = f
  <2>1. <<g, f>> \in Seq(Frame) /\ Len(<<g, f>>) = 2 /\ <<g, f>>[1] = g /\ <<g, f>>[2] = f
    OBVIOUS
  <2> QED
    BY <2>1
<1>2. Rests(s, 1, Top(t)) /\ Rests(s, 2, Top(t))
  BY <1>1 DEF Rests
<1>3. \A i \in 1..Len(s) : i = 1 \/ i = 2
  BY <1>1
<1>4. \A i \in 1..Len(s) : MayRetry(s[i], MaxRetry) /\ Rests(s, i, Top(t))
  BY <1>1, <1>2, <1>3
<1>5. stack' = [stack EXCEPT ![t] = s \o Tail(@)]
  BY <1>1
<1> QED
  BY <1>4, <1>5, TopChanges

\* A thread that is in no call makes one.
LEMMA FirstCall ==
  ASSUME StackType, UInv, NEW t \in Threads, stack[t] = <<>>, NEW g \in Frame, Push(t, g),
         plan' = plan, retry_times' = retry_times, MayRetry(g, MaxRetry),
         IF t = Owner THEN opc' = "cancelling" ELSE g.op # "stop" /\ opc' = opc
  PROVE  UInv'
<1>1. /\ stack'[t] = <<g>>
      /\ \A u \in Threads : u # t => stack'[u] = stack[u]
  BY DEF Push, StackType
<1>2. Len(stack'[t]) = 1 /\ stack'[t][1] = g
  BY <1>1
<1>3. DOMAIN calls'[t] = 1..1
  BY <1>2, CallsDefNext
<1>4. 1 \in 1..Len(stack'[t]) /\ Len(stack'[t]) - 1 + 1 = 1
  BY <1>2
<1>5. calls'[t][1] = g
  BY <1>2, <1>4, CallAtNext
<1>6. \A u \in Threads : u # t => calls'[u] = calls[u]
  BY <1>1, SameCalls
<1>7. MaxRetry' = MaxRetry
  BY DEF MaxRetry
<1>8. \A d \in DOMAIN calls'[t] : MayRetry(calls'[t][d], MaxRetry) /\ Called(t, d)'
  BY <1>3, <1>5 DEF Called
<1>9. ASSUME NEW u \in Threads, NEW d \in DOMAIN calls'[u], u # t
      PROVE  MayRetry(calls'[u][d], MaxRetry) /\ Called(u, d)'
  <2>1. calls'[u] = calls[u]
    BY <1>6, <1>9
  <2> QED
    BY <2>1 DEF UInv, Called
<1>10. stack'[Owner] # <<>> => opc' = "cancelling"
  BY <1>1 DEF UInv, Threads
<1> QED
  BY <1>7, <1>8, <1>9, <1>10 DEF UInv

\* A step that makes no call.
LEMMA NoCallMade ==
  ASSUME UInv, UNCHANGED <<stack, plan, retry_times>>,
         opc' = opc \/ stack[Owner] = <<>>
  PROVE  UInv'
<1>1. calls' = calls /\ MaxRetry' = MaxRetry
  BY DEF calls, MaxRetry
<1> QED
  BY <1>1 DEF UInv, Called

LEMMA UInvInit == Init => UInv
<1> SUFFICES ASSUME Init PROVE UInv
  OBVIOUS
<1>1. \A t \in Threads : stack[t] = <<>>
  BY DEF Init
<1>2. \A t \in Threads : DOMAIN calls[t] = {}
  <2>1. ASSUME NEW t \in Threads PROVE DOMAIN calls[t] = 1..0
    <3>1. Len(stack[t]) = 0
      BY <1>1
    <3> QED
      BY <3>1, CallsDef
  <2> QED
    BY <2>1
<1> QED
  BY <1>1, <1>2 DEF Init, UInv, Threads

\* The steps of a worker.
LEMMA WorkerRests == ASSUME IInv, UInv, NEW w \in Workers, WorkerStep(w) PROVE UInv'
<1>0. w \in Threads /\ w # Owner /\ StackType /\ retry_times \in [Children -> Nat] /\ MaxRetry \in Nat
  BY JobAssumption DEF Threads, IInv, PType, StackType, UInv, MaxRetry
<1>1. CASE Take(w)
  <2>1. Head(tasks) \in Children /\ stack[w] = <<>> /\ Push(w, Process(Head(tasks)))
        /\ UNCHANGED <<plan, retry_times, opc>>
    BY <1>1 DEF Take, IInv, PType, history, childVars
  <2>2. PICK g \in Frame : g = Process(Head(tasks)) /\ g.op = "process" /\ g.at = "check"
    BY <2>1, CallForms DEF Process
  <2>3. MayRetry(g, MaxRetry) /\ g.op # "stop"
    BY <2>2 DEF MayRetry
  <2> QED
    BY <1>0, <2>1, <2>2, <2>3, FirstCall
<1>2. ASSUME NEW op, NEW at, In(w, op, at), NEW f \in Frame,
             stack' = [stack EXCEPT ![w] = <<f>> \o Tail(@)], UNCHANGED <<plan, opc, retry_times>>,
             MayRetry(f, MaxRetry), f.op # "stop"
      PROVE  UInv'
  BY <1>0, <1>2, TopMoves DEF In
<1>3. ASSUME NEW at, In(w, "process", at), TailCall(w, Handle(Top(w).c)),
             UNCHANGED <<plan, opc, retry_times>>
      PROVE  UInv'
  <2>1. Top(w) \in Frame /\ Shape(Top(w)) /\ Top(w).op = "process"
    BY <1>0, <1>3, InTop DEF IInv
  <2>2. Top(w).c \in Children
    BY <2>1 DEF Shape
  <2>3. PICK f \in Frame : f = Handle(Top(w).c) /\ f.op = "handle"
    BY <2>2, CallForms DEF Handle
  <2>4. MayRetry(f, MaxRetry) /\ stack' = [stack EXCEPT ![w] = <<f>> \o Tail(@)]
    BY <1>3, <2>3 DEF MayRetry, TailCall
  <2> QED
    BY <1>2, <1>3, <2>3, <2>4
<1>4. ASSUME NEW at, In(w, "process", at), NEW next \in {"run", "retry", "count"}, Goto(w, next),
             next # "run" => MaxRetry # 0, UNCHANGED <<plan, opc, retry_times>>
      PROVE  UInv'
  <2>1. Top(w) \in Frame /\ Top(w).op = "process"
    BY <1>0, <1>4, InTop DEF IInv
  <2>2. PICK f : f = [Top(w) EXCEPT !.at = next]
    OBVIOUS
  <2>4. f \in Frame /\ f.op = "process" /\ f.at = next
    BY <1>4, <2>1, <2>2, AtForm
  <2>3. MayRetry(f, MaxRetry) /\ stack' = [stack EXCEPT ![w] = <<f>> \o Tail(@)]
    BY <1>4, <2>2, <2>4 DEF MayRetry, Goto
  <2> QED
    BY <1>2, <1>4, <2>3, <2>4
<1>5. CASE ProcessCheck(w)
  <2>1. In(w, "process", "check") /\ UNCHANGED <<plan, opc, retry_times>>
        /\ (TailCall(w, Handle(Top(w).c)) \/ Goto(w, "run"))
    BY <1>5 DEF ProcessCheck
  <2> QED
    BY <1>3, <1>4, <2>1
<1>6. CASE ProcessDone(w)
  <2>1. In(w, "process", "run") /\ UNCHANGED <<plan, opc, retry_times>>
        /\ (TailCall(w, Handle(Top(w).c)) \/ (Goto(w, "retry") /\ retry_times[Top(w).c] < MaxRetry))
    BY <1>6 DEF ProcessDone, history
  <2>2. Top(w) \in Frame /\ Shape(Top(w)) /\ Top(w).op = "process"
    BY <1>0, <2>1, InTop DEF IInv
  <2>3. retry_times[Top(w).c] \in Nat
    BY <1>0, <2>2 DEF Shape
  <2>4. CASE Goto(w, "retry") /\ retry_times[Top(w).c] < MaxRetry
    <3>1. MaxRetry # 0
      BY <1>0, <2>3, <2>4
    <3> QED
      BY <1>4, <2>1, <2>4, <3>1
  <2> QED
    BY <1>3, <2>1, <2>4
<1>7. CASE Retry(w)
  <2>1. In(w, "process", "retry") /\ UNCHANGED <<plan, opc, retry_times>>
        /\ (Goto(w, "count") \/ Return(w))
    BY <1>7 DEF Retry, history, childVars
  <2>2. stack[w] # <<>> /\ Top(w).op = "process" /\ Top(w).at = "retry"
        /\ \E n \in DOMAIN calls[w] : calls[w][n] = Top(w)
    BY <1>0, <2>1, InTop DEF IInv
  <2>3. MaxRetry # 0
    BY <1>0, <2>2 DEF UInv, MayRetry
  <2>4. CASE Return(w)
    BY <1>0, <2>1, <2>2, <2>4, TopReturns
  <2> QED
    BY <1>4, <2>1, <2>3, <2>4
<1>8. CASE RetryCount(w)
  <2>1. In(w, "process", "count") /\ UNCHANGED <<plan, opc>> /\ Return(w)
        /\ retry_times' = [retry_times EXCEPT ![Top(w).c] = @ + 1]
    BY <1>8 DEF RetryCount, history
  <2>2. retry_times' \in [Children -> Nat]
    <3>1. \A c \in Children : retry_times[c] + 1 \in Nat
      BY <1>0
    <3>2. [retry_times EXCEPT ![Top(w).c] = @ + 1] \in [Children -> Nat]
      BY <1>0, <3>1
    <3> QED
      BY <2>1, <3>2
  <2>3. stack[w] # <<>>
    BY <2>1 DEF In
  <2> QED
    BY <1>0, <2>1, <2>2, <2>3, TopReturns
<1> QED
  BY <1>1, <1>5, <1>6, <1>7, <1>8 DEF WorkerStep

\* The steps of reports and of stop().
LEMMA CallRests == ASSUME IInv, UInv, NEW t \in Threads, CallStep(t) PROVE UInv'
<1>0. StackType /\ retry_times \in [Children -> Nat]
  BY DEF IInv, PType, StackType, UInv
<1>1. UNCHANGED <<plan, opc, retry_times>>
  BY DEF CallStep, Report, Count, AllFinish, Give, HandleTail, StopEnter, StopReport, history, childVars
<1>2. PICK op \in {"handle", "stop"} : \E at : In(t, op, at)
  BY DEF CallStep, Report, Count, AllFinish, Give, HandleTail, StopEnter, StopReport
<1>3. stack[t] # <<>> /\ Top(t) \in Frame /\ Shape(Top(t)) /\ Top(t).op = op
  BY <1>2, InTop DEF IInv
<1>4. CASE Return(t)
  BY <1>0, <1>1, <1>3, <1>4, TopReturns
<1>5. ASSUME NEW f \in Frame, f.op = op, stack' = [stack EXCEPT ![t] = <<f>> \o Tail(@)]
      PROVE  UInv'
  <2>1. MayRetry(f, MaxRetry) /\ (f.op = "stop" => Top(t).op = "stop")
    BY <1>3, <1>5 DEF MayRetry
  <2> QED
    BY <1>0, <1>1, <1>3, <1>5, <2>1, TopMoves
<1>6. ASSUME NEW x \in {"count", "all", "give", "tail", "report"}, NEW f,
             f = [Top(t) EXCEPT !.at = x], stack' = [stack EXCEPT ![t] = <<f>> \o Tail(@)]
      PROVE  UInv'
  <2>1. f \in Frame /\ f.op = op
    BY <1>3, <1>6, AtForm
  <2> QED
    BY <1>5, <1>6, <2>1
<1>7. CASE Report(t)
  <2>1. PICK f \in Frame : f = [Top(t) EXCEPT !.at = "count"] /\ f.at = "count" /\ f.op = "handle"
    <3>1. Top(t).op = "handle"
      BY <1>7 DEF Report, In, Top
    <3>2. PICK f : f = [Top(t) EXCEPT !.at = "count"]
      OBVIOUS
    <3>3. f \in Frame /\ f.op = "handle" /\ f.at = "count"
      BY <1>3, <3>1, <3>2, AtForm
    <3> QED
      BY <3>2, <3>3
  <2>2. CASE Combiner = "cancels"
    <3>1. stack' = [stack EXCEPT ![t] = <<StopCall>> \o <<f>> \o Tail(@)]
      BY <1>7, <2>1, <2>2 DEF Report
    <3>2. stack' = [stack EXCEPT ![t] = <<StopCall, f>> \o Tail(@)]
      <4>1. <<StopCall>> \o <<f>> = <<StopCall, f>>
        BY TwoCalls
      <4> QED
        BY <3>1, <4>1
    <3>3. PICK g \in Frame : g = StopCall /\ g.op = "stop"
      BY CallForms DEF StopCall
    <3>4. MayRetry(f, MaxRetry) /\ MayRetry(g, MaxRetry) /\ Uncounts(f) /\ f.op # "stop"
      BY <2>1, <3>3 DEF MayRetry, Uncounts
    <3> QED
      BY <1>0, <1>1, <1>3, <3>2, <3>3, <3>4, TopCalls
  <2>3. CASE Combiner # "cancels"
    <3>1. stack' = [stack EXCEPT ![t] = (<<>> \o <<f>>) \o Tail(@)]
      BY <1>7, <2>1, <2>3 DEF Report
    <3>2. <<>> \o <<f>> = <<f>>
      OBVIOUS
    <3>3. stack' = [stack EXCEPT ![t] = <<f>> \o Tail(@)]
      BY <3>1, <3>2
    <3> QED
      BY <1>6, <2>1, <3>3
  <2> QED
    BY <2>2, <2>3
<1>8. CASE Count(t)
  <2>1. PICK f : f = [Top(t) EXCEPT !.at = IF m_finish_num' = N /\ Combiner # "none" THEN "all" ELSE "give",
                                     !.all = (m_finish_num' = N)]
    OBVIOUS
  <2>2. stack' = [stack EXCEPT ![t] = <<f>> \o Tail(@)]
    BY <1>8, <2>1 DEF Count
  <2>3. f \in Frame /\ f.op = op
    BY <1>3, <2>1 DEF Frame
  <2> QED
    BY <1>5, <2>2, <2>3
<1>9. CASE AllFinish(t)
  BY <1>6, <1>9 DEF AllFinish, Goto
<1>10. CASE Give(t)
  BY <1>4, <1>6, <1>10 DEF Give, Goto
<1>11. CASE HandleTail(t)
  BY <1>4, <1>11 DEF HandleTail
<1>12. CASE StopEnter(t)
  <2>1. ASSUME NEW ctl \in SUBSET Queued,
               stack' = [stack EXCEPT ![t] =
                           <<[Top(t) EXCEPT !.at = "report", !.ctl = ctl]>> \o Tail(@)]
        PROVE  UInv'
    <3>1. ctl \subseteq Children
      BY DEF Queued, ToSet, IInv, PType
    <3>2. PICK f : f = [Top(t) EXCEPT !.at = "report", !.ctl = ctl]
      OBVIOUS
    <3>3. f \in Frame /\ f.op = op
      BY <1>3, <3>1, <3>2 DEF Frame
    <3> QED
      BY <1>5, <2>1, <3>2, <3>3
  <2> QED
    BY <1>4, <1>12, <2>1 DEF StopEnter
<1>13. CASE StopReport(t)
  <2>1. ASSUME NEW c \in Top(t).ctl,
               stack' = [stack EXCEPT ![t] =
                          <<Handle(c), [Top(t) EXCEPT !.ctl = @ \ {c}]>> \o Tail(@)]
        PROVE  UInv'
    <3>1. c \in Children /\ Top(t).op = "stop"
      BY <1>3, <1>13 DEF Frame, StopReport, In, Top
    <3>2. PICK f : f = [Top(t) EXCEPT !.ctl = @ \ {c}]
      OBVIOUS
    <3>3. f \in Frame /\ f.op = "stop"
      BY <1>3, <3>1, <3>2 DEF Frame
    <3>4. PICK g \in Frame : g = Handle(c) /\ g.op = "handle"
      BY <3>1, CallForms DEF Handle
    <3>5. MayRetry(f, MaxRetry) /\ MayRetry(g, MaxRetry)
      BY <3>3, <3>4 DEF MayRetry
    <3>6. stack' = [stack EXCEPT ![t] = <<g, f>> \o Tail(@)]
      BY <2>1, <3>2, <3>4
    <3> QED
      BY <1>0, <1>1, <1>3, <3>1, <3>3, <3>4, <3>5, <3>6, TopCalls
  <2> QED
    BY <1>4, <1>13, <2>1 DEF StopReport
<1> QED
  BY <1>7, <1>8, <1>9, <1>10, <1>11, <1>12, <1>13 DEF CallStep

LEMMA OwnerRests == ASSUME IInv, UInv, OwnerStep \/ OwnerCancel \/ UNCHANGED vars PROVE UInv'
<1>0. Owner \in Threads /\ StackType
  BY DEF Threads, IInv, PType, StackType
<1>1. CASE OwnerCancel
  <2>1. stack[Owner] = <<>> /\ Push(Owner, StopCall) /\ opc' = "cancelling"
        /\ UNCHANGED <<plan, retry_times>>
    BY <1>1 DEF OwnerCancel, UInv, history, childVars
  <2>2. PICK g \in Frame : g = StopCall /\ g.op = "stop"
    BY CallForms DEF StopCall
  <2>3. MayRetry(g, MaxRetry)
    BY <2>2 DEF MayRetry
  <2> QED
    BY <1>0, <2>1, <2>2, <2>3, FirstCall
<1>2. CASE OwnerStep
  <2>1. UNCHANGED <<stack, plan, retry_times>>
    BY <1>2 DEF OwnerStep, DispatchEnter, DispatchReturn, DispatchOne, OwnerDelete, WaitAll, Clear,
                history, childVars
  <2>2. opc' = opc \/ stack[Owner] = <<>>
    BY <1>2 DEF OwnerStep, DispatchEnter, DispatchReturn, DispatchOne, OwnerDelete, WaitAll, Clear, UInv
  <2> QED
    BY <2>1, <2>2, NoCallMade
<1>3. CASE UNCHANGED vars
  BY <1>3, NoCallMade DEF vars, history, childVars
<1> QED
  BY <1>1, <1>2, <1>3

\* What the calls rest on, in every state.
LEMMA Rested == Spec => [](IInv /\ UInv)
<1>1. IInv /\ UInv /\ [Next]_vars => UInv'
  BY WorkerRests, CallRests, OwnerRests DEF Next
<1> QED
  BY InitIInv, UInvInit, NextKeeps, <1>1, PTL DEF Spec

\* The destructor gets past its wait only when every child is reported and
\* paid for, and so counted, the combiner told, and nothing is left in
\* handle_child_task_finish, stop() and ctfcb::process but the tails of reports
\* and, where children may be retried, the count of one that was queued again.
THEOREM DestructorWaits == Spec => []DeleteWaits
<1>1. ASSUME IInv, UInv, opc \in {"clear", "deleted"} PROVE DeleteWaits
  <2>1. Paid = plan.children
    BY <1>1 DEF IInv, Counts
  <2>2. \A c \in plan.children : reported[c] = 1 /\ c \in Children /\ c \notin Unpaid
    BY <2>1 DEF Paid
  <2>3. ASSUME NEW t \in Threads, NEW d \in DOMAIN calls[t], calls[t][d].op = "handle"
        PROVE  calls[t][d].at = "tail"
    <3> DEFINE f == calls[t][d]
    <3>1. Shape(f)
      BY <1>1 DEF IInv, PType
    <3>2. f.c \in Children /\ (f.at = "report" => Bears(f, f.c)) /\ (f.at # "report" => Past(f, f.c))
      BY <2>3, <3>1 DEF Shape, Bears, Past
    <3>3. f.c \in plan.children
      BY <1>1, <3>2 DEF IInv, Tokens, Touched, Holds
    <3>4. f.at # "report"
      BY <1>1, <2>2, <3>2, <3>3 DEF IInv, Tokens
    <3> QED
      BY <2>2, <3>2, <3>3, <3>4 DEF Unpaid
  <2>4. ASSUME NEW t \in Threads, NEW d \in DOMAIN calls[t], calls[t][d].op = "process"
        PROVE  calls[t][d].at = "count" /\ MaxRetry # 0
    <3> DEFINE f == calls[t][d]
    <3>1. Shape(f) /\ MayRetry(f, MaxRetry)
      BY <1>1 DEF IInv, PType, UInv
    <3>2. f.c \in Children /\ (f.at # "count" => Bears(f, f.c))
      BY <2>4, <3>1 DEF Shape, Bears
    <3>3. ASSUME f.at # "count" PROVE FALSE
      <4>1. Bears(f, f.c) /\ f.c \in plan.children
        BY <1>1, <3>2, <3>3 DEF IInv, Tokens, Touched, Holds
      <4> QED
        BY <1>1, <2>2, <3>2, <4>1 DEF IInv, Tokens
    <3> QED
      BY <2>4, <3>1, <3>3 DEF MayRetry
  <2>5. ASSUME NEW t \in Threads, NEW d \in DOMAIN calls[t] PROVE calls[t][d].op # "stop"
    <3> SUFFICES ASSUME calls[t][d].op = "stop" PROVE FALSE
      OBVIOUS
    <3>1. Called(t, d) /\ DOMAIN calls[t] = 1..Len(stack[t]) /\ Len(stack[t]) \in Nat
      BY <1>1, CallsDef, LenProperties DEF UInv, IInv, PType
    <3>2. t # Owner
      <4> SUFFICES ASSUME t = Owner PROVE FALSE
        OBVIOUS
      <4>1. stack[t] = <<>>
        BY <1>1 DEF UInv
      <4>2. Len(stack[t]) = 0
        BY <4>1
      <4> QED
        BY <3>1, <4>2
    <3>3. PICK e \in 1..(d - 1) : Uncounts(calls[t][e])
      BY <3>1, <3>2 DEF Called
    <3>4. e \in DOMAIN calls[t]
      BY <3>1
    <3> QED
      BY <2>3, <3>3, <3>4 DEF Uncounts
  <2>6. \A f \in Frames : Outlasts(f)
    <3>1. ASSUME NEW f \in Frames PROVE Outlasts(f)
      <4>1. PICK t \in Threads : \E d \in DOMAIN calls[t] : calls[t][d] = f
        BY <1>1, FramesAreCalls DEF IInv, PType, StackType
      <4>2. PICK d \in DOMAIN calls[t] : calls[t][d] = f
        BY <4>1
      <4>3. f.op \in {"process", "handle", "stop"}
        <5>1. d \in 1..Len(stack[t]) /\ stack[t] \in Seq(Frame) /\ Len(stack[t]) \in Nat
          BY <1>1, CallsDef, LenProperties DEF IInv, PType
        <5>2. Len(stack[t]) - d + 1 \in 1..Len(stack[t])
          BY <5>1
        <5>3. f = stack[t][Len(stack[t]) - d + 1]
          BY <4>2, <5>1, CallAt
        <5>4. f \in Frame
          BY <5>1, <5>2, <5>3, ElementOfSeq
        <5> QED
          BY <5>4 DEF Frame
      <4> QED
        BY <2>3, <2>4, <2>5, <4>2, <4>3 DEF Outlasts
    <3> QED
      BY <3>1
  <2>7. Uncounted = {}
    BY <2>3 DEF Uncounted, Past
  <2>8. m_finish_num = N
    <3>1. Counted = plan.children
      BY <1>1, <2>2, <2>7 DEF Counted, IInv, Tokens, Touched
    <3> QED
      BY <1>1, <3>1 DEF IInv, Counts, N
  <2>9. \A t \in Threads : \A d \in DOMAIN calls[t] : ~Tells(calls[t][d])
    BY <2>3 DEF Tells
  <2>10. Combiner # "none" /\ plan.children # {} => allCalls = 1
    BY <1>1, <2>8, <2>9 DEF IInv, Told
  <2> QED
    BY <2>2, <2>6, <2>10 DEF DeleteWaits
<1>2. IInv /\ UInv => DeleteWaits
  BY <1>1 DEF DeleteWaits
<1> QED
  BY <1>2, Rested, PTL
=============================================================================
