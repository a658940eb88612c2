-------------------------------- MODULE ZvmGc --------------------------------
(***************************************************************************)
(* The collector of zvm: objects of classes with object and integer        *)
(* members and an embedded parent object, reference counts kept by         *)
(* obj::assign and obj::set_entry, and gc::try_collect, which takes one    *)
(* object of the list at a time and searches the paths that lead back to   *)
(* it.  An obj is the entity it refers to or NULL; allocation never        *)
(* returns NULL (operator new throws); clone is left out.                  *)
(***************************************************************************)
EXTENDS Naturals, Integers, FiniteSets, SequencesExt

CONSTANTS Vars,      \* obj variables outside the heap: locals and test objects
          Classes,   \* [parent : Classes \cup {NULL}, slots : Seq({"obj", "int"})]
          MaxObjs,   \* bound: entities created
          MaxOf(_),  \* bound: entities of a class created, parents apart
          NULL

VARIABLES obj,    \* the entities created so far
          vars,   \* what each variable refers to
          list, cur,  \* entlist, without its head; m_cur, NULL for &m_head
          broken  \* memory still in use, or already free, has been freed

state == <<obj, vars, list, cur, broken>>
Ids == DOMAIN obj
Slots(o) == DOMAIN obj[o].slots
MaxSlots == Max({Len(c.slots) : c \in Classes})

Init == /\ obj = <<>> /\ vars = [v \in Vars |-> NULL]
        /\ list = <<>> /\ cur = NULL /\ broken = FALSE

-----------------------------------------------------------------------------
(* Reference counts.                                                       *)

\* gc_type::reference and recycle, on the table of entities.
Reference(t, o) == [t EXCEPT ![o].ref = @ + 1, ![o].check = FALSE]
Recycle(t, o) == IF o = NULL THEN t ELSE [t EXCEPT ![o].ref = @ - 1, ![o].check = TRUE]

\* create_ent: the entity, then its parent's, then members that refer to nothing.
NewObj(c, p) == [class |-> c, parent |-> p, ref |-> 1, check |-> FALSE, freed |-> FALSE,
                 slots |-> [i \in DOMAIN c.slots |-> NULL]]
Create(v, c) ==
  LET n == Len(obj)
      new == IF c.parent = NULL THEN <<NewObj(c, NULL)>>
             ELSE <<NewObj(c, n + 2), NewObj(c.parent, NULL)>>
  IN
  /\ vars[v] = NULL
  /\ n + Len(new) <= MaxObjs /\ Cardinality({o \in Ids : obj[o].class = c}) < MaxOf(c)
  /\ obj' = obj \o new
  /\ vars' = [vars EXCEPT ![v] = n + 1]
  /\ list' = list \o [i \in DOMAIN new |-> n + i]
  /\ UNCHANGED <<cur, broken>>

\* obj::assign refuses a source that refers to nothing.
Load(v, w, i) ==
  LET e == obj[vars[w]].slots[i] IN
  /\ e # NULL
  /\ obj' = Recycle(Reference(obj, e), vars[v])
  /\ vars' = [vars EXCEPT ![v] = e]
  /\ UNCHANGED <<list, cur, broken>>
\* Mutant: the old value of the member is not given back.
StoreOver(w, i, v) ==
  /\ vars[v] # NULL
  /\ obj' = [Reference(obj, vars[v]) EXCEPT ![vars[w]].slots[i] = vars[v]]
  /\ UNCHANGED <<vars, list, cur, broken>>
Store(w, i, v) ==
  LET old == obj[vars[w]].slots[i] IN
  /\ vars[v] # NULL
  /\ obj' = [Recycle(Reference(obj, vars[v]), old) EXCEPT ![vars[w]].slots[i] = vars[v]]
  /\ UNCHANGED <<vars, list, cur, broken>>
Drop(v) ==
  /\ vars[v] # NULL
  /\ obj' = Recycle(obj, vars[v])
  /\ vars' = [vars EXCEPT ![v] = NULL]
  /\ UNCHANGED <<list, cur, broken>>

-----------------------------------------------------------------------------
(* The search.  begin and get_refer_obj enumerate the parent and the       *)
(* object members; in an object with a parent the first integer member     *)
(* ends the enumeration.                                                   *)

ObjSlots(o) == SelectSeq([i \in Slots(o) |-> i], LAMBDA i : obj[o].class.slots[i] = "obj")
BeforeInt(o) == LET ints == {i \in Slots(o) : obj[o].class.slots[i] = "int"}
                IN IF ints = {} THEN Len(obj[o].slots) ELSE Min(ints) - 1
Refers(o) == SelectSeq(
  IF obj[o].parent # NULL
  THEN <<obj[o].parent>> \o [i \in 1..BeforeInt(o) |-> obj[o].slots[i]]
  ELSE [k \in DOMAIN ObjSlots(o) |-> obj[o].slots[ObjSlots(o)[k]]],
  LAMBDA e : e # NULL)

\* find_loop(o, e, path): only the objects of the path have STATUS_SIGN, so an
\* object is searched once for every path that leads to it.
RECURSIVE LeadsBack(_, _, _)
LeadsBack(o, e, path) ==
  IF o \in path THEN o = e
  ELSE \E r \in ToSet(Refers(o)) : LeadsBack(r, e, path \cup {o})
\* The calls of find_loop in the order they return, with their results.
RECURSIVE Calls(_, _, _)
Calls(o, e, path) ==
  LET rs == Refers(o) IN
  (IF o \in path THEN <<>> ELSE FlattenSeq([k \in DOMAIN rs |-> Calls(rs[k], e, path \cup {o})]))
  \o <<[at |-> o, back |-> LeadsBack(o, e, path)]>>
\* reset has cleared flags and counts; the first call is the last to return,
\* and does not count itself.  A call counts once its object has the flag.
Search(e) ==
  LET calls == Calls(e, e, {})
      flagged(k) == \E j \in 1..k : calls[j].at = calls[k].at /\ calls[j].back
  IN [back |-> LeadsBack(e, e, {}),
      flag |-> {calls[k].at : k \in {j \in DOMAIN calls : flagged(j)}},
      cnt |-> [x \in Ids |-> Cardinality({k \in 1..Len(calls) - 1 : calls[k].at = x /\ flagged(k)})]]

\* Mutant: an outside reference keeps the object itself only, not its cycle.
CheckLiveFirst(o, s, path) == o \in s.flag /\ path = {} /\ s.cnt[o] < obj[o].ref
RECURSIVE CheckLive(_, _, _)
CheckLive(o, s, path) ==
  /\ o \in s.flag
  /\ \/ s.cnt[o] < obj[o].ref
     \/ o \notin path /\ \E e \in ToSet(Refers(o)) : CheckLive(e, s, path \cup {o})

-----------------------------------------------------------------------------
(* user_type::clear.  Members are given back by force_clear, which clears  *)
(* the entity at once when its count reaches zero; the parent by recycle.  *)

RECURSIVE Clear(_, _)
\* h: the entities, those with STATUS_CLEAR, and whether something went wrong.
ForceClear(h, o, i) ==
  LET t == h.obj[o].slots[i]
      g == [h EXCEPT !.obj[o].slots[i] = NULL, !.obj[t].ref = @ - 1,
                     !.broken = @ \/ h.obj[t].freed]
  IN IF t = NULL THEN h
     ELSE IF g.obj[t].ref <= 0 THEN Clear(t, g) ELSE g
Clear(o, h) ==
  IF o \in h.clearing THEN [h EXCEPT !.clearing = @ \ {o}]
  ELSE
    LET p == h.obj[o].parent
        g == FoldRight(LAMBDA i, acc : ForceClear(acc, o, i), ObjSlots(o), [h EXCEPT !.clearing = @ \cup {o}])
    IN [obj |-> [Recycle(g.obj, p) EXCEPT ![o].freed = TRUE, ![o].parent = NULL],
        clearing |-> g.clearing \ {o},
        broken |-> g.broken \/ g.obj[o].freed \/ (p # NULL /\ g.obj[p].freed)]

Garbage(o) == obj[o].ref <= 0 \/ LET s == Search(o) IN s.back /\ ~CheckLive(o, s, {})

\* entlist::get: the node of m_cur, the first one when m_cur is the head.
Pos == IF cur = NULL THEN 1 ELSE CHOOSE k \in DOMAIN list : list[k] = cur
After(k) == IF k = Len(list) THEN NULL ELSE list[k + 1]
\* entlist::del moves m_cur on from a node it removes.
NextKept(c, freed) ==
  IF c = NULL THEN NULL
  ELSE LET ks == {k \in DOMAIN list : k >= (CHOOSE j \in DOMAIN list : list[j] = c) /\ list[k] \notin freed}
       IN IF ks = {} THEN NULL ELSE list[Min(ks)]

\* What a variable, or an entity not freed, refers to.
Refs(t, x) == (Range(t[x].slots) \cup {t[x].parent}) \ {NULL}
Used(t) == UNION {Refs(t, x) : x \in {y \in Ids : ~t[y].freed}} \cup (Range(vars) \ {NULL})

\* gc::try_collect(1).
TryCollect ==
  /\ list # <<>>
  /\ \E o \in {list[Pos]} :
       \E h \in {IF obj[o].check /\ Garbage(o)
                 THEN Clear(o, [obj |-> obj, clearing |-> {}, broken |-> FALSE])
                 ELSE [obj |-> obj, clearing |-> {}, broken |-> FALSE]} :
         \E freed \in {{x \in Ids : h.obj[x].freed}} :
           /\ obj' = h.obj
           /\ broken' = (h.broken \/ freed \cap Used(h.obj) # {})
           /\ list' = SelectSeq(list, LAMBDA x : x \notin freed)
           /\ cur' = NextKept(After(Pos), freed)
  /\ UNCHANGED vars

Next ==
  /\ ~broken
  /\ \/ \E v \in Vars : Drop(v) \/ \E c \in Classes : Create(v, c)
     \/ \E v, w \in Vars : vars[w] # NULL /\
          \E i \in Slots(vars[w]) : obj[vars[w]].class.slots[i] = "obj" /\ (Load(v, w, i) \/ Store(w, i, v))
     \/ TryCollect

Spec == Init /\ [][Next]_state

-----------------------------------------------------------------------------
\* As long as nothing in use has been freed, m_ref_cnt is the number of
\* variables, members and children that refer to an entity, and an entity nobody
\* refers to any more is due: whatever way its last reference went (dropped,
\* overwritten, with the child it was the parent of), it is in the list of the
\* collector and will be looked at.
InUse == {x \in Ids : ~obj[x].freed}
Holders(o) == Cardinality({v \in Vars : vars[v] = o})
              + Cardinality({r \in InUse \X (1..MaxSlots) : r[2] \in Slots(r[1]) /\ obj[r[1]].slots[r[2]] = o})
              + Cardinality({x \in InUse : obj[x].parent = o})
UnusedIsDue == \A o \in InUse : obj[o].ref <= 0 => obj[o].check /\ o \in ToSet(list)
CountExact == ~broken => /\ \A o \in InUse : obj[o].ref = Holders(o)
                         /\ UnusedIsDue

\* The collector frees an entity that is still referred to, or one twice, only
\* when its search comes twice to an object other than the one under check.
\* Either it comes by two paths, counts the references of what lies behind
\* twice and takes references from outside for its own; or the object lies on
\* a cycle of its own and outlives what it refers to.
BreaksOnlyOnSecondVisit ==
  [][broken' => LET e == list[Pos]
                    calls == Calls(e, e, {})
                IN \E j, k \in DOMAIN calls : j < k /\ calls[j].at = calls[k].at /\ calls[j].at # e]_state

\* What the tests expect of the collector: what a variable refers to is not freed.
NothingHeldFreed == \A v \in Vars : vars[v] # NULL => ~obj[vars[v]].freed
=============================================================================
