----------------------------- MODULE Processor -----------------------------
(***************************************************************************)
(* What a worker of xylx does with a request: group::processor on a        *)
(* connection of its own to MySQL (ma::adapter, ma::sql_result).  The      *)
(* table interest_t says who is interested in whom; the statements of      *)
(* other workers run between the two queries of one request.               *)
(***************************************************************************)
EXTENDS Naturals, FiniteSets

CONSTANTS NWorkers,
          Phones, Texts,   \* without quotes and zero bytes
          MaxRows          \* bound of the model: rows inserted

DBWorkers == 1..NWorkers
EmptyText == ""            \* a field that the request does not have

(* A request is a command and the part that comes with it, which need not  *)
(* belong to the command: the fields of an absent part are empty.  One     *)
(* with a zero byte is cut there, since the body is taken for a C string,  *)
(* and does not parse.                                                     *)
Requests ==
  [cmd : {"charm"}, phone : Phones \cup {EmptyText}, to : {EmptyText}, message : {EmptyText}]
  \cup [cmd : {"interest"}, phone : Phones, to : Phones, message : Texts]
  \cup [cmd : {"interest", "recommend", "other", "unparsed"}, phone : {EmptyText}, to : {EmptyText}, message : {EmptyText}]

\* MYSQL_RES: NoResult and the two a request stores
NoResult == 0
NoAnswer == [cmd |-> "none", status |-> "none", mark |-> 0, list |-> {}]
Idling == [at |-> "get", req |-> [cmd |-> "none"], persons |-> <<>>, rsp |-> NoAnswer,
           rest |-> NoResult, results |-> {}, known |-> {}, unstored |-> FALSE, added |-> {}]

VARIABLES interest_t,   \* the rows: [n, from, to, message]; n tells equal ones apart
          m_mysql,      \* of each worker: whether its adapter is connected
          work,         \* of each worker: the request it works on
          acked,        \* history: the rows whose insertion was answered with SUCCESS
          wrongFree     \* history: a MYSQL_RES was freed twice

procVars == <<interest_t, m_mysql, work, acked, wrongFree>>

\* adapter::init: m_mysql is set by the first k workers.
Connected(k) == [w \in DBWorkers |-> w <= k]

\* The workers are connected one after the other up to the first that fails,
\* and all of them are run.
ProcInit ==
  /\ interest_t = {} /\ acked = {} /\ wrongFree = FALSE
  /\ work = [w \in DBWorkers |-> Idling]
  /\ \E k \in 0..NWorkers : m_mysql = Connected(k)

At(w, place) == work[w].at = place
Responds(w, r) == [work[w] EXCEPT !.at = "respone", !.rsp = r]
Success(cmd) == [NoAnswer EXCEPT !.cmd = cmd, !.status = "SUCCESS"]
Fails(r) == [r EXCEPT !.status = "DB_FAIL"]

-----------------------------------------------------------------------------
(* sql_result: a local tmp takes the result of the query from the library  *)
(* and gives it to rest, which frees the one it had.                       *)

\* Mutant: operator= leaves the result with tmp, whose destructor frees it.
AssignCopies(k, res) == [k EXCEPT !.rest = res, !.results = @ \ {k.rest}]
Assign(k, res) == [k EXCEPT !.rest = res, !.results = (@ \ {k.rest}) \cup ({res} \ {NoResult})]

\* mysql_store_result may return NULL, which fetch_row takes for no rows.
Stored(k, res) == {Assign(k, res), [Assign(k, NoResult) EXCEPT !.unstored = TRUE]}

\* the destructor of rest
Freed(k) == [k EXCEPT !.rest = NoResult, !.results = @ \ {k.rest}]
FreesGone(k) == k.rest # NoResult /\ k.rest \notin k.results

\* adapter::query fails without a connection, and when the statement fails.
QueryFails(w, r) ==
  /\ work' = [work EXCEPT ![w] = Responds(w, r)]
  /\ UNCHANGED <<interest_t, m_mysql, acked, wrongFree>>

-----------------------------------------------------------------------------
(* work_thread::run and processor::process                                 *)

\* The cmd of the answer is not set for an unknown command; session and seq
\* never are.  An unparsed request is answered with nothing.
Dispatch(q) ==
  CASE q.cmd = "charm" -> [at |-> "first", rsp |-> Success("charm")]
    [] q.cmd = "interest" -> [at |-> "insert", rsp |-> Success("interest")]
    [] q.cmd = "recommend" -> [at |-> "respone", rsp |-> Success("recommend")]
    [] q.cmd = "other" -> [at |-> "respone", rsp |-> Success("unset")]
    [] OTHER -> [at |-> "respone", rsp |-> NoAnswer]

KnownTo(q) == IF q.cmd = "charm" THEN {r \in acked : q.phone \in {r.from, r.to}} ELSE {}

Process(w) == \E q \in Requests :
  /\ At(w, "get")
  /\ work' = [work EXCEPT ![w] = [Idling EXCEPT !.at = Dispatch(q).at, !.rsp = Dispatch(q).rsp,
                                               !.req = q, !.known = KnownTo(q)]]
  /\ UNCHANGED <<interest_t, m_mysql, acked, wrongFree>>

\* message::respone, whether process succeeded or not
Respone(w) ==
  /\ At(w, "respone")
  /\ work' = [work EXCEPT ![w] = Idling]
  /\ acked' = acked \cup IF work[w].rsp.status = "SUCCESS" THEN work[w].added ELSE {}
  /\ wrongFree' = (wrongFree \/ FreesGone(work[w]))
  /\ UNCHANGED <<interest_t, m_mysql>>

-----------------------------------------------------------------------------
(* handle_get_charm_req                                                    *)

\* The persons of the rows, each with the message of the row that came last.
PersonsOf(rows) ==
  {p \in [{r.from : r \in rows} -> {r.message : r \in rows}] :
     \A f \in DOMAIN p : \E r \in rows : r.from = f /\ r.message = p[f]}

Asker(w) == work[w].req.phone
Admirers(w) == {r \in interest_t : r.to = Asker(w)}

FirstQuery(w) ==
  /\ At(w, "first") /\ m_mysql[w]
  /\ \E k \in Stored(work[w], 1) : \E p \in PersonsOf(IF k.rest = NoResult THEN {} ELSE Admirers(w)) :
        work' = [work EXCEPT ![w] = [k EXCEPT !.at = IF p = <<>> THEN "respone" ELSE "second",
                                              !.persons = p,
                                              !.rsp.mark = Cardinality(DOMAIN p)]]
  /\ UNCHANGED <<interest_t, m_mysql, acked, wrongFree>>

\* Mutant: the second query does not say in whom.
ReturnedAll(w) == {r \in interest_t : r.from = Asker(w)}
Returned(w) == {r \in interest_t : r.from = Asker(w) /\ r.to \in DOMAIN work[w].persons}

\* persons[row[0]] makes an empty message for a person that is not there.
Person(w, r) ==
  [row |-> r.n, phone |-> r.to, sendmsg |-> r.message,
   message |-> IF r.to \in DOMAIN work[w].persons THEN work[w].persons[r.to] ELSE EmptyText]

SecondQuery(w) ==
  /\ At(w, "second") /\ m_mysql[w]
  /\ \E k \in Stored(work[w], 2) :
        work' = [work EXCEPT ![w] =
                  [k EXCEPT !.at = "respone",
                            !.rsp.list = IF k.rest = NoResult THEN {} ELSE {Person(w, r) : r \in Returned(w)}]]
  /\ wrongFree' = (wrongFree \/ FreesGone(work[w]))
  /\ UNCHANGED <<interest_t, m_mysql, acked>>

CharmFails(w) == (At(w, "first") \/ At(w, "second")) /\ QueryFails(w, Fails(work[w].rsp))

-----------------------------------------------------------------------------
(* handle_interest_req: adapter::update, and the rows it says it affected  *)

RowOf(q) == LET same == {r \in interest_t : r.from = q.phone /\ r.to = q.to /\ r.message = q.message}
            IN  [n |-> Cardinality(same), from |-> q.phone, to |-> q.to, message |-> q.message]

\* The row may be there although the answer of the server was lost.
Insert_t(w) ==
  /\ At(w, "insert") /\ m_mysql[w]
  /\ Cardinality(interest_t) < MaxRows
  /\ LET row == RowOf(work[w].req)
     IN  /\ interest_t' = interest_t \cup {row}
         /\ \E r \in {work[w].rsp, Fails(work[w].rsp)} :
               work' = [work EXCEPT ![w] = [Responds(w, r) EXCEPT !.added = {row}]]
  /\ UNCHANGED <<m_mysql, acked, wrongFree>>

\* Mutant: a statement that failed is not told from one that did nothing.
InsertFailsUntold(w) == At(w, "insert") /\ QueryFails(w, work[w].rsp)
InsertFails(w) == At(w, "insert") /\ QueryFails(w, Fails(work[w].rsp))

ProcNext == \E w \in DBWorkers : \/ Process(w) \/ Respone(w) \/ FirstQuery(w) \/ SecondQuery(w)
                                 \/ CharmFails(w) \/ Insert_t(w) \/ InsertFails(w)

ProcSpec == ProcInit /\ [][ProcNext]_procVars
-----------------------------------------------------------------------------
(* Properties                                                              *)

Rows(from, to, rows) == {r \in rows : r.from = from /\ r.to = to}

\* handle_get_charm_req (processor.cpp:66): a person is listed only if each of
\* the two is interested in the other, with a message each really sent, and is
\* counted in the mark.
ListsMutual(w) == \A p \in work[w].rsp.list :
  /\ \E r \in Rows(p.phone, Asker(w), interest_t) : r.message = p.message
  /\ \E r \in Rows(Asker(w), p.phone, interest_t) : r.message = p.sendmsg
  /\ work[w].rsp.mark >= Cardinality({q.phone : q \in work[w].rsp.list})

\* ... and, with both results stored, whoever was known to be so when the
\* request was taken is listed, and counted if known to admire the asker.
ListsKnown(w) ==
  LET fans == {r.from : r \in {k \in work[w].known : k.to = Asker(w)}}
  IN  /\ Cardinality(fans) <= work[w].rsp.mark
      /\ \A f \in fans : Rows(Asker(w), f, work[w].known) # {} => \E p \in work[w].rsp.list : p.phone = f

\* processor.cpp:66, :126 (handle_get_charm_req, handle_interest_req): what is
\* answered with SUCCESS is true of the table, whatever other workers insert
\* between the queries; a failed charm request lists nobody; and every result
\* of MySQL is freed once.
AnswersTrue == ~wrongFree /\ \A w \in DBWorkers :
  At(w, "respone") =>
    LET k == work[w] IN
    /\ k.req.cmd = "charm" => /\ ListsMutual(w)
                              /\ k.rsp.status = "SUCCESS" /\ ~k.unstored => ListsKnown(w)
                              /\ k.rsp.status = "DB_FAIL" => k.rsp.list = {}
    /\ k.req.cmd = "interest" /\ k.rsp.status = "SUCCESS" => k.added # {} /\ k.added \subseteq interest_t
    /\ Freed(k).results = {}
=============================================================================
