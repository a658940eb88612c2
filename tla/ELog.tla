-------------------------------- MODULE ELog --------------------------------
(***************************************************************************)
(* elog: reference counted appenders, the tables that name them            *)
(* (m_appends, m_logs, m_default_logger, under m_cs), loggers that keep an *)
(* appender from log::operator() to their destructor, and init, reload and *)
(* uninit, which build and give back the tables while threads log.         *)
(*                                                                         *)
(* A configuration file is the list of appenders its reader accepts, with  *)
(* a flag that tells whether an element after them is refused, the same    *)
(* for loggers, and an optional default logger.  The file is read three    *)
(* times by each load and may be edited in between.  Text is left out.     *)
(***************************************************************************)
EXTENDS Naturals, FiniteSets, Sequences, Functions

CONSTANTS Threads,    \* threads that log
          Admins,     \* threads that call init, reload and uninit
          Files,      \* contents the configuration file may have
          LogNames, Levels,
          Span,       \* schedu_span in ticks of the clock
          MaxTime,    \* bound: the last tick
          MaxApps,    \* bound: appenders created
          MaxEdits,   \* bound: edits of the file
          NULL

ASSUME ELogAssumption ==
  /\ Threads \cap Admins = {} /\ NULL \notin Nat \cup Admins
  /\ "table" \notin Admins /\ "held" \notin Admins
  /\ Span \in Nat \ {0}
  /\ \A f \in Files : f.apps \in Seq(Range(f.apps)) /\ f.logs \in Seq(Range(f.logs))

\* No file names an appender twice, or the second would take the place of the
\* first, which then had no owner.  A hypothesis of the theorems.
NamesDistinct == \A f \in Files : \A i, j \in DOMAIN f.apps :
                    f.apps[i].name = f.apps[j].name => i = j

VARIABLES app,     \* the appenders created so far
          appends, logs, dflt,  \* m_appends, m_logs, m_default_logger
          lock,    \* holder of m_cs
          now, conf, edits,
          stage, held,   \* where each thread is; the appender it gives next
          local,   \* the tables an init or reload has built, or gives back
          crashed

vars == <<app, appends, logs, dflt, lock, now, conf, edits, stage, held, local, crashed>>

Empty == [x \in {} |-> NULL]
NoTables == [apps |-> Empty, logs |-> Empty, dflt |-> NULL, init |-> FALSE, ok |-> TRUE]
NoHeld == [app |-> NULL, taken |-> 0]
Period(t) == t \div Span
Live(a) == a # NULL /\ ~app[a].deleted
IsFile(a) == app[a].kind = "file"
Crash == crashed' = TRUE /\ UNCHANGED <<app, appends, logs, dflt, lock, now, conf, edits, stage, held, local>>
Goto(t, l) == stage' = [stage EXCEPT ![t] = l]

Init ==
  /\ app = <<>> /\ appends = Empty /\ logs = Empty
  /\ dflt = [level |-> 0, app |-> NULL]
  /\ lock = NULL /\ now = 2 * Span - 1 /\ conf \in Files /\ edits = 0
  /\ stage = [t \in Threads \cup Admins |-> "idle"]
  /\ held = [t \in Threads \cup Admins |-> NoHeld]
  /\ local = [r \in Admins |-> NoTables]
  /\ crashed = FALSE

-----------------------------------------------------------------------------
(* Loggers.                                                                *)

NewAppender(k) == [kind |-> k, ref |-> 1, deleted |-> FALSE, file |-> NULL, last |-> 0]
\* Mutant: m_last_open_time is the time of the opening, not the start of its period.
RotateAtNow(a, opened) == [a EXCEPT !.file = IF opened THEN Period(now) ELSE NULL, !.last = now]
\* A file appender opens the file of the period when a span has passed since
\* the start of the period of the last opening; the opening may fail.
Rotate(a, opened) == [a EXCEPT !.file = IF opened THEN Period(now) ELSE NULL,
                               !.last = Period(now) * Span]
Due(a) == a.kind = "file" /\ now - a.last >= Span
Take(a, opened) == LET b == app[a] IN
  [(IF Due(b) THEN Rotate(b, opened) ELSE b) EXCEPT !.ref = @ + 1]

Chosen(name) == IF name \in DOMAIN logs THEN logs[name] ELSE dflt
\* The whole of operator() is under m_cs.
Log(t, name, level) ==
  LET l == Chosen(name) IN
  /\ stage[t] = "idle" /\ lock = NULL
  /\ level >= l.level /\ l.app # NULL
  /\ IF Live(l.app)
     THEN /\ \E opened \in BOOLEAN : app' = [app EXCEPT ![l.app] = Take(l.app, opened)]
          /\ held' = [held EXCEPT ![t] = [app |-> l.app, taken |-> Period(now)]]
          /\ Goto(t, "write")
          /\ UNCHANGED <<appends, logs, dflt, lock, now, conf, edits, local, crashed>>
     ELSE Crash

\* write_s looks at m_file before it takes the lock of the appender.
WriteTest(t) ==
  /\ stage[t] = "write"
  /\ Goto(t, IF IsFile(held[t].app) /\ app[held[t].app].file # NULL THEN "fwrite" ELSE "give")
  /\ UNCHANGED <<app, appends, logs, dflt, lock, now, conf, edits, held, local, crashed>>
Write(t) ==
  /\ stage[t] = "fwrite"
  /\ IF app[held[t].app].file = NULL THEN Crash
     ELSE /\ Goto(t, "give")
          /\ UNCHANGED <<app, appends, logs, dflt, lock, now, conf, edits, held, local, crashed>>

\* give() decrements, and reads the count again.
GiveDec(t) ==
  /\ stage[t] = "give"
  /\ app' = [app EXCEPT ![held[t].app].ref = @ - 1]
  /\ Goto(t, "reread")
  /\ UNCHANGED <<appends, logs, dflt, lock, now, conf, edits, held, local, crashed>>
\* Mutant: give() deletes only below zero.
ToDeleteBelow(n) == n + 1 < 1
ToDelete(n) == n < 1
GiveTest(t) ==
  /\ stage[t] = "reread"
  /\ IF ~Live(held[t].app) THEN Crash
     ELSE /\ app' = [app EXCEPT ![held[t].app].deleted = ToDelete(app[held[t].app].ref)]
          /\ Goto(t, IF t \in Threads THEN "idle" ELSE "free")
          /\ held' = [held EXCEPT ![t] = NoHeld]
          /\ UNCHANGED <<appends, logs, dflt, lock, now, conf, edits, local, crashed>>

-----------------------------------------------------------------------------
(* Loading.  A logger that names an unknown appender leaves a NULL entry   *)
(* under that name in the table of appenders, and ends the load.           *)

Keys(list) == {list[i].name : i \in DOMAIN list}
LastOf(list, n) == list[CHOOSE i \in DOMAIN list : list[i].name = n /\ \A j \in DOMAIN list : list[j].name = n => j <= i]
Bad(list, apps) == {i \in DOMAIN list : list[i].app \notin DOMAIN apps \/ apps[list[i].app] = NULL}
Accepted(list, apps) ==
  SubSeq(list, 1, IF Bad(list, apps) = {} THEN Len(list)
                  ELSE (CHOOSE i \in Bad(list, apps) : \A j \in Bad(list, apps) : i <= j) - 1)
\* m[k]: operator[] of a map inserts NULL for an unknown key.
WithEntry(apps, n) == IF n \in DOMAIN apps THEN apps ELSE [x \in DOMAIN apps \cup {n} |-> IF x = n THEN NULL ELSE apps[x]]

\* init holds m_cs from here to its end, and is called once, before anything
\* else, as elog_test does; reload builds tables of its own.
Begin(r, init) ==
  /\ stage[r] = "idle"
  /\ init => lock = NULL /\ app = <<>>
  /\ lock' = IF init THEN r ELSE lock
  /\ local' = [local EXCEPT ![r] = [NoTables EXCEPT !.init = init]]
  /\ Goto(r, "appenders")
  /\ UNCHANGED <<app, appends, logs, dflt, now, conf, edits, held, crashed>>

\* Mutant: a reload that fails returns at once.
OnFailureReturns(r) == IF local[r].init THEN "install" ELSE "idle"
OnFailure(r) == IF local[r].init THEN "install" ELSE "free"
LoadAppenders(r) ==
  LET names == Keys(conf.apps)
      place == [n \in names |-> Len(app) + Cardinality({i \in DOMAIN conf.apps : \E j \in DOMAIN conf.apps : conf.apps[j].name = n /\ i <= j})]
  IN
  /\ stage[r] = "appenders"
  /\ Len(app) + Len(conf.apps) <= MaxApps
  /\ app' = app \o [i \in DOMAIN conf.apps |-> NewAppender(conf.apps[i].kind)]
  /\ local' = [local EXCEPT ![r].apps = place]
  /\ Goto(r, IF conf.appsOk THEN "loggers" ELSE OnFailure(r))
  /\ UNCHANGED <<appends, logs, dflt, lock, now, conf, edits, held, crashed>>

\* load_loggers may fail without ending init, whose result is the last one's.
LoadLoggers(r) ==
  LET apps == local[r].apps
      good == Accepted(conf.logs, apps)
      all == good = conf.logs
  IN
  /\ stage[r] = "loggers"
  /\ local' = [local EXCEPT
       ![r].logs = [n \in Keys(good) |-> [level |-> LastOf(good, n).level, app |-> apps[LastOf(good, n).app]]],
       ![r].apps = IF all THEN apps ELSE WithEntry(apps, conf.logs[Len(good) + 1].app)]
  /\ Goto(r, IF local[r].init \/ (all /\ conf.logsOk) THEN "default" ELSE "free")
  /\ UNCHANGED <<app, appends, logs, dflt, lock, now, conf, edits, held, crashed>>

LoadDefault(r) ==
  LET d == conf.dflt
      apps == IF d = NULL THEN local[r].apps ELSE WithEntry(local[r].apps, d.app)
      ok == d = NULL \/ apps[d.app] # NULL
  IN
  /\ stage[r] = "default"
  /\ local' = [local EXCEPT
       ![r].dflt = IF d # NULL THEN [level |-> d.level, app |-> apps[d.app]] ELSE NULL,
       ![r].apps = apps]
  /\ Goto(r, IF ok \/ local[r].init THEN "install" ELSE "free")
  /\ UNCHANGED <<app, appends, logs, dflt, lock, now, conf, edits, held, crashed>>

\* Mutant: the swap does not take m_default_logger along.
NewDefaultKept(t) == IF t.init /\ t.dflt # NULL THEN t.dflt ELSE dflt
\* init keeps the default logger it had when the file names none.
NewDefault(t) == CASE t.dflt # NULL -> t.dflt
                   [] t.init -> dflt
                   [] OTHER -> [level |-> 0, app |-> NULL]
Install(r) ==
  LET t == local[r] IN
  /\ stage[r] = "install"
  /\ t.init \/ lock = NULL
  /\ appends' = t.apps /\ logs' = t.logs /\ dflt' = NewDefault(t)
  /\ local' = [local EXCEPT ![r] = [NoTables EXCEPT !.apps = IF t.init THEN Empty ELSE appends]]
  /\ lock' = NULL
  /\ Goto(r, IF t.init THEN "idle" ELSE "free")
  /\ UNCHANGED <<app, now, conf, edits, held, crashed>>

\* uninit gives the appenders back under m_cs; the default logger stays as it is.
Uninit(r) ==
  /\ stage[r] = "idle" /\ lock = NULL
  /\ lock' = r
  /\ logs' = Empty /\ appends' = Empty
  /\ local' = [local EXCEPT ![r] = [NoTables EXCEPT !.apps = appends]]
  /\ Goto(r, "free")
  /\ UNCHANGED <<app, dflt, now, conf, edits, held, crashed>>

\* free_appenders: give() is called through every entry, NULL ones too.
FreeOne(r, n) ==
  /\ stage[r] = "free" /\ n \in DOMAIN local[r].apps
  /\ IF local[r].apps[n] = NULL THEN Crash
     ELSE /\ held' = [held EXCEPT ![r] = [app |-> local[r].apps[n], taken |-> 0]]
          /\ local' = [local EXCEPT ![r].apps = Restrict(@, DOMAIN @ \ {n})]
          /\ Goto(r, "give")
          /\ UNCHANGED <<app, appends, logs, dflt, lock, now, conf, edits, crashed>>
FreeDone(r) ==
  /\ stage[r] = "free" /\ local[r].apps = Empty
  /\ lock' = IF lock = r THEN NULL ELSE lock
  /\ local' = [local EXCEPT ![r] = NoTables]
  /\ Goto(r, "idle")
  /\ UNCHANGED <<app, appends, logs, dflt, now, conf, edits, held, crashed>>

-----------------------------------------------------------------------------
Tick == /\ now < MaxTime /\ now' = now + 1
        /\ UNCHANGED <<app, appends, logs, dflt, lock, conf, edits, stage, held, local, crashed>>
Edit == /\ edits < MaxEdits /\ edits' = edits + 1
        /\ conf' \in Files \ {conf}
        /\ UNCHANGED <<app, appends, logs, dflt, lock, now, stage, held, local, crashed>>

Give(t) == GiveDec(t) \/ GiveTest(t)
Free(r) == FreeDone(r) \/ \E n \in DOMAIN local[r].apps : FreeOne(r, n)
Load(r) == LoadAppenders(r) \/ LoadLoggers(r) \/ LoadDefault(r) \/ Install(r)
Next ==
  /\ ~crashed
  /\ \/ \E t \in Threads : \/ \E n \in LogNames, l \in Levels : Log(t, n, l)
                           \/ WriteTest(t) \/ Write(t) \/ Give(t)
     \/ \E r \in Admins : \/ \E i \in BOOLEAN : Begin(r, i)
                          \/ Load(r) \/ Uninit(r) \/ Free(r) \/ Give(r)
     \/ Tick \/ Edit

\* A logger is destroyed at the end of its statement, and calls of init, reload
\* and uninit run to their end: every thread that is inside a call keeps going.
Fairness ==
  /\ \A t \in Threads : WF_vars(~crashed /\ (WriteTest(t) \/ Write(t) \/ Give(t)))
  /\ \A r \in Admins : WF_vars(~crashed /\ (Free(r) \/ Give(r)))
Spec == Init /\ [][Next]_vars /\ Fairness

-----------------------------------------------------------------------------
\* Who holds a reference: the tables in force or being built or freed, and
\* loggers and give() calls that have not decremented yet.
Owners(a) ==
  {<<"table", n>> : n \in {m \in DOMAIN appends : appends[m] = a}}
  \cup (UNION {{<<r, n>> : n \in {m \in DOMAIN local[r].apps : local[r].apps[m] = a}} : r \in Admins})
  \cup {<<"held", t>> : t \in {u \in Threads \cup Admins : stage[u] \in {"write", "fwrite", "give"} /\ held[u].app = a}}

\* A reload, a failed one too, and an uninit give back exactly what they own:
\* the count of an appender is the number of tables, loggers and pending gives
\* that hold it.  A reference lost is an appender and a file never closed, one
\* too many given is an appender deleted under a logger.
CountExact == ~crashed => \A a \in DOMAIN app : app[a].ref = Cardinality(Owners(a))

\* While threads log through it, an appender lives, however many reloads have
\* replaced the tables since; the loggers in force only use appenders in force.
\* The default logger is the exception once uninit has run.
UsedAlive ==
  /\ \A a \in DOMAIN app : Owners(a) # {} => ~app[a].deleted
  /\ \A n \in DOMAIN logs : logs[n].app \in Range(appends)
  /\ dflt.app # NULL /\ appends # Empty /\ Live(dflt.app) => dflt.app \in Range(appends)

\* An appender's count is right and keeps it alive (elog.cpp:157, :537).
AppendersCounted == CountExact /\ UsedAlive

\* A line of a period goes to the file of that period, or of a later one when
\* another thread turned the file over first: never to an older file.
NoLineInOlderFile == [][\A t \in Threads :
  stage[t] = "fwrite" /\ stage'[t] = "give" => app[held[t].app].file >= held[t].taken]_vars

\* An appender nobody holds any more is deleted and its file closed, unless the
\* race of two gives (or a NULL entry) ends the process first, or uninit has left
\* it in m_default_logger, where a later logger may find it.
EventuallyDeleted == \A a \in 1..MaxApps :
  a \in DOMAIN app /\ Owners(a) = {}
    ~> crashed \/ dflt.app = a \/ (a \in DOMAIN app /\ app[a].deleted)
=============================================================================
