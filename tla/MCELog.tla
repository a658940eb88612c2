------------------------------- MODULE MCELog -------------------------------
EXTENDS ELog
A(n, k) == [name |-> n, kind |-> k]
L(n, l, a) == [name |-> n, level |-> l, app |-> a]
Good == [apps |-> <<A("f", "file")>>, appsOk |-> TRUE, logs |-> <<L("x", 1, "f")>>, logsOk |-> TRUE, dflt |-> NULL]
Other == [apps |-> <<A("f", "file")>>, appsOk |-> TRUE, logs |-> <<>>, logsOk |-> TRUE, dflt |-> [level |-> 0, app |-> "f"]]
\* The second logger names an appender that is not there.
Missing == [apps |-> <<A("f", "other")>>, appsOk |-> TRUE, logs |-> <<L("x", 0, "f"), L("y", 0, "g")>>, logsOk |-> TRUE, dflt |-> NULL]
\* The second appender or the second logger lacks a field.
CutAppender == [apps |-> <<A("f", "file")>>, appsOk |-> FALSE, logs |-> <<>>, logsOk |-> TRUE, dflt |-> NULL]
CutLogger == [apps |-> <<A("f", "file")>>, appsOk |-> TRUE, logs |-> <<L("x", 0, "f")>>, logsOk |-> FALSE, dflt |-> [level |-> 0, app |-> "g"]]
MCFiles == {Good, Other, Missing, CutAppender, CutLogger}
ASSUME FilesAreRight == NamesDistinct
=============================================================================
