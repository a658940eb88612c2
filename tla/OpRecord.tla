------------------------------ MODULE OpRecord ------------------------------
(***************************************************************************)
(* The records of eq::eq_imp's log files, byte by byte: save_op_to_buf and *)
(* load_op_from_buf, the length in front of each record, and a write that  *)
(* is cut off in one.  EQueue takes a record for one element that is in    *)
(* the file or not: here is why it may.  A number read from bytes that are *)
(* not those of one may be any number: what is loaded is a set of outcomes.*)
(***************************************************************************)
EXTENDS Integers, Sequences, FiniteSets, SequencesExt

CONSTANTS Ops,         \* of records [m_cmd, m_op_id, m_log_file_id, m_id, m_cont]
          MaxRecords   \* bound of the model

VARIABLES logfile,     \* bytes: [v |-> the value they belong to, i |-> the place in it]
          saved,       \* the records written whole
          cutAt        \* the number of records whole when one was cut, if one was

recVars == <<logfile, saved, cutAt>>

IntSize == 4
Int64Size == 8
Header == 4 + 8 + 4 + 8 + 4
Garbled == -1            \* stands for any number
Failed == [m_cmd |-> -1]
Threw == [m_cmd |-> -2]  \* std::length_error: init does not catch it

BytesOf(v, w) == [i \in 1..w |-> [v |-> v, i |-> i]]

\* The w bytes behind p as a number, if they are those of one.
Read(buf, p, w) == IF \A i \in 1..w : buf[p + i] = [v |-> buf[p + 1].v, i |-> i]
                   THEN buf[p + 1].v ELSE Garbled

save_op_to_buf(o) ==
  BytesOf(o.m_cmd, IntSize) \o BytesOf(o.m_op_id, Int64Size) \o BytesOf(o.m_log_file_id, IntSize)
  \o BytesOf(o.m_id, Int64Size) \o BytesOf(Len(o.m_cont), IntSize) \o FlattenSeq([k \in DOMAIN o.m_cont |-> BytesOf(o.m_cont[k], 1)])

\* A length that is read where up to room bytes are: any, if it is garbled, a
\* negative one and one too long among them.
AnyLength(buf, p, room) == LET n == Read(buf, p, IntSize)
                           IN  IF n = Garbled THEN -1..(room + 1) ELSE {n}

\* What is left over is not an error; append throws for a negative length.
load_op_from_buf(buf) ==
  IF Len(buf) < Header THEN {Failed}
  ELSE {IF n < 0 THEN Threw
        ELSE IF Len(buf) - Header < n THEN Failed
        ELSE [m_cmd |-> Read(buf, 0, IntSize), m_op_id |-> Read(buf, 4, Int64Size),
              m_log_file_id |-> Read(buf, 12, IntSize), m_id |-> Read(buf, 16, Int64Size),
              m_cont |-> [k \in 1..n |-> Read(buf, Header + k - 1, 1)]] :
          n \in AnyLength(buf, 24, Len(buf) - Header)}

\* Mutant: the length is that of the buffer, which has room for padding.
RecordPadded(o) == LET b == save_op_to_buf(o) IN BytesOf(Len(b) + 8, IntSize) \o b
Record(o) == LET b == save_op_to_buf(o) IN BytesOf(Len(b), IntSize) \o b

\* The loop of load_one_bin_log_file: it ends at the first length, record or
\* op that is not there whole (fread of nothing counts as nothing read), or with
\* an exception: record.resize throws for a negative length.
Ends == [ops |-> <<>>, throws |-> FALSE]
Throws == [ops |-> <<>>, throws |-> TRUE]
Then(o, rest) == [rest EXCEPT !.ops = <<o>> \o @]

LoadFile(f) ==
  LET From[p \in 0..Len(f)] ==
        LET room == Len(f) - p - IntSize
            After(n, o) == IF o = Threw THEN {Throws}
                           ELSE IF o = Failed THEN {Ends}
                           ELSE {Then(o, rest) : rest \in From[p + IntSize + n]}
            Rec(n) == IF n < 0 THEN {Throws}
                      ELSE IF n = 0 \/ n > room THEN {Ends}
                      ELSE UNION {After(n, o) :
                                    o \in load_op_from_buf(SubSeq(f, p + IntSize + 1, p + IntSize + n))}
        IN  IF room < 0 THEN {Ends} ELSE UNION {Rec(n) : n \in AnyLength(f, p, room)}
  IN  From[0]

RecInit == logfile = <<>> /\ saved = <<>> /\ cutAt = {}

SaveOp(o) == /\ Len(saved) < MaxRecords
             /\ logfile' = logfile \o Record(o)
             /\ saved' = Append(saved, o)
             /\ UNCHANGED cutAt

\* fwrite fails, or the process dies, with n bytes in the file: after a death
\* the next start opens a file of its own, after a failure the same file is
\* written on.
WriteCut(o) == \E n \in 1..(Len(Record(o)) - 1) :
  /\ cutAt = {}
  /\ logfile' = logfile \o SubSeq(Record(o), 1, n)
  /\ cutAt' = {Len(saved)}
  /\ UNCHANGED saved

RecNext == \E o \in Ops : SaveOp(o) \/ WriteCut(o)
-----------------------------------------------------------------------------
\* equeue_imp.cpp:173: wherever a write was cut off, a start that reads the log
\* loads the records written whole before the cut, all of them and in order, and
\* nothing else unless something was written behind it; then it may load what was
\* never saved, or throw.
RecordsWhole ==
  LET cut == IF cutAt = {} THEN Len(saved) ELSE CHOOSE n \in cutAt : TRUE
  IN  IF cut = Len(saved) THEN LoadFile(logfile) = {[ops |-> saved, throws |-> FALSE]}
      ELSE \A l \in LoadFile(logfile) :
              cut <= Len(l.ops) /\ SubSeq(l.ops, 1, cut) = SubSeq(saved, 1, cut)

\* What a start takes for granted, and a record behind a part of one breaks.
LogCanBeRead == \A l \in LoadFile(logfile) : ~l.throws
=============================================================================
