------------------------------ MODULE IPCProvider ------------------------------
(***************************************************************************)
(* IPCProvider.java: a content provider over one SQLite table.  Clients on *)
(* several threads of the application insert, delete and update students,  *)
(* and hold cursors they re-read when told that their URI has changed.     *)
(*                                                                         *)
(* A write changes the database and announces the change afterwards, two   *)
(* steps that calls on other threads can come between.  A cursor reads the *)
(* database after the provider has registered it, not in query itself.     *)
(* SQLite serialises the writes; each is a transaction of its own.         *)
(***************************************************************************)
EXTENDS Integers, FiniteSetsExt

CONSTANTS
  Threads,
  Cursors,
  Names, Grades, \* contents of the two columns of a row that must not be null
  Null,          \* a column set to null in content values
  Absent,        \* a column that content values do not mention
  GivenIds,      \* values clients put into the column _id themselves
  MaxId,         \* the largest row id (2^63-1 in SQLite)
  Values,        \* the content values and
  Selections,    \* the selections that clients pass
  MaxWrites      \* bound: calls that write

ASSUME ContentsAssumption == {Null, Absent} \cap (Names \cup Grades) = {} /\ Null # Absent
ASSUME IdsAssumption == MaxId \in Nat \ {0} /\ GivenIds \subseteq {i \in Int : i <= MaxId}
ASSUME BoundAssumption == MaxWrites \in Nat

VARIABLES
  table,     \* the rows of the table students
  sequence,  \* AUTOINCREMENT's record of the largest id inserted so far
  job,       \* of each thread: whether a change is still to be announced,
             \* its URI, and what its last call returned
  cursor,    \* of each cursor: state, URI, the rows it shows, told of a change
  writes,    \* calls that wrote so far
  issued,    \* history: the ids of the URIs that insert returned
  missed     \* history, of each cursor: since it was last read, a row under its
             \* URI was changed by a call that does not announce that URI

vars == <<table, sequence, job, cursor, writes, issued, missed>>

--------------------------------------------------------------------------------
(* URIs, as uriMatcher sorts them.  "#" matches digits only, and any digits: *)
(* the row id of a URI is their value, while URIs are compared by their text.*)

Spellings == {"plain", "zeros"}  \* zeros: with zeros in front

AllStudents == [match |-> "STUDENTS", id |-> 0, digits |-> "plain"]
Spelled(i, digits) == [match |-> "STUDENT_ID", id |-> i, digits |-> digits]
OtherUri == [match |-> "NO_MATCH", id |-> 0, digits |-> "plain"]

\* The URI that ContentUris.withAppendedId makes.
Student(i) == Spelled(i, "plain")

Uris == {AllStudents} \cup {Spelled(i, digits) : i \in 0 .. MaxId, digits \in Spellings}

\* notifyChange(u) reaches the observers of v (external): those of the same
\* URI, of the directory it is in, and of everything under it.
Reaches(u, v) == u = v \/ u = AllStudents \/ v = AllStudents

\* The row with that id is among those under the URI.
IsUnder(id, uri) == uri = AllStudents \/ (uri.match = "STUDENT_ID" /\ uri.id = id)

--------------------------------------------------------------------------------
(* Content values and selections.  A selection is "name = a OR name = b", or *)
(* "name = a) OR (name = b", which has no meaning but in parentheses: enough *)
(* to see how the text is combined with that of the id.                      *)

AllValues ==
  [name : Names \cup {Null, Absent}, grade : Grades \cup {Null, Absent},
   ids : {{}} \cup {{i} : i \in GivenIds}]

Empty(values) == values.name = Absent /\ values.grade = Absent /\ values.ids = {}

NoSelection == [given |-> FALSE, either |-> {}, or |-> {}, closes |-> FALSE]
AllSelections ==
  {NoSelection} \cup
    {[given |-> TRUE, either |-> {a}, or |-> {b}, closes |-> c] : a, b \in Names, c \in BOOLEAN}

ASSUME InputsAssumption == Values \subseteq AllValues /\ Selections \subseteq AllSelections

\* The statement is SQL: only for one student the code adds the parentheses.
Parses(uri, sel) == sel.closes => uri.match = "STUDENT_ID"

\* Mutant: the selection is not put in parentheses.
Matching_NoParentheses(uri, sel) ==
  {row \in table :
     \/ /\ IsUnder(row.id, uri)
        /\ sel.given => row.name \in sel.either
     \/ sel.given /\ row.name \in sel.or}

\* The rows a WHERE clause selects: the id of the URI AND (the selection).
Matching(uri, sel) ==
  {row \in table :
     \/ ~sel.closes /\ IsUnder(row.id, uri) /\ (sel.given => row.name \in sel.either \cup sel.or)
     \/ sel.closes /\ IsUnder(row.id, uri) /\ row.name \in sel.either
     \/ sel.closes /\ row.name \in sel.or}

Ids(rows) == {row.id : row \in rows}

\* Mutant: INTEGER PRIMARY KEY without AUTOINCREMENT.
NextId_NoAutoincrement == Max({0} \cup Ids(table)) + 1

\* The id SQLite gives a row that comes without one.
NextId == Max({sequence} \cup Ids(table)) + 1

Idle == [pc |-> "idle", uri |-> OtherUri, result |-> "none"]
Closed == [pc |-> "closed", uri |-> OtherUri, rows |-> {}, told |-> FALSE]

Init ==
  /\ table = {} /\ sequence = 0
  /\ job = [t \in Threads |-> Idle]
  /\ cursor = [c \in Cursors |-> Closed]
  /\ writes = 0 /\ issued = {}
  /\ missed = [c \in Cursors |-> FALSE]

--------------------------------------------------------------------------------
(* Calls that write.                                                       *)

Starts(t) == job[t].pc = "idle" /\ writes < MaxWrites /\ writes' = writes + 1

Throws(t, exception) == job' = [job EXCEPT ![t] = [Idle EXCEPT !.result = exception]]

\* The database is changed; the announcement for uri is still to come.
Announces(t, uri) == job' = [job EXCEPT ![t] = [pc |-> "notify", uri |-> uri, result |-> "returned"]]

\* History: rows with these ids were changed by a call that is to announce one
\* student's URI; cursors on another URI of such a row miss it.
MissedBeside(uri, ids) ==
  missed' = [c \in Cursors |->
               \/ missed[c]
               \/ /\ cursor[c].pc = "filled" /\ ~Reaches(uri, cursor[c].uri)
                  /\ \E id \in ids : IsUnder(id, cursor[c].uri)]

\* History: a row was changed by a call that announces nothing.
MissedByAll(id) ==
  missed' = [c \in Cursors |->
               missed[c] \/ (cursor[c].pc = "filled" /\ IsUnder(id, cursor[c].uri))]

\* Mutant: insert announces the URI it was called with.
InsertAnnounces_Given(uri, id) == IF uri = OtherUri THEN Student(id) ELSE uri

\* insert announces the URI of the new row.
InsertAnnounces(uri, id) == Student(id)

\* What insert takes for a success.
Added(id) == id > 0

\* insert does not match the URI.  SQLite refuses a row without name or grade,
\* an id in use, and a new id past the largest.
Insert(t, uri, values) ==
  LET id == IF values.ids = {} THEN NextId ELSE CHOOSE i \in values.ids : TRUE
      refused == \/ values.name \notin Names \/ values.grade \notin Grades
                 \/ id \in Ids(table) \/ id > MaxId
  IN  /\ Starts(t)
      /\ \/ /\ refused
            /\ Throws(t, "SQLException")
            /\ UNCHANGED <<table, sequence, issued, missed>>
         \/ /\ ~refused
            /\ table' = table \cup {[id |-> id, name |-> values.name, grade |-> values.grade]}
            /\ sequence' = Max({sequence, id})
            /\ IF Added(id)
               THEN /\ Announces(t, InsertAnnounces(uri, id))
                    /\ issued' = issued \cup {id}
                    /\ MissedBeside(Student(id), {id})
               ELSE /\ Throws(t, "SQLException")
                    /\ MissedByAll(id)
                    /\ UNCHANGED issued
      /\ UNCHANGED cursor

\* delete and update are refused: the URI, or the SQL.
Refused(t, uri, sel) ==
  /\ \/ uri = OtherUri /\ Throws(t, "IllegalArgumentException")
     \/ uri # OtherUri /\ ~Parses(uri, sel) /\ Throws(t, "SQLException")
  /\ UNCHANGED <<table, missed>>

\* Mutant: the announcement is made in the branch for one student only.
Delete_OneOnly(t, uri, sel) ==
  /\ Starts(t)
  /\ \/ Refused(t, uri, sel)
     \/ /\ uri \in Uris /\ Parses(uri, sel)
        /\ table' = table \ Matching(uri, sel)
        /\ MissedBeside(uri, Ids(Matching(uri, sel)))
        /\ IF uri.match = "STUDENT_ID"
           THEN Announces(t, uri)
           ELSE job' = [job EXCEPT ![t] = [Idle EXCEPT !.result = "returned"]]
  /\ UNCHANGED <<sequence, cursor, issued>>

Delete(t, uri, sel) ==
  /\ Starts(t)
  /\ \/ Refused(t, uri, sel)
     \/ /\ uri \in Uris /\ Parses(uri, sel)
        /\ table' = table \ Matching(uri, sel)
        /\ MissedBeside(uri, Ids(Matching(uri, sel)))
        /\ Announces(t, uri)
  /\ UNCHANGED <<sequence, cursor, issued>>

\* A row after the columns that are mentioned have been set.
Changed(row, values) ==
  [id    |-> IF values.ids = {} THEN row.id ELSE CHOOSE i \in values.ids : TRUE,
   name  |-> IF values.name = Absent THEN row.name ELSE values.name,
   grade |-> IF values.grade = Absent THEN row.grade ELSE values.grade]

\* The rows hit get the columns that are mentioned; without any the call is
\* refused.  SQLite refuses an id for two rows, an id in use, and null for the
\* name or grade of a row.  A change of the id leaves AUTOINCREMENT's record alone.
Update(t, uri, values, sel) ==
  LET hit == Matching(uri, sel)
      moves == values.ids # {} /\ hit # {}
      conflict == \/ Null \in {values.name, values.grade} /\ hit # {}
                  \/ moves /\ ((\E row, other \in hit : row # other) \/ values.ids \cap Ids(table \ hit) # {})
  IN  /\ Starts(t)
      /\ \/ (uri = OtherUri \/ ~Empty(values)) /\ Refused(t, uri, sel)
         \/ /\ uri \in Uris /\ Empty(values)
            /\ Throws(t, "IllegalArgumentException") /\ UNCHANGED <<table, missed>>
         \/ /\ uri \in Uris /\ ~Empty(values) /\ Parses(uri, sel) /\ conflict
            /\ Throws(t, "SQLException") /\ UNCHANGED <<table, missed>>
         \/ /\ uri \in Uris /\ ~Empty(values) /\ Parses(uri, sel) /\ ~conflict
            /\ table' = (table \ hit) \cup {Changed(row, values) : row \in hit}
            /\ MissedBeside(uri, Ids(hit) \cup (IF moves THEN values.ids ELSE {}))
            /\ Announces(t, uri)
      /\ UNCHANGED <<sequence, cursor, issued>>

\* The second half of a successful write: notifyChange, and the call returns.
Notify(t) ==
  /\ job[t].pc = "notify"
  /\ cursor' = [c \in Cursors |->
                  IF cursor[c].pc # "closed" /\ Reaches(job[t].uri, cursor[c].uri)
                  THEN [cursor[c] EXCEPT !.told = TRUE] ELSE cursor[c]]
  /\ job' = [job EXCEPT ![t] = [Idle EXCEPT !.result = "returned"]]
  /\ UNCHANGED <<table, sequence, writes, issued, missed>>

--------------------------------------------------------------------------------
(* Cursors.                                                                *)

\* The rows behind a URI.
Answer(uri) == Matching(uri, NoSelection)

\* query: the cursor is registered for the URI of the call and returned; a URI
\* of no student is refused.
Query(c, uri) ==
  /\ cursor[c].pc = "closed"
  /\ uri \in Uris
  /\ cursor' = [cursor EXCEPT ![c] = [Closed EXCEPT !.pc = "open", !.uri = uri]]
  /\ UNCHANGED <<table, sequence, job, writes, issued, missed>>

\* The cursor reads its rows for the first time (external).
Fill(c) ==
  /\ cursor[c].pc = "open"
  /\ cursor' = [cursor EXCEPT ![c].pc = "filled", ![c].rows = Answer(cursor[c].uri)]
  /\ UNCHANGED <<table, sequence, job, writes, issued, missed>>

\* A client that was told of a change reads again (external).
Refresh(c) ==
  /\ cursor[c].pc = "filled" /\ cursor[c].told
  /\ cursor' = [cursor EXCEPT ![c].told = FALSE, ![c].rows = Answer(cursor[c].uri)]
  /\ missed' = [missed EXCEPT ![c] = FALSE]
  /\ UNCHANGED <<table, sequence, job, writes, issued>>

Close(c) ==
  /\ cursor[c].pc # "closed"
  /\ cursor' = [cursor EXCEPT ![c] = Closed]
  /\ missed' = [missed EXCEPT ![c] = FALSE]
  /\ UNCHANGED <<table, sequence, job, writes, issued>>

\* The process dies and starts again: the calls under way and the cursors are
\* gone; onCreate opens the database that is there.
Restart ==
  /\ job' = [t \in Threads |-> Idle]
  /\ cursor' = [c \in Cursors |-> Closed]
  /\ missed' = [c \in Cursors |-> FALSE]
  /\ UNCHANGED <<table, sequence, writes, issued>>

Next ==
  \/ \E t \in Threads, uri \in Uris \cup {OtherUri} :
       \/ \E values \in Values : Insert(t, uri, values)
       \/ \E sel \in Selections : Delete(t, uri, sel)
       \/ \E values \in Values, sel \in Selections : Update(t, uri, values, sel)
  \/ \E t \in Threads : Notify(t)
  \/ \E c \in Cursors, uri \in Uris : Query(c, uri)
  \/ \E c \in Cursors : Fill(c) \/ Refresh(c) \/ Close(c)
  \/ Restart

Spec == Init /\ [][Next]_vars

\* A write goes on to its announcement, a client reads when it is told to.
Fairness ==
  /\ \A t \in Threads : WF_vars(Notify(t))
  /\ \A c \in Cursors : WF_vars(Fill(c)) /\ WF_vars(Refresh(c))
FairSpec == Spec /\ Fairness

--------------------------------------------------------------------------------

Row == [id : GivenIds \cup 1 .. MaxId, name : Names, grade : Grades]

\* Types, and the key of the table.
TypeOK ==
  /\ table \subseteq Row
  /\ \A row, other \in table : row.id = other.id => row = other
  /\ sequence \in 0 .. MaxId
  /\ job \in [Threads -> [pc : {"idle", "notify"}, uri : Uris \cup {OtherUri},
                          result : {"none", "returned", "SQLException", "IllegalArgumentException"}]]
  /\ cursor \in [Cursors -> [pc : {"closed", "open", "filled"}, uri : Uris \cup {OtherUri},
                             rows : SUBSET Row, told : BOOLEAN]]
  /\ writes \in 0 .. MaxWrites
  /\ issued \subseteq 1 .. MaxId
  /\ missed \in [Cursors -> BOOLEAN]

\* The cursor has been told of a change, or some call is about to tell it.
NoticeOnItsWay(c) ==
  \/ cursor[c].told
  \/ \E t \in Threads : job[t].pc = "notify" /\ Reaches(job[t].uri, cursor[c].uri)

UpToDate(c) == cursor[c].rows = Answer(cursor[c].uri)

\* A cursor without a notice on its way shows the rows of the table: no change
\* falls between registration and first reading, and every write is announced
\* after it was made (IPCProvider.java:117-122, 158, 186 and 207).  Left out are
\* only the changes that the code announces elsewhere or nowhere: a row inserted
\* under an id below 1, and, for a cursor on one student, what is done to its
\* row through a URI of another student, or of the same one spelled otherwise
\* (students/01): insert names the row without zeros in front, delete and update
\* name it as their caller does.
FreshUnlessMissed ==
  \A c \in Cursors :
    cursor[c].pc = "filled" /\ ~NoticeOnItsWay(c) /\ ~missed[c] => UpToDate(c)

\* A call that is addressed to one student and changes another row was given a
\* selection that closes a parenthesis it has not opened: any other selection
\* only narrows what the URI says, since the code puts it in parentheses
\* (IPCProvider.java:178-179, 201-202).
OnlyAddressed ==
  [][\A t \in Threads :
       LET uri == job'[t].uri IN
       /\ job[t].pc = "idle" /\ job'[t].pc = "notify" /\ uri.match = "STUDENT_ID"
       /\ ~({row \in table : row.id # uri.id} \subseteq table')
       => \A sel \in Selections :
            Delete(t, uri, sel) \/ (\E values \in Values : Update(t, uri, values, sel))
            => sel.closes]_vars

\* The id of a URI that insert has returned is not given to another student by
\* SQLite, even when the first is long deleted and the process has been
\* restarted (IPCProvider.java:55).
NextIdIsFresh == NextId \notin issued

\* A cursor that is stale gets the present rows, unless it is closed or missed a
\* change of the kinds above.
CatchesUp ==
  \A c \in Cursors :
    cursor[c].pc = "filled" /\ ~UpToDate(c) ~>
      cursor[c].pc = "closed" \/ UpToDate(c) \/ missed[c]

\* "Failed to add a record into" (IPCProvider.java:164): when insert says that
\* it failed, the table is what it was.
FailedAddsNothing ==
  [][\A t \in Threads :
       job'[t] # job[t] /\ job'[t].result = "SQLException" => table' = table]_vars
================================================================================
