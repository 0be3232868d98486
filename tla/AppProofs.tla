------------------------------- MODULE AppProofs -------------------------------
(***************************************************************************)
(* Proofs about the content provider: the table is typed and keyed by _id, *)
(* a fresh id is fresh for good, a write that is addressed to one student  *)
(* leaves the others alone, and a cursor that nobody is about to tell      *)
(* shows what the table holds.  And about the file demos: the file holds   *)
(* what was compressed, in order.                                          *)
(***************************************************************************)
EXTENDS IPCProvider, DemoFiles, WellFoundedInduction, SequenceTheorems, TLAPS

(***************************************************************************)
(* The ids that NextId takes the largest of may be infinitely many for the *)
(* provers, so that there is a largest one has to be shown.                *)
(***************************************************************************)

\* A set of natural numbers that is not empty has a least element.
LEMMA LeastNat ==
  ASSUME NEW S \in SUBSET Nat, S # {}
  PROVE  \E n \in S : \A m \in S : n <= m
<1> DEFINE R == OpToRel(<, Nat)
<1>1. IsWellFoundedOn(R, Nat)
  BY NatLessThanWellFounded, PTL
<1>2. \A x, y \in Nat : x < y => <<x, y>> \in R
  BY SMT DEF OpToRel
<1> HIDE DEF R
<1>3. PICK x \in S : \A y \in S : <<y, x>> \notin R
  BY <1>1, WFMin, Zenon
<1>4. \A y \in S : ~ (y < x)
  BY <1>2, <1>3
<1> QED
  BY <1>4

\* A set of integers that is not empty and has a bound has a largest element,
\* and Max is it.
LEMMA MaxIsLargest ==
  ASSUME NEW S \in SUBSET Int, S # {}, NEW b \in Int, \A i \in S : i <= b
  PROVE  Max(S) \in S /\ \A i \in S : i <= Max(S)
<1> DEFINE Gaps == {b - i : i \in S}
<1>1. PICK g \in Gaps : \A h \in Gaps : g <= h
  <2>1. \A i \in S : b - i \in Nat
    OBVIOUS
  <2>2. Gaps \in SUBSET Nat
    BY <2>1
  <2>3. Gaps # {}
    OBVIOUS
  <2> HIDE DEF Gaps
  <2> QED
    BY <2>2, <2>3, LeastNat
<1>2. PICK k \in S : g = b - k
  OBVIOUS
<1>3. \A i \in S : k >= i
  <2> SUFFICES ASSUME NEW i \in S PROVE k >= i
    OBVIOUS
  <2>1. b - i \in Gaps
    OBVIOUS
  <2>2. b - k <= b - i
    BY <1>1, <1>2, <2>1
  <2> QED
    BY <2>2
<1>4. \E x \in S : \A y \in S : x >= y
  BY <1>3
<1>5. Max(S) \in S /\ \A y \in S : Max(S) >= y
  BY <1>4 DEF Max
<1> QED
  BY <1>5

--------------------------------------------------------------------------------

\* Where the proofs of all four results start.
Registered ==
  /\ \A c \in Cursors : cursor[c].pc # "closed" => cursor[c].uri \in Uris
  /\ \A t \in Threads : job[t].pc = "notify" => job[t].uri \in Uris

Recorded == \A i \in issued : i <= sequence

IInv == TypeOK /\ Registered /\ Recorded

\* The id of a row is a number in the range of the type.
LEMMA RowIds ==
  \A row \in Row :
    row.id \in Int /\ row.id <= MaxId /\ row.name \in Names /\ row.grade \in Grades
<1>1. \A i \in GivenIds \cup 1 .. MaxId : i \in Int /\ i <= MaxId
  BY IdsAssumption
<1> QED
  BY <1>1 DEF Row

\* A WHERE clause for one student selects no row of another, if its selection
\* closes no parenthesis too many.
LEMMA MatchingRows ==
  ASSUME NEW uri, NEW sel
  PROVE  /\ Matching(uri, sel) \subseteq table
         /\ ~sel.closes => \A row \in Matching(uri, sel) : IsUnder(row.id, uri)
BY DEF Matching

\* The rows that a cursor on the URI reads.
LEMMA AnswerRows ==
  ASSUME NEW uri
  PROVE  Answer(uri) = {row \in table : IsUnder(row.id, uri)}
BY DEF Answer, Matching, NoSelection

\* The id of a new row is beyond every id in the table and every id recorded.
LEMMA NextIdIsBeyond ==
  ASSUME TypeOK
  PROVE  /\ NextId \in Int /\ NextId > sequence /\ NextId > 0
         /\ \A i \in Ids(table) : i < NextId
<1> DEFINE S == {sequence} \cup Ids(table)
<1>1. S \in SUBSET Int /\ sequence \in S /\ \A i \in S : i <= MaxId
  <2>1. sequence \in Int /\ sequence <= MaxId
    BY IdsAssumption DEF TypeOK
  <2>2. \A row \in table : row.id \in Int /\ row.id <= MaxId
    BY RowIds DEF TypeOK
  <2> QED
    BY <2>1, <2>2 DEF Ids
<1>2. MaxId \in Int
  BY IdsAssumption
<1> HIDE DEF S
<1>3. Max(S) \in S /\ \A i \in S : i <= Max(S)
  BY <1>1, <1>2, MaxIsLargest
<1>4. NextId = Max(S) + 1 /\ Ids(table) \subseteq S
  BY DEF NextId, S
<1>5. sequence \in Nat
  BY DEF TypeOK
<1>6. Max(S) \in Int /\ sequence <= Max(S)
  BY <1>1, <1>3
<1>7. \A i \in Ids(table) : i \in Int /\ i <= Max(S)
  BY <1>1, <1>3, <1>4
<1> HIDE DEF S
<1> QED
  BY <1>4, <1>5, <1>6, <1>7

--------------------------------------------------------------------------------
(* The invariant, one lemma for each action.                               *)

\* The process starts with an empty table and nothing registered.
LEMMA InitInv == Init => IInv
<1> SUFFICES ASSUME Init PROVE IInv
  OBVIOUS
<1>1. sequence \in 0 .. MaxId /\ writes \in 0 .. MaxWrites
  BY IdsAssumption, BoundAssumption DEF Init
<1> QED
  BY <1>1 DEF Init, IInv, TypeOK, Registered, Recorded, Idle, Closed

\* What a call of a thread that was idle leaves of the threads' types.
LEMMA JobTyping ==
  ASSUME TypeOK, NEW t \in Threads, NEW uri \in Uris, NEW exception,
         exception \in {"returned", "SQLException", "IllegalArgumentException"},
         Throws(t, exception) \/ Announces(t, uri)
  PROVE  /\ job' \in [Threads -> [pc : {"idle", "notify"}, uri : Uris \cup {OtherUri},
                                  result : {"none", "returned", "SQLException", "IllegalArgumentException"}]]
         /\ \A s \in Threads \ {t} : job'[s] = job[s]
         /\ job'[t].pc = "notify" => job'[t].uri \in Uris
BY DEF TypeOK, Throws, Announces, Idle

\* What a call says of the cursors that miss its change is typed.
LEMMA MissedTyping ==
  ASSUME TypeOK, NEW uri, NEW ids, NEW id,
         MissedBeside(uri, ids) \/ MissedByAll(id) \/ UNCHANGED missed
  PROVE  /\ missed' \in [Cursors -> BOOLEAN]
         /\ \A c \in Cursors : ~missed'[c] => ~missed[c]
<1>1. missed \in [Cursors -> BOOLEAN]
  BY DEF TypeOK
<1>2. CASE MissedBeside(uri, ids)
  BY <1>1, <1>2, ZenonT(40) DEF MissedBeside
<1>3. CASE MissedByAll(id)
  BY <1>1, <1>3, ZenonT(40) DEF MissedByAll
<1>4. CASE UNCHANGED missed
  BY <1>1, <1>4
<1> QED
  BY <1>2, <1>3, <1>4

\* insert: a row without an id gets one beyond all the others, and an id from
\* the client is not in use.
LEMMA InsertInv ==
  ASSUME IInv, NEW t \in Threads, NEW uri, NEW values \in Values, Insert(t, uri, values)
  PROVE  IInv'
<1> DEFINE id == IF values.ids = {} THEN NextId ELSE CHOOSE i \in values.ids : TRUE
           refused == \/ values.name \notin Names \/ values.grade \notin Grades
                      \/ id \in Ids(table) \/ id > MaxId
           new == [id |-> id, name |-> values.name, grade |-> values.grade]
<1>1. TypeOK /\ Registered /\ Recorded
  BY DEF IInv
<1>2. writes' \in 0 .. MaxWrites
  BY <1>1, BoundAssumption DEF Insert, Starts, TypeOK
<1>3. CASE refused
  <2>1. Throws(t, "SQLException") /\ UNCHANGED <<table, sequence, issued, missed, cursor>>
    BY <1>3 DEF Insert
  <2>2. AllStudents \in Uris
    BY DEF Uris
  <2> QED
    BY <1>1, <1>2, <2>1, <2>2, JobTyping DEF IInv, TypeOK, Registered, Recorded
<1>4. CASE ~refused
  <2>1. id \in Int /\ (id \in GivenIds \/ id > 0) /\ id <= MaxId /\ id \notin Ids(table)
    <3>1. CASE values.ids = {}
      <4>1. id = NextId
        BY <3>1
      <4>2. NextId \in Int /\ NextId > 0
        BY <1>1, NextIdIsBeyond
      <4>3. id \notin Ids(table) /\ ~ (id > MaxId)
        BY <1>4
      <4> HIDE DEF id
      <4> QED
        BY <4>1, <4>2, <4>3, IdsAssumption
    <3>2. CASE values.ids # {}
      <4>1. values.ids \in {{i} : i \in GivenIds}
        BY <3>2, InputsAssumption DEF AllValues
      <4>2. id \in GivenIds
        BY <3>2, <4>1
      <4> QED
        BY <1>4, <4>2, IdsAssumption
    <3> QED
      BY <3>1, <3>2
  <2>2. values.name \in Names /\ values.grade \in Grades
    BY <1>4
  <2>3. /\ table' = table \cup {new} /\ sequence' = Max({sequence, id})
        /\ IF Added(id)
           THEN Announces(t, Student(id)) /\ issued' = issued \cup {id}
           ELSE Throws(t, "SQLException") /\ UNCHANGED issued
        /\ MissedBeside(Student(id), {id}) \/ MissedByAll(id)
        /\ UNCHANGED cursor
    BY <1>4 DEF Insert, InsertAnnounces
  <2> HIDE DEF id, refused
  <2>4. new \in Row
    BY <2>1, <2>2, IdsAssumption DEF Row
  <2>5. \A row, other \in table' : row.id = other.id => row = other
    BY <1>1, <2>1, <2>3 DEF TypeOK, Ids
  <2>6. sequence' \in 0 .. MaxId /\ sequence' >= sequence /\ sequence' >= id
    <3>1. sequence \in 0 .. MaxId /\ MaxId \in Int
      BY <1>1, IdsAssumption DEF TypeOK
    <3>2. {sequence, id} \in SUBSET Int /\ \A i \in {sequence, id} : i <= MaxId
      BY <2>1, <3>1
    <3> QED
      BY <2>1, <2>3, <3>1, <3>2, MaxIsLargest
  <2>7. issued' \subseteq 1 .. MaxId /\ \A i \in issued' : i <= sequence'
    <3>1. issued \subseteq 1 .. MaxId /\ sequence \in Int /\ MaxId \in Int
      BY <1>1, IdsAssumption DEF TypeOK
    <3>2. \A i \in issued : i \in 1 .. MaxId /\ i <= sequence'
      BY <1>1, <2>6, <3>1 DEF Recorded
    <3>3. Added(id) => id \in 1 .. MaxId /\ id <= sequence'
      BY <2>1, <2>6, <3>1 DEF Added
    <3> QED
      BY <2>3, <3>2, <3>3
  <2>8. missed' \in [Cursors -> BOOLEAN]
    BY <1>1, <2>3, MissedTyping
  <2>9. /\ job' \in [Threads -> [pc : {"idle", "notify"}, uri : Uris \cup {OtherUri},
                                  result : {"none", "returned", "SQLException", "IllegalArgumentException"}]]
        /\ \A s \in Threads : job'[s].pc = "notify" => job'[s].uri \in Uris
    <3>1. CASE Added(id)
      <4>1. Student(id) \in Uris
        BY <2>1, <3>1, IdsAssumption DEF Added, Uris, Student, Spellings
      <4> QED
        BY <1>1, <2>3, <3>1, <4>1, JobTyping DEF Registered
    <3>2. CASE ~ Added(id)
      <4>1. AllStudents \in Uris
        BY DEF Uris
      <4> QED
        BY <1>1, <2>3, <3>2, <4>1, JobTyping DEF Registered
    <3> QED
      BY <3>1, <3>2
  <2> QED
    BY <1>1, <1>2, <2>3, <2>4, <2>5, <2>6, <2>7, <2>8, <2>9 DEF IInv, TypeOK, Registered, Recorded
<1> QED
  BY <1>3, <1>4

\* delete takes rows away.
LEMMA DeleteInv ==
  ASSUME IInv, NEW t \in Threads, NEW uri, NEW sel, Delete(t, uri, sel)
  PROVE  IInv'
<1>1. TypeOK /\ Registered /\ Recorded
  BY DEF IInv
<1>2. writes' \in 0 .. MaxWrites
  BY <1>1, BoundAssumption DEF Delete, Starts, TypeOK
<1>3. /\ table' \subseteq table /\ UNCHANGED <<sequence, cursor, issued>>
      /\ missed' \in [Cursors -> BOOLEAN]
  BY <1>1, MissedTyping DEF Delete, Refused
<1>4. /\ job' \in [Threads -> [pc : {"idle", "notify"}, uri : Uris \cup {OtherUri},
                                result : {"none", "returned", "SQLException", "IllegalArgumentException"}]]
      /\ \A s \in Threads : job'[s].pc = "notify" => job'[s].uri \in Uris
  <2>1. AllStudents \in Uris
    BY DEF Uris
  <2>2. \/ Throws(t, "IllegalArgumentException") \/ Throws(t, "SQLException")
        \/ (uri \in Uris /\ Announces(t, uri))
    BY DEF Delete, Refused
  <2> QED
    BY <1>1, <2>1, <2>2, JobTyping DEF Registered
<1> QED
  BY <1>1, <1>2, <1>3, <1>4 DEF IInv, TypeOK, Registered, Recorded

\* update: rows keep their ids or, one row only, get an id nobody else has.
LEMMA UpdateInv ==
  ASSUME IInv, NEW t \in Threads, NEW uri, NEW values \in Values, NEW sel,
         Update(t, uri, values, sel)
  PROVE  IInv'
<1> DEFINE hit == Matching(uri, sel)
           new == {Changed(row, values) : row \in hit}
<1>1. TypeOK /\ Registered /\ Recorded
  BY DEF IInv
<1>2. writes' \in 0 .. MaxWrites
  BY <1>1, BoundAssumption DEF Update, Starts, TypeOK
<1>3. UNCHANGED <<sequence, cursor, issued>>
  BY DEF Update
<1>4. /\ job' \in [Threads -> [pc : {"idle", "notify"}, uri : Uris \cup {OtherUri},
                                result : {"none", "returned", "SQLException", "IllegalArgumentException"}]]
      /\ \A s \in Threads : job'[s].pc = "notify" => job'[s].uri \in Uris
  <2>1. AllStudents \in Uris
    BY DEF Uris
  <2>2. \/ Throws(t, "IllegalArgumentException") \/ Throws(t, "SQLException")
        \/ (uri \in Uris /\ Announces(t, uri))
    BY DEF Update, Refused
  <2> QED
    BY <1>1, <2>1, <2>2, JobTyping DEF Registered
<1>5. /\ values.ids = {} \/ \E i \in GivenIds : values.ids = {i}
      /\ values.name \in Names \cup {Null, Absent} /\ values.grade \in Grades \cup {Null, Absent}
  BY InputsAssumption DEF AllValues
<1>6. missed' \in [Cursors -> BOOLEAN]
  BY <1>1, MissedTyping DEF Update, Refused
<1>7. /\ table' \subseteq Row
      /\ \A row, other \in table' : row.id = other.id => row = other
  <2>1. CASE UNCHANGED table
    BY <1>1, <2>1 DEF TypeOK
  <2>2. CASE ~ UNCHANGED table
    <3>1. /\ table' = (table \ hit) \cup new
          /\ Null \in {values.name, values.grade} => hit = {}
          /\ values.ids # {} /\ hit # {} =>
               (\A row, other \in hit : row = other) /\ values.ids \cap Ids(table \ hit) = {}
      BY <2>2 DEF Update, Refused
    <3>2. hit \subseteq table
      BY MatchingRows
    <3> HIDE DEF hit
    <3>3. \A row \in hit :
            /\ Changed(row, values) \in Row
            /\ Changed(row, values).id = IF values.ids = {} THEN row.id ELSE CHOOSE i \in values.ids : TRUE
      <4> SUFFICES ASSUME NEW row \in hit
                   PROVE  /\ Changed(row, values) \in Row
                          /\ Changed(row, values).id = IF values.ids = {} THEN row.id
                                                       ELSE CHOOSE i \in values.ids : TRUE
        OBVIOUS
      <4>1. row.id \in GivenIds \cup 1 .. MaxId /\ row.name \in Names /\ row.grade \in Grades
        BY <1>1, <3>2 DEF TypeOK, Row
      <4>2. values.name # Null /\ values.grade # Null
        BY <3>1
      <4>3. values.ids # {} => (CHOOSE i \in values.ids : TRUE) \in GivenIds
        BY <1>5
      <4> QED
        BY <1>5, <4>1, <4>2, <4>3 DEF Changed, Row
    <3>4. \A row \in table \ hit : row.id \in Ids(table \ hit)
      BY DEF Ids
    <3>5. \A row, other \in new : row.id = other.id => row = other
      <4> SUFFICES ASSUME NEW row \in hit, NEW other \in hit,
                          Changed(row, values).id = Changed(other, values).id
                   PROVE  row = other
        OBVIOUS
      <4>1. CASE values.ids = {}
        BY <1>1, <3>2, <3>3, <4>1 DEF TypeOK
      <4>2. CASE values.ids # {}
        BY <3>1, <4>2
      <4> QED
        BY <4>1, <4>2
    <3>6. \A row \in table \ hit, other \in new : row.id # other.id
      <4> SUFFICES ASSUME NEW row \in table \ hit, NEW other \in hit
                   PROVE  row.id # Changed(other, values).id
        OBVIOUS
      <4>1. CASE values.ids = {}
        BY <1>1, <3>2, <3>3, <4>1 DEF TypeOK
      <4>2. CASE values.ids # {}
        <5>1. (CHOOSE i \in values.ids : TRUE) \in values.ids
          BY <4>2
        <5> QED
          BY <3>1, <3>3, <3>4, <4>2, <5>1
      <4> QED
        BY <4>1, <4>2
    <3>7. new \subseteq Row
      BY <3>3
    <3> HIDE DEF new
    <3>8. \A row, other \in table \ hit : row.id = other.id => row = other
      BY <1>1 DEF TypeOK
    <3> QED
      BY <1>1, <3>1, <3>5, <3>6, <3>7, <3>8 DEF TypeOK
  <2> QED
    BY <2>1, <2>2
<1> QED
  BY <1>1, <1>2, <1>3, <1>4, <1>6, <1>7 DEF IInv, TypeOK, Registered, Recorded

\* The announcement: the call returns, and cursors are told.
LEMMA NotifyInv ==
  ASSUME IInv, NEW t \in Threads, Notify(t)
  PROVE  IInv'
<1>1. TypeOK /\ Registered /\ Recorded
  BY DEF IInv
<1>2. UNCHANGED <<table, sequence, writes, issued, missed>>
  BY DEF Notify
<1>3. /\ job' \in [Threads -> [pc : {"idle", "notify"}, uri : Uris \cup {OtherUri},
                                result : {"none", "returned", "SQLException", "IllegalArgumentException"}]]
      /\ \A s \in Threads : job'[s].pc = "notify" => job'[s].uri \in Uris
  <2>1. Throws(t, "returned") /\ AllStudents \in Uris
    BY DEF Notify, Throws, Uris
  <2> QED
    BY <1>1, <2>1, JobTyping DEF Registered
<1>4. \A c \in Cursors :
        /\ cursor'[c] \in [pc : {"closed", "open", "filled"}, uri : Uris \cup {OtherUri},
                           rows : SUBSET Row, told : BOOLEAN]
        /\ cursor'[c].pc = cursor[c].pc /\ cursor'[c].uri = cursor[c].uri
  <2> SUFFICES ASSUME NEW c \in Cursors
               PROVE  /\ cursor'[c] \in [pc : {"closed", "open", "filled"}, uri : Uris \cup {OtherUri},
                                         rows : SUBSET Row, told : BOOLEAN]
                      /\ cursor'[c].pc = cursor[c].pc /\ cursor'[c].uri = cursor[c].uri
    OBVIOUS
  <2>1. cursor[c] \in [pc : {"closed", "open", "filled"}, uri : Uris \cup {OtherUri},
                       rows : SUBSET Row, told : BOOLEAN]
    BY <1>1 DEF TypeOK
  <2>2. cursor'[c] = [cursor[c] EXCEPT !.told = TRUE] \/ cursor'[c] = cursor[c]
    BY DEF Notify
  <2> QED
    BY <2>1, <2>2
<1>5. cursor' = [c \in Cursors |-> cursor'[c]]
  BY DEF Notify
<1> QED
  BY <1>1, <1>2, <1>3, <1>4, <1>5 DEF IInv, TypeOK, Registered, Recorded

\* The steps of one cursor.
LEMMA CursorInv ==
  ASSUME IInv, NEW c \in Cursors,
         (\E uri \in Uris : Query(c, uri)) \/ Fill(c) \/ Refresh(c) \/ Close(c)
  PROVE  IInv'
<1> DEFINE Shape == [pc : {"closed", "open", "filled"}, uri : Uris \cup {OtherUri},
                     rows : SUBSET Row, told : BOOLEAN]
<1>1. TypeOK /\ Registered /\ Recorded
  BY DEF IInv
<1>2. /\ UNCHANGED <<table, sequence, job, writes, issued>>
      /\ missed' \in [Cursors -> BOOLEAN]
  BY <1>1 DEF Query, Fill, Refresh, Close, TypeOK
<1>3. cursor \in [Cursors -> Shape] /\ cursor[c] \in Shape
  BY <1>1 DEF TypeOK
<1>4. \A uri : Answer(uri) \subseteq Row
  BY <1>1, MatchingRows DEF Answer, TypeOK
<1>5. PICK new \in Shape : /\ cursor' = [cursor EXCEPT ![c] = new]
                           /\ new.pc # "closed" => new.uri \in Uris
  <2>1. ASSUME NEW uri \in Uris, Query(c, uri)
        PROVE  \E new \in Shape : /\ cursor' = [cursor EXCEPT ![c] = new]
                                  /\ new.pc # "closed" => new.uri \in Uris
    <3>1. [Closed EXCEPT !.pc = "open", !.uri = uri] \in Shape
      BY DEF Closed
    <3> QED
      BY <2>1, <3>1 DEF Query, Closed
  <2>2. CASE Fill(c)
    <3> DEFINE new == [cursor[c] EXCEPT !.pc = "filled", !.rows = Answer(cursor[c].uri)]
    <3>1. new \in Shape /\ new.uri = cursor[c].uri
      BY <1>3, <1>4
    <3>2. cursor' = [cursor EXCEPT ![c] = new] /\ cursor[c].pc # "closed"
      BY <1>3, <2>2 DEF Fill
    <3> QED
      BY <1>1, <3>1, <3>2 DEF Registered
  <2>3. CASE Refresh(c)
    <3> DEFINE new == [cursor[c] EXCEPT !.told = FALSE, !.rows = Answer(cursor[c].uri)]
    <3>1. new \in Shape /\ new.uri = cursor[c].uri
      BY <1>3, <1>4
    <3>2. cursor' = [cursor EXCEPT ![c] = new] /\ cursor[c].pc # "closed"
      BY <1>3, <2>3 DEF Refresh
    <3> QED
      BY <1>1, <3>1, <3>2 DEF Registered
  <2>4. CASE Close(c)
    <3>1. Closed \in Shape
      BY DEF Closed
    <3> QED
      BY <2>4, <3>1 DEF Close, Closed
  <2> QED
    BY <2>1, <2>2, <2>3, <2>4
<1>6. cursor' \in [Cursors -> Shape]
  BY <1>3, <1>5
<1>7. \A d \in Cursors : cursor'[d].pc # "closed" => cursor'[d].uri \in Uris
  BY <1>1, <1>3, <1>5 DEF Registered
<1> QED
  BY <1>1, <1>2, <1>6, <1>7 DEF IInv, TypeOK, Registered, Recorded

\* A restart leaves the database.
LEMMA RestartInv == IInv /\ Restart => IInv'
BY DEF IInv, TypeOK, Registered, Recorded, Restart, Idle, Closed

\* Every step keeps the invariant.
LEMMA StepInv == IInv /\ [Next]_vars => IInv'
<1> SUFFICES ASSUME IInv, [Next]_vars PROVE IInv'
  OBVIOUS
<1>1. CASE UNCHANGED vars
  BY <1>1 DEF vars, IInv, TypeOK, Registered, Recorded
<1>2. CASE Next
  BY <1>2, InsertInv, DeleteInv, UpdateInv, NotifyInv, CursorInv, RestartInv DEF Next
<1> QED
  BY <1>1, <1>2

\* The provider never leaves the invariant.
LEMMA Inductive == Spec => []IInv
BY InitInv, StepInv, PTL DEF Spec

\* The provider's state has its type, and no two rows have the same _id
\* (IPCProvider.java:55).
THEOREM TypeCorrect == Spec => []TypeOK
<1>1. IInv => TypeOK
  BY DEF IInv
<1> QED
  BY <1>1, Inductive, PTL

\* The id of a URI that insert has returned is not given to another student
\* (IPCProvider.java:55): every id issued was recorded, and the next one is
\* beyond the record.
THEOREM IdsStayFresh == Spec => []NextIdIsFresh
<1>1. IInv => NextIdIsFresh
  <2> SUFFICES ASSUME IInv, NextId \in issued PROVE FALSE
    BY DEF NextIdIsFresh
  <2>1. NextId <= sequence
    BY DEF IInv, Recorded
  <2>2. NextId > sequence /\ NextId \in Int /\ sequence \in Int
    BY NextIdIsBeyond DEF IInv, TypeOK
  <2> QED
    BY <2>1, <2>2
<1> QED
  BY <1>1, Inductive, PTL

--------------------------------------------------------------------------------
(* What a call does to the rows it is not addressed to.                    *)

\* An update leaves the rows it does not hit where they are, and those that come
\* instead have the id of one it hits or the one it sets.
LEMMA UpdateTouches ==
  ASSUME NEW t, NEW uri, NEW values, NEW sel, Update(t, uri, values, sel), NEW row
  PROVE  LET hit == Matching(uri, sel) IN
         /\ row \in table /\ row \notin hit => row \in table'
         /\ row \in table' /\ row \notin table =>
              row.id \in Ids(hit) \cup (IF values.ids # {} /\ hit # {} THEN values.ids ELSE {})
<1> DEFINE hit == Matching(uri, sel)
           new == {Changed(other, values) : other \in hit}
<1>1. UNCHANGED table \/ table' = (table \ hit) \cup new
  BY DEF Update, Refused
<1>2. ASSUME NEW other \in hit
      PROVE  Changed(other, values).id \in
               Ids(hit) \cup (IF values.ids # {} /\ hit # {} THEN values.ids ELSE {})
  <2>1. Changed(other, values).id = IF values.ids = {} THEN other.id ELSE CHOOSE i \in values.ids : TRUE
    BY DEF Changed
  <2>2. other.id \in Ids(hit)
    BY DEF Ids
  <2>3. values.ids # {} => (CHOOSE i \in values.ids : TRUE) \in values.ids
    OBVIOUS
  <2> HIDE DEF hit
  <2> QED
    BY <2>1, <2>2, <2>3
<1> HIDE DEF hit
<1>3. /\ row \in table /\ row \notin hit => row \in table'
      /\ row \in table' /\ row \notin table =>
           row.id \in Ids(hit) \cup (IF values.ids # {} /\ hit # {} THEN values.ids ELSE {})
  BY <1>1, <1>2
<1> QED
  BY <1>3 DEF hit

\* A call that is addressed to one student and changes another row was given a
\* selection that closes a parenthesis it has not opened (IPCProvider.java:178-179,
\* 201-202).
THEOREM OthersUntouched == Spec => OnlyAddressed
<1> DEFINE A == \A t \in Threads :
                  LET uri == job'[t].uri IN
                  /\ job[t].pc = "idle" /\ job'[t].pc = "notify" /\ uri.match = "STUDENT_ID"
                  /\ ~({row \in table : row.id # uri.id} \subseteq table')
                  => \A sel \in Selections :
                       Delete(t, uri, sel) \/ (\E values \in Values : Update(t, uri, values, sel))
                       => sel.closes
<1>1. [A]_vars
  <2> SUFFICES ASSUME NEW t \in Threads, NEW sel \in Selections, NEW uri, uri.match = "STUDENT_ID",
                      \/ Delete(t, uri, sel)
                      \/ \E values \in Values : Update(t, uri, values, sel),
                      ~sel.closes, NEW row \in table, row.id # uri.id
               PROVE  row \in table'
    OBVIOUS
  <2>1. row \notin Matching(uri, sel)
    <3>1. ~IsUnder(row.id, uri)
      BY DEF IsUnder, AllStudents
    <3> QED
      BY <3>1, MatchingRows
  <2>2. CASE Delete(t, uri, sel)
    BY <2>1, <2>2 DEF Delete, Refused
  <2>3. ASSUME NEW values \in Values, Update(t, uri, values, sel) PROVE row \in table'
    BY <2>1, <2>3, UpdateTouches
  <2> QED
    BY <2>2, <2>3
<1> QED
  BY <1>1, PTL DEF Spec, OnlyAddressed

--------------------------------------------------------------------------------
(* Cursors.  A row that a write changes is under the URI it announces, or the *)
(* cursors that see it have missed it; and a cursor that the announcement     *)
(* does not reach sees nothing of the former.                                 *)

\* A cursor that is up to date stays so while it stays as it is, and no row under
\* its URI comes or goes.
LEMMA FreshKept ==
  ASSUME NEW c, UNCHANGED cursor[c], UpToDate(c),
         \A row \in table \cup table' :
           (row \in table) # (row \in table') => ~IsUnder(row.id, cursor[c].uri)
  PROVE  UpToDate(c)'
<1> DEFINE uri == cursor[c].uri
<1>1. Answer(uri) = {row \in table : IsUnder(row.id, uri)}
  BY AnswerRows
<1>2. Answer(uri)' = {row \in table' : IsUnder(row.id, uri)}
  BY DEF Answer, Matching, NoSelection
<1>3. Answer(uri)' = Answer(uri)
  BY <1>1, <1>2
<1> QED
  BY <1>3 DEF UpToDate

\* A call that writes keeps every cursor up to date, is about to tell it, or has
\* it recorded as having missed the change.
LEMMA WriteKeepsFresh ==
  ASSUME IInv, FreshUnlessMissed,
         NEW t \in Threads, job[t].pc = "idle", UNCHANGED cursor,
         NEW uri, NEW exception, Throws(t, exception) \/ Announces(t, uri),
         \A c \in Cursors : ~missed'[c] => ~missed[c],
         \A c \in Cursors, row \in table \cup table' :
           cursor[c].pc = "filled" /\ ~missed'[c] /\ (row \in table) # (row \in table') =>
             \/ Announces(t, uri) /\ Reaches(uri, cursor[c].uri)
             \/ ~IsUnder(row.id, cursor[c].uri)
  PROVE  FreshUnlessMissed'
<1> SUFFICES ASSUME NEW c \in Cursors, cursor[c].pc = "filled", ~NoticeOnItsWay(c)', ~missed'[c]
             PROVE  UpToDate(c)'
  BY DEF FreshUnlessMissed
<1>1. job \in [Threads -> [pc : {"idle", "notify"}, uri : Uris \cup {OtherUri},
                           result : {"none", "returned", "SQLException", "IllegalArgumentException"}]]
  BY DEF IInv, TypeOK
<1>2. ~NoticeOnItsWay(c)
  <2>1. \A s \in Threads \ {t} : job'[s] = job[s]
    BY <1>1 DEF Throws, Announces
  <2>2. \A s \in Threads : job[s].pc = "notify" => job'[s] = job[s]
    BY <2>1
  <2> QED
    BY <2>2 DEF NoticeOnItsWay
<1>3. Announces(t, uri) => ~Reaches(uri, cursor[c].uri)
  <2> SUFFICES ASSUME Announces(t, uri) PROVE ~Reaches(uri, cursor[c].uri)
    OBVIOUS
  <2>1. job'[t].pc = "notify" /\ job'[t].uri = uri
    BY <1>1 DEF Announces
  <2> QED
    BY <2>1 DEF NoticeOnItsWay
<1>4. UpToDate(c)
  BY <1>2 DEF FreshUnlessMissed
<1>5. \A row \in table \cup table' :
        (row \in table) # (row \in table') => ~IsUnder(row.id, cursor[c].uri)
  BY <1>3
<1> QED
  BY <1>4, <1>5, FreshKept

\* A cursor that has not missed what was done beside a URI sees none of it, or is
\* reached by the announcement.
LEMMA MissedOrReached ==
  ASSUME NEW uri, NEW ids, MissedBeside(uri, ids), NEW c \in Cursors,
         cursor[c].pc = "filled", ~missed'[c], NEW id \in ids
  PROVE  Reaches(uri, cursor[c].uri) \/ ~IsUnder(id, cursor[c].uri)
BY Zenon DEF MissedBeside

\* insert announces the row it adds, or tells nobody.
LEMMA InsertFresh ==
  ASSUME IInv, FreshUnlessMissed, NEW t \in Threads, NEW uri, NEW values \in Values,
         Insert(t, uri, values)
  PROVE  FreshUnlessMissed'
<1> DEFINE id == IF values.ids = {} THEN NextId ELSE CHOOSE i \in values.ids : TRUE
           new == [id |-> id, name |-> values.name, grade |-> values.grade]
<1>1. job[t].pc = "idle" /\ UNCHANGED cursor /\ TypeOK
  BY DEF Insert, Starts, IInv
<1>2. CASE Throws(t, "SQLException") /\ UNCHANGED <<table, missed>>
  BY <1>1, <1>2, WriteKeepsFresh
<1>3. CASE /\ table' = table \cup {new}
           /\ IF Added(id) THEN Announces(t, Student(id)) /\ MissedBeside(Student(id), {id})
                           ELSE Throws(t, "SQLException") /\ MissedByAll(id)
  <2>1. \A c \in Cursors : ~missed'[c] => ~missed[c]
    BY <1>1, <1>3, MissedTyping
  <2> HIDE DEF id
  <2>2. \A row \in table \cup table' : (row \in table) # (row \in table') => row.id = id
    <3>1. table' = table \cup {new} /\ new.id = id
      BY <1>3
    <3> HIDE DEF new
    <3> QED
      BY <3>1
  <2> HIDE DEF new
  <2>3. CASE Added(id)
    <3>1. \A c \in Cursors :
            cursor[c].pc = "filled" /\ ~missed'[c] =>
              Reaches(Student(id), cursor[c].uri) \/ ~IsUnder(id, cursor[c].uri)
      BY <1>3, <2>3, MissedOrReached
    <3> QED
      BY <1>1, <1>3, <2>1, <2>2, <2>3, <3>1, WriteKeepsFresh
  <2>4. CASE ~Added(id)
    <3>1. \A c \in Cursors : cursor[c].pc = "filled" /\ ~missed'[c] => ~IsUnder(id, cursor[c].uri)
      BY <1>3, <2>4, Zenon DEF MissedByAll
    <3> QED
      BY <1>1, <1>3, <2>1, <2>2, <2>4, <3>1, WriteKeepsFresh
  <2> QED
    BY <2>3, <2>4
<1> QED
  BY <1>2, <1>3 DEF Insert, InsertAnnounces

\* delete announces the URI it was called with.
LEMMA DeleteFresh ==
  ASSUME IInv, FreshUnlessMissed, NEW t \in Threads, NEW uri, NEW sel, Delete(t, uri, sel)
  PROVE  FreshUnlessMissed'
<1>1. job[t].pc = "idle" /\ UNCHANGED cursor /\ TypeOK
  BY DEF Delete, Starts, IInv
<1>2. ASSUME NEW exception, Throws(t, exception), UNCHANGED <<table, missed>> PROVE FreshUnlessMissed'
  BY <1>1, <1>2, WriteKeepsFresh
<1>3. CASE /\ table' = table \ Matching(uri, sel) /\ Announces(t, uri)
           /\ MissedBeside(uri, Ids(Matching(uri, sel)))
  <2>1. \A c \in Cursors : ~missed'[c] => ~missed[c]
    BY <1>1, <1>3, MissedTyping
  <2>2. \A row \in table \cup table' :
          (row \in table) # (row \in table') => row.id \in Ids(Matching(uri, sel))
    BY <1>3 DEF Ids
  <2>3. \A c \in Cursors, id \in Ids(Matching(uri, sel)) :
          cursor[c].pc = "filled" /\ ~missed'[c] =>
            Reaches(uri, cursor[c].uri) \/ ~IsUnder(id, cursor[c].uri)
    BY <1>3, MissedOrReached
  <2> QED
    BY <1>1, <1>3, <2>1, <2>2, <2>3, WriteKeepsFresh
<1> QED
  BY <1>2, <1>3 DEF Delete, Refused

\* So does update.
LEMMA UpdateFresh ==
  ASSUME IInv, FreshUnlessMissed, NEW t \in Threads, NEW uri, NEW values, NEW sel,
         Update(t, uri, values, sel)
  PROVE  FreshUnlessMissed'
<1> DEFINE hit == Matching(uri, sel)
           ids == Ids(hit) \cup (IF values.ids # {} /\ hit # {} THEN values.ids ELSE {})
<1>1. job[t].pc = "idle" /\ UNCHANGED cursor /\ TypeOK
  BY DEF Update, Starts, IInv
<1>2. ASSUME NEW exception, Throws(t, exception), UNCHANGED <<table, missed>> PROVE FreshUnlessMissed'
  BY <1>1, <1>2, WriteKeepsFresh
<1>3. CASE Announces(t, uri) /\ MissedBeside(uri, ids)
  <2>1. \A c \in Cursors : ~missed'[c] => ~missed[c]
    BY <1>1, <1>3, MissedTyping
  <2>2. \A row \in table \cup table' : (row \in table) # (row \in table') => row.id \in ids
    BY UpdateTouches DEF Ids
  <2>3. \A c \in Cursors, id \in ids :
          cursor[c].pc = "filled" /\ ~missed'[c] =>
            Reaches(uri, cursor[c].uri) \/ ~IsUnder(id, cursor[c].uri)
    BY <1>3, MissedOrReached
  <2> HIDE DEF ids
  <2> QED
    BY <1>1, <1>3, <2>1, <2>2, <2>3, WriteKeepsFresh
<1> QED
  BY <1>2, <1>3 DEF Update, Refused

\* Who is told stops being fresh for the invariant; all others are as before.
LEMMA NotifyFresh ==
  ASSUME IInv, FreshUnlessMissed, NEW t \in Threads, Notify(t)
  PROVE  FreshUnlessMissed'
<1> SUFFICES ASSUME NEW c \in Cursors, cursor'[c].pc = "filled", ~NoticeOnItsWay(c)', ~missed'[c]
             PROVE  UpToDate(c)'
  BY DEF FreshUnlessMissed
<1>1. /\ job \in [Threads -> [pc : {"idle", "notify"}, uri : Uris \cup {OtherUri},
                              result : {"none", "returned", "SQLException", "IllegalArgumentException"}]]
      /\ cursor[c] \in [pc : {"closed", "open", "filled"}, uri : Uris \cup {OtherUri},
                        rows : SUBSET Row, told : BOOLEAN]
  BY DEF IInv, TypeOK
<1>2. ~cursor'[c].told
  BY DEF NoticeOnItsWay
<1>3. cursor'[c] = cursor[c] /\ ~Reaches(job[t].uri, cursor[c].uri)
  <2>1. cursor'[c] = IF cursor[c].pc # "closed" /\ Reaches(job[t].uri, cursor[c].uri)
                     THEN [cursor[c] EXCEPT !.told = TRUE] ELSE cursor[c]
    BY DEF Notify
  <2> QED
    BY <1>1, <1>2, <2>1
<1>4. ~NoticeOnItsWay(c)
  <2>1. \A s \in Threads \ {t} : job'[s] = job[s]
    BY <1>1 DEF Notify
  <2> QED
    BY <1>2, <1>3, <2>1 DEF NoticeOnItsWay
<1>5. UNCHANGED <<table, missed>>
  BY DEF Notify
<1>6. UpToDate(c)
  BY <1>3, <1>4, <1>5 DEF FreshUnlessMissed
<1> QED
  BY <1>3, <1>5, <1>6, FreshKept

\* A cursor that has just read agrees with the table; the others do not move.
LEMMA CursorFresh ==
  ASSUME IInv, FreshUnlessMissed, NEW c \in Cursors,
         (\E uri \in Uris : Query(c, uri)) \/ Fill(c) \/ Refresh(c) \/ Close(c)
  PROVE  FreshUnlessMissed'
<1> SUFFICES ASSUME NEW d \in Cursors, cursor'[d].pc = "filled", ~NoticeOnItsWay(d)', ~missed'[d]
             PROVE  UpToDate(d)'
  BY DEF FreshUnlessMissed
<1>1. /\ cursor \in [Cursors -> [pc : {"closed", "open", "filled"}, uri : Uris \cup {OtherUri},
                                 rows : SUBSET Row, told : BOOLEAN]]
      /\ missed \in [Cursors -> BOOLEAN]
      /\ UNCHANGED <<table, job>>
  BY DEF IInv, TypeOK, Query, Fill, Refresh, Close
<1>2. CASE d # c
  <2>1. UNCHANGED cursor[d] /\ ~missed[d]
    BY <1>1, <1>2 DEF Query, Fill, Refresh, Close
  <2>2. ~NoticeOnItsWay(d)
    BY <1>1, <2>1 DEF NoticeOnItsWay
  <2>3. UpToDate(d)
    BY <2>1, <2>2 DEF FreshUnlessMissed
  <2> QED
    BY <1>1, <2>1, <2>3, FreshKept
<1>3. CASE d = c
  <2>1. Fill(c) \/ Refresh(c)
    <3>1. ~Close(c)
      BY <1>1, <1>3 DEF Close, Closed
    <3>2. ASSUME NEW uri, Query(c, uri) PROVE FALSE
      <4>1. cursor'[c] = [Closed EXCEPT !.pc = "open", !.uri = uri]
        BY <1>1, <3>2 DEF Query
      <4> QED
        BY <1>3, <4>1 DEF Closed
    <3> QED
      BY <3>1, <3>2
  <2>2. cursor'[c].rows = Answer(cursor[c].uri) /\ cursor'[c].uri = cursor[c].uri
    BY <1>1, <2>1 DEF Fill, Refresh
  <2>3. Answer(cursor[c].uri)' = Answer(cursor[c].uri)
    BY <1>1, <2>2 DEF Answer, Matching
  <2> QED
    BY <1>3, <2>2, <2>3 DEF UpToDate
<1> QED
  BY <1>2, <1>3

\* A cursor without a notice on its way shows the rows of the table, unless it has
\* missed a change: no change falls between registration and first reading, and
\* every write is announced after it was made (IPCProvider.java:117-122, 158, 186
\* and 207).  It misses a row inserted under an id below 1 and, if it is on one
\* student, what is done through another student's URI or another spelling.
THEOREM CursorsAreFresh == Spec => []FreshUnlessMissed
<1>1. Init => FreshUnlessMissed
  BY DEF Init, FreshUnlessMissed, Closed
<1>2. IInv /\ FreshUnlessMissed /\ [Next]_vars => FreshUnlessMissed'
  <2> SUFFICES ASSUME IInv, FreshUnlessMissed, [Next]_vars PROVE FreshUnlessMissed'
    OBVIOUS
  <2>1. CASE UNCHANGED vars
    BY <2>1 DEF vars, FreshUnlessMissed, NoticeOnItsWay, UpToDate, Answer, Matching
  <2>2. CASE Restart
    BY <2>2 DEF Restart, FreshUnlessMissed, Closed
  <2>3. CASE Next /\ ~ Restart
    BY <2>3, InsertFresh, DeleteFresh, UpdateFresh, NotifyFresh, CursorFresh DEF Next
  <2> QED
    BY <2>1, <2>2, <2>3
<1> QED
  BY <1>1, <1>2, Inductive, PTL DEF Spec

--------------------------------------------------------------------------------
(* The file demos.                                                        *)

\* While nothing has disturbed it, the FILE stands at the end of the file.
FilesInv ==
  /\ FilesTypeOK
  /\ fp.open /\ ~disturbed => fp.pos = Len(src) /\ src \o fp.held = wanted

FileRecords == [open : BOOLEAN, pos : Nat, held : Seq(Units)]

\* A part of a sequence that begins no earlier and ends no later than it does.
LEMMA PartTyping ==
  ASSUME NEW S, NEW s \in Seq(S), NEW m \in 1 .. Len(s) + 1, NEW n \in m - 1 .. Len(s)
  PROVE  SubSeq(s, m, n) \in Seq(S) /\ Len(SubSeq(s, m, n)) = n - m + 1
<1>1. Len(s) \in Nat
  BY LenProperties
<1>2. m \in Int /\ n \in Int /\ \A i \in m .. n : s[i] \in S
  BY <1>1, ElementOfSeq
<1>3. /\ SubSeq(s, m, n) \in Seq(S)
      /\ Len(SubSeq(s, m, n)) = IF m <= n THEN n - m + 1 ELSE 0
  BY <1>2, SubSeqProperties
<1> QED
  BY <1>1, <1>2, <1>3

\* A prefix, and what is behind it.
LEMMA PrefixAndRest ==
  ASSUME NEW S, NEW s \in Seq(S), NEW t \in Prefixes(s)
  PROVE  LET rest == SubSeq(s, Len(t) + 1, Len(s)) IN
         t \in Seq(S) /\ Len(t) <= Len(s) /\ rest \in Seq(S) /\ s = t \o rest
<1>1. PICK n \in 0 .. Len(s) : t = SubSeq(s, 1, n)
  BY DEF Prefixes
<1>2. Len(s) \in Nat
  BY LenProperties
<1>3. t \in Seq(S) /\ Len(t) = n
  BY <1>1, <1>2, PartTyping
<1>4. SubSeq(s, n + 1, Len(s)) \in Seq(S)
  BY <1>2, PartTyping
<1>5. SubSeq(s, 1, n) \o SubSeq(s, n + 1, Len(s)) = SubSeq(s, 1, Len(s))
  <2>1. 1 \in 1 .. Len(s) + 1 /\ n \in 1 - 1 .. Len(s) /\ Len(s) \in n .. Len(s)
    BY <1>2
  <2> QED
    BY <2>1, ConcatAdjacentSubSeq
<1>6. SubSeq(s, 1, Len(s)) = s
  BY SubSeqFull
<1>7. s = t \o SubSeq(s, n + 1, Len(s))
  BY <1>1, <1>5, <1>6
<1>8. n <= Len(s)
  BY <1>2
<1> QED
  BY <1>3, <1>4, <1>7, <1>8

\* What is written over a file from a place inside it on; at its end, it is appended.
LEMMA WriteAtFacts ==
  ASSUME NEW S, NEW s \in Seq(S), NEW t \in Seq(S), NEW pos \in 0 .. Len(s)
  PROVE  /\ WriteAt(s, pos, t) \in Seq(S)
         /\ pos + Len(t) <= Len(WriteAt(s, pos, t))
         /\ pos = Len(s) => WriteAt(s, pos, t) = s \o t
<1> DEFINE head == SubSeq(s, 1, pos)
           m == pos + Len(t) + 1
           tail == SubSeq(s, m, Len(s))
<1>1. Len(s) \in Nat /\ Len(t) \in Nat
  BY LenProperties
<1>2. head \in Seq(S) /\ Len(head) = pos
  BY <1>1, PartTyping
<1>3. tail \in Seq(S) /\ (m > Len(s) => tail = <<>>)
  <2>1. CASE m <= Len(s)
    <3>1. tail \in Seq(S)
      BY <1>1, <2>1, PartTyping
    <3> QED
      BY <1>1, <2>1, <3>1
  <2>2. CASE m > Len(s)
    <3>1. tail = <<>>
      BY <1>1, <2>2, SubSeqEmpty
    <3> QED
      BY <3>1, EmptySeq
  <2> QED
    BY <1>1, <2>1, <2>2
<1>4. m = pos + Len(t) + 1
  OBVIOUS
<1> HIDE DEF head, m, tail
<1>5. head \o t \in Seq(S) /\ Len(head \o t) = pos + Len(t)
  BY <1>2, ConcatProperties
<1>6. /\ (head \o t) \o tail \in Seq(S)
      /\ Len((head \o t) \o tail) = pos + Len(t) + Len(tail)
  <2> DEFINE u == head \o t
  <2>1. u \in Seq(S) /\ Len(u) = pos + Len(t)
    BY <1>5
  <2> HIDE DEF u
  <2>2. u \o tail \in Seq(S) /\ Len(u \o tail) = Len(u) + Len(tail)
    BY <1>3, <2>1, ConcatProperties
  <2> QED
    BY <2>1, <2>2 DEF u
<1>7. Len(tail) \in Nat
  BY <1>3, LenProperties
<1>8. WriteAt(s, pos, t) = (head \o t) \o tail
  BY DEF WriteAt, head, tail, m
<1>9. ASSUME pos = Len(s) PROVE WriteAt(s, pos, t) = s \o t
  <2>1. head = s
    BY <1>9, SubSeqFull DEF head
  <2>2. tail = <<>>
    BY <1>1, <1>3, <1>4, <1>9
  <2> QED
    BY <1>5, <1>8, <2>1, <2>2, ConcatEmptySeq
<1> QED
  BY <1>1, <1>6, <1>7, <1>8, <1>9

\* The order in which texts are put together does not matter.
LEMMA Associated ==
  ASSUME NEW s \in Seq(Units), NEW t \in Seq(Units), NEW u \in Seq(Units)
  PROVE  (s \o t) \o u = s \o (t \o u)
BY ConcatAssociative

\* At first there is no file to stand in.
LEMMA InitFiles == FilesInit => FilesInv
<1> SUFFICES ASSUME FilesInit PROVE FilesInv
  OBVIOUS
<1>1. <<>> \in Seq(Units) /\ Len(<<>>) = 0 /\ <<>> \in Seq([text : Seq(Units), whole : BOOLEAN])
  BY EmptySeq
<1>2. 0 \in 0 .. MaxFiles
  BY SizesAssumption
<1>3. fp = [open |-> FALSE, pos |-> 0, held |-> <<>>]
  BY DEF FilesInit, NoFile
<1>4. fp \in [open : BOOLEAN, pos : Nat, held : Seq(Units)] /\ ~fp.open /\ fp.pos = 0
  BY <1>1, <1>3
<1>5. Len(src) = 0
  BY <1>1 DEF FilesInit
<1>6. fp.pos <= Len(src)
  BY <1>4, <1>5
<1>7. FilesTypeOK
  BY <1>1, <1>2, <1>4, <1>6 DEF FilesInit, FilesTypeOK
<1> QED
  BY <1>4, <1>7 DEF FilesInit, FilesInv

\* A call that writes what was held back and text behind it, of which some is written.
LEMMA FlushFacts ==
  ASSUME FilesInv, fp.open, NEW text \in Seq(Units),
         NEW written \in Prefixes(fp.held \o text), Flush(fp.held \o text, written)
  PROVE  /\ src' \in Seq(Units) /\ fp' \in FileRecords /\ fp'.open /\ fp'.pos <= Len(src')
         /\ disturbed' \in BOOLEAN
         /\ ~disturbed' => /\ ~disturbed /\ fp'.pos = Len(src')
                           /\ src' \o fp'.held = wanted \o text
<1> DEFINE all == fp.held \o text
           rest == SubSeq(all, Len(written) + 1, Len(all))
<1>1. /\ src \in Seq(Units) /\ fp \in FileRecords /\ fp.pos \in 0 .. Len(src)
      /\ fp.held \in Seq(Units) /\ wanted \in Seq(Units) /\ disturbed \in BOOLEAN
  BY DEF FilesInv, FilesTypeOK, FileRecords
<1>2. all \in Seq(Units)
  BY <1>1, ConcatProperties
<1>3. written \in Seq(Units) /\ rest \in Seq(Units) /\ all = written \o rest
  BY <1>2, PrefixAndRest
<1>4. Len(src) \in Nat /\ Len(written) \in Nat
  BY <1>1, <1>3, LenProperties
<1>5. PICK held \in {rest, <<>>} : /\ fp' = [fp EXCEPT !.pos = @ + Len(written), !.held = held]
                                   /\ disturbed' = (disturbed \/ held # rest)
  BY DEF Flush
<1>6. src' = WriteAt(src, fp.pos, written)
  BY DEF Flush
<1>7. held \in Seq(Units)
  BY <1>3, <1>5, EmptySeq
<1>8. /\ src' \in Seq(Units) /\ fp.pos + Len(written) <= Len(src')
      /\ fp.pos = Len(src) => src' = src \o written
  <2> DEFINE place == fp.pos
  <2>1. place \in 0 .. Len(src) /\ src' = WriteAt(src, place, written)
    BY <1>1, <1>6
  <2> HIDE DEF place
  <2>2. /\ WriteAt(src, place, written) \in Seq(Units)
        /\ place + Len(written) <= Len(WriteAt(src, place, written))
        /\ place = Len(src) => WriteAt(src, place, written) = src \o written
    BY <1>1, <1>3, <2>1, WriteAtFacts
  <2> QED
    BY <2>1, <2>2 DEF place
<1>9. /\ fp' \in FileRecords /\ fp'.open /\ fp'.pos = fp.pos + Len(written) /\ fp'.held = held
  <2> DEFINE n == fp.pos + Len(written)
  <2>1. n \in Nat
    BY <1>1, <1>4 DEF FileRecords
  <2>2. fp' = [fp EXCEPT !.pos = n, !.held = held]
    BY <1>5
  <2> HIDE DEF n
  <2>3. fp' \in FileRecords /\ fp'.open /\ fp'.pos = n /\ fp'.held = held
    BY <1>1, <1>7, <2>1, <2>2 DEF FileRecords
  <2> QED
    BY <2>3 DEF n
<1>10. ASSUME ~disturbed'
       PROVE  ~disturbed /\ fp'.pos = Len(src') /\ src' \o fp'.held = wanted \o text
  <2>1. ~disturbed /\ held = rest
    BY <1>5, <1>10
  <2>2. fp.pos = Len(src) /\ src \o fp.held = wanted
    BY <2>1 DEF FilesInv
  <2>3. src' = src \o written
    BY <1>8, <2>2
  <2>4. Len(src') = Len(src) + Len(written)
    BY <1>1, <1>3, <2>3, ConcatProperties
  <2>5. src' \o fp'.held = src \o all
    <3> HIDE DEF all, rest
    <3>1. (src \o written) \o rest = src \o (written \o rest)
      <4> DEFINE a == src
      <4>1. a \in Seq(Units) /\ written \in Seq(Units) /\ rest \in Seq(Units)
        BY <1>1, <1>3
      <4> HIDE DEF a
      <4>2. (a \o written) \o rest = a \o (written \o rest)
        BY <4>1, Associated
      <4> QED
        BY <4>2 DEF a
    <3> QED
      BY <1>3, <1>9, <2>1, <2>3, <3>1
  <2>6. src \o all = wanted \o text
    <3>1. (src \o fp.held) \o text = src \o (fp.held \o text)
      <4> DEFINE a == src
                 b == fp.held
      <4>1. a \in Seq(Units) /\ b \in Seq(Units)
        BY <1>1
      <4> HIDE DEF a, b
      <4>2. (a \o b) \o text = a \o (b \o text)
        BY <4>1, Associated
      <4> QED
        BY <4>2 DEF a, b
    <3> QED
      BY <2>2, <3>1
  <2> QED
    BY <1>9, <2>1, <2>2, <2>4, <2>5, <2>6
<1> QED
  BY <1>5, <1>8, <1>9, <1>10, <1>1

\* compress.
LEMMA CompressKeeps ==
  ASSUME FilesInv, NEW text \in Texts, compress_stream(text)
  PROVE  FilesInv'
<1>1. text \in Seq(Units)
  BY TextsAssumption
<1>2. PICK written \in Prefixes(fp.held \o text) : Flush(fp.held \o text, written)
  BY DEF compress_stream
<1>3. /\ src' \in Seq(Units) /\ fp' \in FileRecords /\ fp'.open /\ fp'.pos <= Len(src')
      /\ disturbed' \in BOOLEAN
      /\ ~disturbed' => /\ ~disturbed /\ fp'.pos = Len(src')
                        /\ src' \o fp'.held = wanted \o text
  BY <1>1, <1>2, FlushFacts DEF compress_stream
<1>4. /\ wanted' = IF disturbed' THEN <<>> ELSE wanted \o text
      /\ dst' = dst /\ files' = files /\ append_at' = append_at /\ zlib' = zlib
      /\ fp.open
  BY DEF compress_stream
<1>5. wanted' \in Seq(Units)
  BY <1>1, <1>4, EmptySeq, ConcatProperties DEF FilesInv, FilesTypeOK
<1>6. Len(src') \in Nat
  BY <1>3, LenProperties
<1> QED
  BY <1>3, <1>4, <1>5, <1>6 DEF FilesInv, FilesTypeOK, FileRecords

\* getStream: a full buffer disturbs, and short of one the FILE stands at the end.
LEMMA ReadKeeps ==
  ASSUME FilesInv, uncompress_stream
  PROVE  FilesInv'
<1>1. /\ dst' = dst /\ files' = files /\ append_at' = append_at /\ zlib' = zlib
      /\ wanted' = wanted /\ fp.open
  BY DEF uncompress_stream
<1>2. /\ src \in Seq(Units) /\ fp \in FileRecords /\ fp.pos \in 0 .. Len(src)
      /\ fp.held \in Seq(Units) /\ wanted \in Seq(Units) /\ disturbed \in BOOLEAN
  BY DEF FilesInv, FilesTypeOK, FileRecords
<1>3. <<>> \in Seq(Units)
  BY EmptySeq
<1>4. fp.held \o <<>> = fp.held /\ wanted \o <<>> = wanted
  BY <1>2, ConcatEmptySeq
<1>5. /\ src' \in Seq(Units) /\ fp' \in FileRecords /\ fp'.open /\ fp'.pos <= Len(src')
      /\ disturbed' \in BOOLEAN
      /\ ~disturbed' => fp'.pos = Len(src') /\ src' \o fp'.held = wanted
  <2>1. CASE \E written \in Prefixes(fp.held) \ {fp.held} : Flush(fp.held, written)
    <3>1. PICK written \in Prefixes(fp.held) : Flush(fp.held, written)
      BY <2>1
    <3>2. written \in Prefixes(fp.held \o <<>>) /\ Flush(fp.held \o <<>>, written)
      BY <1>4, <3>1
    <3>3. /\ src' \in Seq(Units) /\ fp' \in FileRecords /\ fp'.open /\ fp'.pos <= Len(src')
          /\ disturbed' \in BOOLEAN
          /\ ~disturbed' => /\ ~disturbed /\ fp'.pos = Len(src')
                            /\ src' \o fp'.held = wanted \o <<>>
      BY <1>1, <1>3, <3>2, FlushFacts
    <3> QED
      BY <1>4, <3>3
  <2>2. CASE /\ src' = WriteAt(src, fp.pos, fp.held)
             /\ \E p \in ReadTo(src') : fp' = [fp EXCEPT !.pos = p, !.held = <<>>]
             /\ disturbed' = (disturbed \/ Len(src') >= READ)
    <3>1. src' \in Seq(Units) /\ (fp.pos = Len(src) => src' = src \o fp.held)
      <4> DEFINE place == fp.pos
                 text == fp.held
      <4>1. place \in 0 .. Len(src) /\ text \in Seq(Units) /\ src' = WriteAt(src, place, text)
        BY <1>2, <2>2
      <4> HIDE DEF place, text
      <4>2. /\ WriteAt(src, place, text) \in Seq(Units)
            /\ place = Len(src) => WriteAt(src, place, text) = src \o text
        BY <1>2, <4>1, WriteAtFacts
      <4> QED
        BY <4>1, <4>2 DEF place, text
    <3>2. Len(src') \in Nat /\ READ \in Nat
      BY <3>1, LenProperties, SizesAssumption
    <3>3. PICK p \in ReadTo(src') : fp' = [fp EXCEPT !.pos = p, !.held = <<>>]
      BY <2>2
    <3>4. p \in Nat /\ p <= Len(src') /\ (Len(src') < READ => p = Len(src'))
      BY <3>2 DEF ReadTo
    <3>5. fp' \in FileRecords /\ fp'.open /\ fp'.pos = p /\ fp'.held = <<>>
      BY <1>1, <1>2, <1>3, <3>3, <3>4 DEF FileRecords
    <3>6. src' \o <<>> = src'
      BY <3>1, ConcatEmptySeq
    <3>7. ASSUME ~disturbed' PROVE fp'.pos = Len(src') /\ src' \o fp'.held = wanted
      <4>1. ~disturbed /\ Len(src') < READ
        <5>1. ~(disturbed \/ Len(src') >= READ)
          BY <2>2, <3>7
        <5> QED
          BY <3>2, <5>1
      <4>2. fp.pos = Len(src) /\ src \o fp.held = wanted
        BY <1>1, <4>1 DEF FilesInv
      <4> QED
        BY <3>1, <3>4, <3>5, <3>6, <4>1, <4>2
    <3> QED
      BY <1>2, <2>2, <3>1, <3>4, <3>5, <3>7
  <2> QED
    BY <2>1, <2>2 DEF uncompress_stream
<1>6. Len(src') \in Nat
  BY <1>5, LenProperties
<1> QED
  BY <1>1, <1>2, <1>5, <1>6 DEF FilesInv, FilesTypeOK, FileRecords

\* The process ends and its FILE with it.
LEMMA EndKeeps ==
  ASSUME FilesInv, EndProcess
  PROVE  FilesInv'
<1>1. <<>> \in Seq(Units)
  BY EmptySeq
<1>2. Len(src) \in Nat
  BY LenProperties DEF FilesInv, FilesTypeOK
<1> QED
  BY <1>1, <1>2, SizesAssumption DEF FilesInv, FilesTypeOK, FileRecords, EndProcess, NoFile

\* initFile begins anew.
LEMMA OpenKeeps ==
  ASSUME FilesInv, init_file \/ init_file_fails
  PROVE  FilesInv'
<1>1. <<>> \in Seq(Units) /\ Len(<<>>) = 0 /\ <<>> \o <<>> = <<>>
  <2>1. <<>> \in Seq(Units) /\ Len(<<>>) = 0
    BY EmptySeq
  <2> QED
    BY <2>1, ConcatEmptySeq
<1>2. Len(src) \in Nat
  BY LenProperties DEF FilesInv, FilesTypeOK
<1>3. CASE init_file
  <2>1. files' \in 0 .. MaxFiles /\ files' > 0
    BY <1>3, SizesAssumption DEF init_file, FilesInv, FilesTypeOK
  <2>2. fp' = [open |-> TRUE, pos |-> 0, held |-> <<>>]
    BY <1>3 DEF init_file, NoFile
  <2>3. fp' \in [open : BOOLEAN, pos : Nat, held : Seq(Units)] /\ fp'.pos = 0 /\ fp'.held = <<>>
    BY <1>1, <2>2
  <2>4. src' = <<>> /\ wanted' = <<>> /\ disturbed' = FALSE
    BY <1>3 DEF init_file
  <2>5. fp'.pos = Len(src') /\ fp'.pos <= Len(src')
    BY <1>1, <2>3, <2>4
  <2>6. FilesTypeOK'
    BY <1>1, <1>3, <2>1, <2>3, <2>4, <2>5 DEF FilesInv, FilesTypeOK, init_file
  <2> QED
    BY <1>1, <1>3, <2>3, <2>4, <2>5, <2>6 DEF FilesInv, init_file
<1>4. CASE init_file_fails
  BY <1>1, <1>2, <1>4 DEF FilesInv, FilesTypeOK, FileRecords, init_file_fails, NoFile
<1> QED
  BY <1>3, <1>4

\* def leaves the source file and fp alone.
LEMMA ZlibDefKeeps ==
  ASSUME FilesInv, zlib_def
  PROVE  FilesInv'
<1> DEFINE Streams == [text : Seq(Units), whole : BOOLEAN]
<1>1. dst' \in Seq(Streams)
  <2>1. ReadOf(src) \in Seq(Units)
    BY EmptySeq DEF ReadOf, FilesInv, FilesTypeOK
  <2>2. \A whole \in BOOLEAN : [text |-> ReadOf(src), whole |-> whole] \in Streams
    BY <2>1
  <2>3. dst \in Seq(Streams)
    BY DEF FilesInv, FilesTypeOK
  <2> HIDE DEF Streams
  <2>4. CASE dst' = dst
    BY <2>3, <2>4 DEF zlib_def
  <2>5. CASE dst' # dst
    <3>1. PICK whole \in BOOLEAN : dst' = Append(dst, [text |-> ReadOf(src), whole |-> whole])
      BY <2>5 DEF zlib_def
    <3> DEFINE stream == [text |-> ReadOf(src), whole |-> whole]
    <3>2. stream \in Streams
      BY <2>2
    <3> HIDE DEF stream
    <3>3. Append(dst, stream) \in Seq(Streams)
      BY <2>3, <3>2
    <3> QED
      BY <3>1, <3>3 DEF stream, zlib_def
  <2> QED
    BY <2>4, <2>5 DEF zlib_def
<1>2. files' \in 0 .. MaxFiles /\ (fp'.open => files' > 0)
  BY SizesAssumption DEF zlib_def, FilesInv, FilesTypeOK
<1>3. zlib' \in {"begin", "end"}
  BY DEF zlib_def, AfterDef, FilesInv, FilesTypeOK
<1> QED
  BY <1>1, <1>2, <1>3 DEF zlib_def, FilesInv, FilesTypeOK

\* What inf may append is no longer than the text of the stream and one unit.
LEMMA DecodedTyping ==
  ASSUME NEW s \in [text : Seq(Units), whole : BOOLEAN], NEW t \in Decoded(s)
  PROVE  t \in Seq(Units) /\ Len(t) \in 0 .. Len(s.text) + 1
<1>1. s.text \in Seq(Units) /\ Len(s.text) \in Nat
  BY LenProperties
<1>2. Junk \in Units
  BY DEF Units
<1>3. PICK u \in Prefixes(s.text) : t = u \/ t = u \o <<Junk>>
  BY DEF Decoded
<1>4. u \in Seq(Units) /\ Len(u) <= Len(s.text)
  BY <1>1, PrefixAndRest
<1>5. Len(u) \in Nat
  BY <1>4, LenProperties
<1>6. <<Junk>> \in Seq(Units) /\ Len(<<Junk>>) = 1
  BY <1>2
<1>7. u \o <<Junk>> \in Seq(Units) /\ Len(u \o <<Junk>>) = Len(u) + 1
  BY <1>4, <1>6, ConcatProperties
<1>8. Len(u) \in 0 .. Len(s.text) + 1 /\ Len(u) + 1 \in 0 .. Len(s.text) + 1
  BY <1>1, <1>4, <1>5
<1>9. CASE t = u
  BY <1>4, <1>8, <1>9
<1>10. CASE t = u \o <<Junk>>
  BY <1>7, <1>8, <1>10
<1> QED
  BY <1>3, <1>9, <1>10

\* What inf decodes is put at the end of the file, and disturbs.
LEMMA ZlibInfFacts ==
  ASSUME FilesInv, zlib_inf, src' # src
  PROVE  disturbed' = TRUE /\ src' \in Seq(Units) /\ Len(src) <= Len(src')
<1>1. dst # <<>> /\ disturbed' = TRUE
  BY DEF zlib_inf
<1>2. PICK t \in Decoded(dst[1]) : src' = src \o t
  BY DEF zlib_inf
<1>3. dst[1] \in [text : Seq(Units), whole : BOOLEAN]
  <2> DEFINE Streams == [text : Seq(Units), whole : BOOLEAN]
  <2>1. dst \in Seq(Streams)
    BY DEF FilesInv, FilesTypeOK
  <2> HIDE DEF Streams
  <2>2. Len(dst) \in Nat \ {0}
    BY <1>1, <2>1, EmptySeq
  <2>3. dst[1] \in Streams
    BY <2>1, <2>2, ElementOfSeq
  <2> QED
    BY <2>3 DEF Streams
<1>4. t \in Seq(Units) /\ Len(t) \in 0 .. Len(dst[1].text) + 1
  BY <1>3, DecodedTyping
<1>5. src \in Seq(Units) /\ Len(src) \in Nat
  BY LenProperties DEF FilesInv, FilesTypeOK
<1>6. Len(t) \in Nat
  BY <1>4, LenProperties
<1>7. src' \in Seq(Units) /\ Len(src') = Len(src) + Len(t)
  BY <1>2, <1>4, <1>5, ConcatProperties
<1> QED
  BY <1>1, <1>5, <1>6, <1>7

\* zlib_inf keeps the invariant of the demonstration.
LEMMA ZlibInfKeeps ==
  ASSUME FilesInv, zlib_inf
  PROVE  FilesInv'
<1>1. /\ zlib' = "idle" /\ dst' = dst /\ fp' = fp /\ files' = files /\ append_at' = append_at
      /\ wanted' = wanted
  BY DEF zlib_inf
<1>2. CASE src' = src
  <2>1. disturbed' = disturbed
    <3>1. disturbed' = (disturbed \/ src' # src) \/ disturbed' = disturbed
      BY Zenon DEF zlib_inf
    <3>2. disturbed \in BOOLEAN
      BY DEF FilesInv, FilesTypeOK
    <3> QED
      BY <1>2, <3>1, <3>2
  <2> QED
    BY <1>1, <1>2, <2>1 DEF FilesInv, FilesTypeOK
<1>3. CASE src' # src
  <2>1. disturbed' = TRUE /\ src' \in Seq(Units) /\ Len(src) <= Len(src')
    BY <1>3, ZlibInfFacts
  <2>2. Len(src) \in Nat /\ Len(src') \in Nat
    BY <2>1, LenProperties DEF FilesInv, FilesTypeOK
  <2> QED
    BY <1>1, <2>1, <2>2 DEF FilesInv, FilesTypeOK
<1> QED
  BY <1>2, <1>3

\* Every step keeps it.
LEMMA FilesStep == FilesInv /\ [FilesNext]_filesVars => FilesInv'
<1> SUFFICES ASSUME FilesInv, [FilesNext]_filesVars PROVE FilesInv'
  OBVIOUS
<1>1. CASE UNCHANGED filesVars
  BY <1>1 DEF FilesInv, FilesTypeOK, filesVars
<1>2. CASE UseOfNull \/ zlib_null
  BY <1>2, EndKeeps DEF UseOfNull, zlib_null
<1>3. CASE getStream
  BY <1>3, EndKeeps, ReadKeeps DEF getStream
<1> QED
  BY <1>1, <1>2, <1>3, OpenKeeps, CompressKeeps, ZlibDefKeeps, ZlibInfKeeps DEF FilesNext

\* It holds in every state.
LEMMA FilesInductive == FilesSpec => []FilesInv
BY InitFiles, FilesStep, PTL DEF FilesSpec

\* The file holds the texts compressed since initFile, one behind the other, whatever
\* reads, failing writes and zlib calls came in between, for any texts, bounds and size
\* of the buffer, unless a write was dropped, a read filled the buffer or inf decoded
\* something into the file (zlib_example.c:41,53).
THEOREM TextsStayInOrder == FilesSpec => []TextsInOrder
<1>1. FilesInv => TextsInOrder
  BY DEF FilesInv, TextsInOrder
<1> QED
  BY <1>1, FilesInductive, PTL

================================================================================
