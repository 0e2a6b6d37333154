--------------------------- MODULE MigrationProofs ---------------------------
(***************************************************************************)
(* Why a database that several processes migrate at once, statement by     *)
(* statement and without a lock, is whole when one of them gets through,   *)
(* for any scripts of which two things are true, any number of processes   *)
(* and any crashes; checked by TLAPS.                                      *)
(***************************************************************************)
EXTENDS RunLogProofs

-----------------------------------------------------------------------------
(* The invariant.                                                          *)

\* Statement i of script m is among the first a scripts, or the k first
\* statements of the next.
Past(m, i, a, k) == m <= a \/ (m = a + 1 /\ i <= k)

AddedAt(o, a, k) == \E m \in All : \E i \in Lines(m) : Past(m, i, a, k) /\ o \in Scripts[m][i].adds
DroppedAt(o, a, k) == \E m \in All : \E i \in Lines(m) : Past(m, i, a, k) /\ o \in Scripts[m][i].drops

\* What they leave in the database.
SchemaAt(a, k) == {o \in Objects : AddedAt(o, a, k) /\ ~DroppedAt(o, a, k)}

\* a scripts are run to the end, and the k first statements of the next.
Within(a, k) ==
    /\ a <= Len(Scripts)
    /\ IF a < Len(Scripts) THEN k <= Len(Scripts[a + 1]) ELSE k = 0

\* A process has the last scripts to run, from one that may be recorded by now, and
\* has only begun it if it is the one everybody waits for.
Follows(q, a, k) ==
    LET c == Current(q)
    IN  /\ opening[q].todo = c..Len(Scripts) /\ c <= a + 1
        /\ opening[q].statement > 1 => c = a + 1 /\ opening[q].statement = k + 1

\* The database is a whole number of scripts, and the beginning of the next, that
\* nobody but one process has begun.
Placed(a, k) ==
    /\ Within(a, k)
    /\ applied = 1..a
    /\ schema = SchemaAt(a, k)
    /\ \A q \in Proc : opening[q].pc = "open" => a = Len(Scripts)
    /\ \A q \in Proc : opening[q].pc = "migrating" => Follows(q, a, k)
    /\ \A q, r \in Proc : /\ opening[q].pc = "migrating" /\ opening[q].statement > 1
                          /\ opening[r].pc = "migrating" /\ opening[r].statement > 1
                          => q = r

MigrationInv == IInv /\ \E a, k \in Nat : Placed(a, k)

-----------------------------------------------------------------------------
(* What the statements leave.                                              *)

\* There are finitely many scripts, of finitely many statements each.
LEMMA ScriptTypes ==
    /\ Len(Scripts) \in Nat /\ All = 1..Len(Scripts)
    /\ \A m \in All : /\ Len(Scripts[m]) \in Nat
                      /\ \A i \in Lines(m) : Scripts[m][i] \in Statement
<1>1. \A m \in All : Scripts[m] \in Seq(Statement)
    BY ScriptsAssumption DEF All
<1> QED
    BY <1>1, ScriptsAssumption DEF All, Lines

\* The next statement, if it is the next of the whole, adds and drops.
LEMMA NextStatement ==
    ASSUME DropsAreFinal, NEW a \in Nat, NEW k \in Nat, a < Len(Scripts),
           k < Len(Scripts[a + 1])
    PROVE  SchemaAt(a, k + 1) =
              (SchemaAt(a, k) \cup Scripts[a + 1][k + 1].adds) \ Scripts[a + 1][k + 1].drops
<1> DEFINE c == a + 1
           s == Scripts[c][k + 1]
<1>1. c \in All /\ k + 1 \in Lines(c) /\ s \in Statement
    BY ScriptTypes DEF Lines
<1>2. \A m \in All : \A i \in Lines(m) :
          Past(m, i, a, k + 1) <=> Past(m, i, a, k) \/ (m = c /\ i = k + 1)
    BY ScriptTypes DEF Past, Lines
<1>3. \A m \in All : \A i \in Lines(m) :
          Past(m, i, a, k) => Scripts[m][i].drops \cap s.adds = {}
  <2> SUFFICES ASSUME NEW m \in All, NEW i \in Lines(m), Past(m, i, a, k)
               PROVE  Scripts[m][i].drops \cap s.adds = {}
      OBVIOUS
  <2>1. m < c \/ (m = c /\ i < k + 1)
      BY ScriptTypes DEF Past, Lines
  <2> QED
      BY <1>1, <2>1 DEF DropsAreFinal
<1>4. s.adds \subseteq Objects
    BY <1>1 DEF Statement
<1> HIDE DEF s, c
<1>5. \A o : AddedAt(o, a, k + 1) <=> AddedAt(o, a, k) \/ o \in s.adds
    BY <1>1, <1>2 DEF AddedAt, s
<1>6. \A o : DroppedAt(o, a, k + 1) <=> DroppedAt(o, a, k) \/ o \in s.drops
    BY <1>1, <1>2 DEF DroppedAt, s
<1>7. \A o : o \in s.adds => ~DroppedAt(o, a, k)
    BY <1>3 DEF DroppedAt
<1>8. SchemaAt(a, k + 1) = (SchemaAt(a, k) \cup s.adds) \ s.drops
    BY <1>4, <1>5, <1>6, <1>7 DEF SchemaAt
<1> QED
    BY <1>8 DEF s, c

\* The end of a script is the beginning of the next.
LEMMA NextScript ==
    ASSUME NEW a \in Nat, a < Len(Scripts)
    PROVE  SchemaAt(a, Len(Scripts[a + 1])) = SchemaAt(a + 1, 0)
<1>1. \A m \in All : \A i \in Lines(m) :
          Past(m, i, a, Len(Scripts[a + 1])) <=> Past(m, i, a + 1, 0)
    BY ScriptTypes DEF Past, Lines
<1>2. \A o : /\ AddedAt(o, a, Len(Scripts[a + 1])) <=> AddedAt(o, a + 1, 0)
             /\ DroppedAt(o, a, Len(Scripts[a + 1])) <=> DroppedAt(o, a + 1, 0)
    BY <1>1 DEF AddedAt, DroppedAt
<1> QED
    BY <1>2 DEF SchemaAt

\* A script that was begun cannot be begun again.
LEMMA NotTwice ==
    ASSUME FirstMarks, NEW a \in Nat, NEW k \in Nat, NEW m \in All, Len(Scripts[m]) > 0,
           Past(m, 1, a, k), schema = SchemaAt(a, k)
    PROVE  ~Runs(Scripts[m][1])
<1>1. 1 \in Lines(m) /\ Scripts[m][1] \in Statement
    BY ScriptTypes DEF Lines
<1>2. CASE Scripts[m][1].drops # {}
  <2>1. PICK o \in Scripts[m][1].drops : TRUE
      BY <1>2
  <2>2. DroppedAt(o, a, k)
      BY <1>1, <2>1 DEF DroppedAt
  <2> QED
      BY <2>1, <2>2 DEF SchemaAt, Runs
<1>3. ASSUME NEW o \in Scripts[m][1].adds,
             \A n \in All : \A j \in Lines(n) : o \notin Scripts[n][j].drops
      PROVE  ~Runs(Scripts[m][1])
  <2>1. AddedAt(o, a, k) /\ ~DroppedAt(o, a, k) /\ o \in Objects
      BY <1>1, <1>3 DEF AddedAt, DroppedAt, Statement
  <2> QED
      BY <1>3, <2>1 DEF SchemaAt, Runs
<1> QED
    BY <1>2, <1>3 DEF FirstMarks

\* All the scripts leave what a migrated database holds.
LEMMA WholeSchema == SchemaAt(Len(Scripts), 0) = SchemaOf(All)
<1>1. \A m \in All : \A i \in Lines(m) : Past(m, i, Len(Scripts), 0)
    BY ScriptTypes DEF Past
<1>2. \A m \in All : DOMAIN Scripts[m] = Lines(m)
    BY ScriptsAssumption DEF All, Lines
<1>3. \A o : AddedAt(o, Len(Scripts), 0) <=>
             \E m \in All : \E i \in DOMAIN Scripts[m] : o \in Scripts[m][i].adds
    BY <1>1, <1>2 DEF AddedAt
<1>4. \A o : DroppedAt(o, Len(Scripts), 0) <=>
             \E m \in All : \E i \in DOMAIN Scripts[m] : o \in Scripts[m][i].drops
    BY <1>1, <1>2 DEF DroppedAt
<1>5. \A o : AddedAt(o, Len(Scripts), 0) => o \in Objects
  <2> SUFFICES ASSUME NEW o, NEW m \in All, NEW i \in Lines(m), o \in Scripts[m][i].adds
               PROVE  o \in Objects
      BY DEF AddedAt
  <2>1. Scripts[m][i] \in Statement
      BY ScriptTypes
  <2> QED
      BY <2>1 DEF Statement
<1>6. \A o : o \in SchemaOf(All) <=>
            /\ \E m \in All : \E i \in DOMAIN Scripts[m] : o \in Scripts[m][i].adds
            /\ ~\E m \in All : \E i \in DOMAIN Scripts[m] : o \in Scripts[m][i].drops
  <2>1. \A s : s \in StatementsOf(All) <=>
              \E m \in All : \E i \in DOMAIN Scripts[m] : s = Scripts[m][i]
      BY DEF StatementsOf
  <2>2. \A o : o \in SchemaOf(All) <=>
              /\ \E s \in StatementsOf(All) : o \in s.adds
              /\ ~\E s \in StatementsOf(All) : o \in s.drops
      BY DEF SchemaOf
  <2>3. \A m \in All : \A i \in DOMAIN Scripts[m] : Scripts[m][i] \in StatementsOf(All)
      BY DEF StatementsOf
  <2>4. \A o : (\E s \in StatementsOf(All) : o \in s.adds) <=>
               (\E m \in All : \E i \in DOMAIN Scripts[m] : o \in Scripts[m][i].adds)
      BY <2>1, <2>3
  <2>5. \A o : (\E s \in StatementsOf(All) : o \in s.drops) <=>
               (\E m \in All : \E i \in DOMAIN Scripts[m] : o \in Scripts[m][i].drops)
      BY <2>1, <2>3
  <2> QED
      BY <2>2, <2>4, <2>5
<1> QED
    BY <1>3, <1>4, <1>5, <1>6 DEF SchemaAt

-----------------------------------------------------------------------------
(* The steps.                                                              *)

\* q has begun a script; nobody but p has.
Begun(q) == opening[q].pc = "migrating" /\ opening[q].statement > 1
Alone(p) == \A q \in Proc \ {p} : ~Begun(q)

\* How an opening may stand when the database is at b and l.
Stands(o, b, l) ==
    /\ o.pc = "open" => b = Len(Scripts)
    /\ o.pc = "migrating" =>
          \E c \in 1..Len(Scripts) :
             /\ o.todo = c..Len(Scripts) /\ c <= b + 1
             /\ o.statement > 1 => c = b + 1 /\ o.statement = l + 1

\* A process moves; the database goes on only as far as nobody else notices.
LEMMA Moves ==
    ASSUME TypeInv, NEW a \in Nat, NEW k \in Nat, Placed(a, k),
           NEW p \in Proc, NEW o \in Opening, Opens(p, o),
           NEW b \in Nat, NEW l \in Nat, a <= b, Within(b, l),
           applied' = 1..b, schema' = SchemaAt(b, l), Stands(o, b, l),
           (a = b /\ k = l /\ ~(o.pc = "migrating" /\ o.statement > 1)) \/ Alone(p)
    PROVE  Placed(b, l)'
<1>1. /\ opening' = [q \in Proc |-> opening'[q]] /\ opening'[p] = o
      /\ \A q \in Proc \ {p} : opening'[q] = opening[q]
      /\ Len(Scripts) \in Nat
    BY ScriptTypes DEF TypeInv, TypeOK, MigrationTypeOK, Opens
<1>2. SchemaAt(b, l)' = SchemaAt(b, l)
    BY DEF SchemaAt, AddedAt, DroppedAt, Past, Lines, All
<1>3. ASSUME NEW q \in Proc, opening'[q].pc = "open"
      PROVE  b = Len(Scripts)
    BY <1>1, <1>3 DEF Placed, Stands, Within
<1>4. ASSUME NEW q \in Proc, opening'[q].pc = "migrating"
      PROVE  Follows(q, b, l)'
  <2>1. CASE q = p
    <3>1. PICK c \in 1..Len(Scripts) :
             /\ o.todo = c..Len(Scripts) /\ c <= b + 1
             /\ o.statement > 1 => c = b + 1 /\ o.statement = l + 1
        BY <1>1, <1>4, <2>1 DEF Stands
    <3>2. Current(q)' = c
        BY <1>1, <2>1, <3>1 DEF Current
    <3> QED
        BY <1>1, <2>1, <3>1, <3>2 DEF Follows
  <2>2. CASE q # p
    <3>1. opening'[q] = opening[q]
        BY <1>1, <2>2
    <3>2. Follows(q, a, k) /\ Current(q)' = Current(q)
        BY <1>4, <3>1 DEF Placed, Current
    <3>3. Current(q) \in Nat
        BY <1>4, <3>1, CurrentType, ScriptTypes
    <3>4. opening[q].statement > 1 => a = b /\ k = l
        BY <1>4, <2>2, <3>1 DEF Begun, Alone
    <3> QED
        BY <3>1, <3>2, <3>3, <3>4 DEF Follows
  <2> QED
      BY <2>1, <2>2
<1>5. ASSUME NEW q \in Proc, NEW r \in Proc,
             opening'[q].pc = "migrating", opening'[q].statement > 1,
             opening'[r].pc = "migrating", opening'[r].statement > 1
      PROVE  q = r
    BY <1>1, <1>5 DEF Placed, Begun, Alone
<1>6. Within(b, l)'
    BY DEF Within
<1> QED
    BY <1>2, <1>3, <1>4, <1>5, <1>6 DEF Placed

\* Where a process that migrates is.
LEMMA Position ==
    ASSUME TypeInv, NEW a \in Nat, NEW k \in Nat, Placed(a, k),
           NEW p \in Proc, opening[p].pc = "migrating"
    PROVE  /\ opening[p] \in Opening /\ opening[p].statement \in Nat \ {0}
           /\ Current(p) \in 1..Len(Scripts) /\ Current(p) \in All /\ Current(p) <= a + 1
           /\ opening[p].todo = Current(p)..Len(Scripts)
           /\ opening[p].statement > 1 =>
                 Current(p) = a + 1 /\ opening[p].statement = k + 1
           /\ a \in 0..Len(Scripts) /\ applied = 1..a /\ schema = SchemaAt(a, k)
           /\ Len(Scripts[Current(p)]) \in Nat
           /\ a < Len(Scripts) => k <= Len(Scripts[a + 1])
           /\ a = Len(Scripts) => k = 0
<1>1. opening[p] \in Opening
    BY DEF TypeInv, TypeOK, MigrationTypeOK
<1>2. Current(p) \in All
    BY CurrentType
<1>3. Follows(p, a, k) /\ Within(a, k)
    BY DEF Placed
<1> QED
    BY <1>1, <1>2, <1>3, ScriptTypes DEF Follows, Placed, Within, Opening

\* A process that leaves, or fails, changes nothing for the others.
LEMMA Leaves ==
    ASSUME TypeInv, NEW a \in Nat, NEW k \in Nat, Placed(a, k),
           NEW p \in Proc, Opens(p, Closed), UNCHANGED schemaVars
    PROVE  Placed(a, k)'
<1>1. Within(a, k) /\ applied' = 1..a /\ schema' = SchemaAt(a, k) /\ a <= a
    BY DEF Placed, schemaVars
<1>2. Closed \in Opening /\ Closed.pc # "open" /\ Closed.pc # "migrating"
    BY ClosedType
<1>3. Stands(Closed, a, k)
    BY <1>2 DEF Stands
<1> QED
    BY <1>1, <1>2, <1>3, Moves

\* What a process reads as applied is what the database is.
LEMMA Connects ==
    ASSUME TypeInv, NEW a \in Nat, NEW k \in Nat, Placed(a, k), NEW p \in Proc, Connect(p)
    PROVE  Placed(a, k)'
<1> DEFINE o == With(Pending(applied))
<1>1. /\ Within(a, k) /\ a <= Len(Scripts) /\ a <= a
      /\ applied = 1..a /\ applied' = 1..a /\ schema' = SchemaAt(a, k)
    BY DEF Placed, Within, schemaVars, Connect
<1>2. Pending(applied) = (a + 1)..Len(Scripts)
    BY <1>1, ScriptTypes DEF Pending
<1>a. Pending(applied) \in SUBSET All
    BY DEF Pending
<1>3. o \in Opening /\ o.todo = (a + 1)..Len(Scripts) /\ o.statement = 1
      /\ o.pc = (IF o.todo = {} THEN "open" ELSE "migrating")
    BY <1>2, <1>a, WithType DEF With
<1>4. o.todo = {} => a = Len(Scripts)
  <2>1. a + 1 <= Len(Scripts) => a + 1 \in o.todo
      BY <1>3, ScriptTypes
  <2> QED
      BY <1>1, <2>1, ScriptTypes
<1>5. o.todo # {} => a + 1 \in 1..Len(Scripts)
    BY <1>1, <1>3, ScriptTypes
<1>6. Opens(p, o)
    BY DEF Connect
<1> HIDE DEF o
<1>7. Stands(o, a, k)
    BY <1>3, <1>4, <1>5 DEF Stands
<1>8. ~(o.statement > 1)
    BY <1>3
<1> QED
    BY <1>1, <1>3, <1>6, <1>7, <1>8, Moves

\* Only the next statement of the whole can run.
LEMMA OnlyTheNext ==
    ASSUME FirstMarks, TypeInv, NEW a \in Nat, NEW k \in Nat, Placed(a, k),
           NEW p \in Proc, ExecuteStatement(p)
    PROVE  Current(p) = a + 1 /\ opening[p].statement = k + 1
<1> DEFINE c == Current(p)
<1>1. opening[p].pc = "migrating" /\ opening[p].statement <= Len(Scripts[c])
      /\ Runs(Scripts[c][opening[p].statement])
    BY DEF ExecuteStatement, Executing
<1>2. /\ opening[p].statement \in Nat \ {0} /\ c \in All /\ c \in Nat /\ c <= a + 1
      /\ opening[p].statement > 1 => c = a + 1 /\ opening[p].statement = k + 1
      /\ schema = SchemaAt(a, k) /\ Len(Scripts[c]) \in Nat
    BY <1>1, Position
<1>3. CASE opening[p].statement > 1
    BY <1>2, <1>3
<1>4. CASE opening[p].statement = 1
  <2>1. ~Past(c, 1, a, k)
      BY <1>1, <1>2, <1>4, NotTwice
  <2> QED
      BY <1>2, <1>4, <2>1 DEF Past
<1> QED
    BY <1>2, <1>3, <1>4

\* The statement that runs is the next of the whole, and nobody else is at it.
LEMMA Executes ==
    ASSUME DropsAreFinal, FirstMarks, TypeInv, NEW a \in Nat, NEW k \in Nat, Placed(a, k),
           NEW p \in Proc, ExecuteStatement(p)
    PROVE  Placed(a, k + 1)'
<1> DEFINE c == Current(p)
           o == [opening[p] EXCEPT !.statement = @ + 1]
<1>1. opening[p].pc = "migrating" /\ opening[p].statement <= Len(Scripts[c])
      /\ schema' = (schema \cup Scripts[c][opening[p].statement].adds)
                   \ Scripts[c][opening[p].statement].drops
      /\ applied' = applied /\ Opens(p, o)
    BY DEF ExecuteStatement, Executing
<1>2. c = a + 1 /\ opening[p].statement = k + 1
    BY OnlyTheNext
<1>3. /\ opening[p] \in Opening /\ c \in 1..Len(Scripts)
      /\ opening[p].todo = c..Len(Scripts) /\ applied = 1..a /\ schema = SchemaAt(a, k)
      /\ Len(Scripts[c]) \in Nat /\ Len(Scripts) \in Nat
    BY <1>1, Position, ScriptTypes
<1>4. /\ o \in Opening /\ o.pc = "migrating" /\ o.todo = c..Len(Scripts)
      /\ o.statement = k + 2
    BY <1>1, <1>2, <1>3 DEF Opening
<1>5. a < Len(Scripts) /\ k < Len(Scripts[a + 1]) /\ k + 1 \in Nat
    BY <1>1, <1>2, <1>3
<1>6. schema' = SchemaAt(a, k + 1)
    BY <1>1, <1>2, <1>3, <1>5, NextStatement
<1>7. Alone(p)
  <2> SUFFICES ASSUME NEW q \in Proc \ {p}, Begun(q)
               PROVE  FALSE
      BY DEF Alone
  <2>1. opening[q].statement = k + 1
      BY Position DEF Begun
  <2> QED
      BY <1>1, <1>2, <2>1 DEF Begun, Placed
<1> HIDE DEF o, c
<1>8. Stands(o, a, k + 1)
    BY <1>2, <1>3, <1>4 DEF Stands
<1>9. Within(a, k + 1) /\ a <= a /\ applied' = 1..a
    BY <1>1, <1>2, <1>3, <1>5 DEF Within
<1> QED
    BY <1>1, <1>4, <1>5, <1>6, <1>7, <1>8, <1>9, Moves

\* The record of a script that was not recorded ends it, for everybody.
LEMMA Records ==
    ASSUME TypeInv, NEW a \in Nat, NEW k \in Nat, Placed(a, k),
           NEW p \in Proc, RecordMigration(p), Current(p) \notin applied
    PROVE  Placed(a + 1, 0)'
<1> DEFINE c == Current(p)
           o == With(opening[p].todo \ {c})
<1>1. opening[p].pc = "migrating" /\ opening[p].statement > Len(Scripts[c])
      /\ applied' = applied \cup {c} /\ schema' = schema /\ Opens(p, o)
  <2>1. opening[p].pc = "migrating" /\ ~(opening[p].statement <= Len(Scripts[c]))
      BY DEF RecordMigration, Executing
  <2> QED
      BY <2>1, Position DEF RecordMigration
<1>2. /\ opening[p].statement \in Nat \ {0} /\ c \in 1..Len(Scripts) /\ c <= a + 1
      /\ opening[p].statement > 1 => c = a + 1 /\ opening[p].statement = k + 1
      /\ opening[p].todo = c..Len(Scripts) /\ applied = 1..a /\ schema = SchemaAt(a, k)
      /\ Len(Scripts[c]) \in Nat /\ Len(Scripts) \in Nat
      /\ a < Len(Scripts) => k <= Len(Scripts[a + 1])
    BY <1>1, Position, ScriptTypes
<1>3. c = a + 1 /\ a < Len(Scripts)
    BY <1>2
<1>4. k = Len(Scripts[a + 1])
    BY <1>1, <1>2, <1>3
<1>5. schema' = SchemaAt(a + 1, 0)
    BY <1>1, <1>2, <1>3, <1>4, NextScript
<1>6. applied' = 1..(a + 1)
    BY <1>1, <1>2, <1>3
<1>7. opening[p].todo \ {c} = (a + 2)..Len(Scripts) /\ opening[p].todo \ {c} \in SUBSET All
    BY <1>2, <1>3, ScriptTypes
<1>8. o \in Opening /\ o.todo = (a + 2)..Len(Scripts) /\ o.statement = 1
      /\ o.pc = (IF o.todo = {} THEN "open" ELSE "migrating")
    BY <1>7, WithType DEF With
<1>11. Alone(p)
  <2> SUFFICES ASSUME NEW q \in Proc \ {p}, Begun(q)
               PROVE  FALSE
      BY DEF Alone
  <2>1. opening[q].statement = k + 1
      BY Position DEF Begun
  <2> QED
      BY <1>1, <1>2, <1>4, <1>3, <2>1 DEF Begun, Placed
<1> HIDE DEF o, c
<1>9. o.todo = {} => a + 1 = Len(Scripts)
  <2>1. a + 2 <= Len(Scripts) => a + 2 \in o.todo
      BY <1>2, <1>8
  <2> QED
      BY <1>2, <1>3, <2>1
<1>10. o.todo # {} => a + 2 \in 1..Len(Scripts)
    BY <1>2, <1>3, <1>8
<1>12. Stands(o, a + 1, 0)
    BY <1>8, <1>9, <1>10 DEF Stands
<1>13. Within(a + 1, 0)
  <2>1. a + 1 < Len(Scripts) => Len(Scripts[(a + 1) + 1]) \in Nat
      BY <1>2, ScriptTypes
  <2> QED
      BY <1>2, <1>3, <2>1 DEF Within
<1>14. a + 1 \in Nat /\ 0 \in Nat /\ a <= a + 1
    OBVIOUS
<1> QED
    BY <1>1, <1>5, <1>6, <1>8, <1>11, <1>12, <1>13, <1>14, Moves

-----------------------------------------------------------------------------
(* The theorem.                                                            *)

\* The database moves at most one statement, or one record, at a time.
LEMMA PlacedSteps ==
    ASSUME DropsAreFinal, FirstMarks, TypeInv, NEW a \in Nat, NEW k \in Nat, Placed(a, k),
           NEW p \in Proc, Connect(p) \/ Migrate(p) \/ Close(p) \/ Die(p)
    PROVE  \E b, l \in Nat : Placed(b, l)'
<1>1. CASE Connect(p)
    BY <1>1, Connects
<1>2. CASE ExecuteStatement(p)
  <2>1. Placed(a, k + 1)' /\ k + 1 \in Nat
      BY <1>2, Executes
  <2> QED
      BY <2>1
<1>3. CASE StatementFails(p) \/ Close(p) \/ Die(p)
    BY <1>3, Leaves DEF StatementFails, Close, Die
<1>4. CASE RecordMigration(p) /\ Current(p) \in applied
  <2>1. Opens(p, Closed) /\ UNCHANGED schemaVars
      BY <1>4 DEF RecordMigration, schemaVars
  <2> QED
      BY <2>1, Leaves
<1>5. CASE RecordMigration(p) /\ Current(p) \notin applied
  <2>1. Placed(a + 1, 0)' /\ a + 1 \in Nat
      BY <1>5, Records
  <2> QED
      BY <2>1
<1> QED
    BY <1>1, <1>2, <1>3, <1>4, <1>5 DEF Migrate

\* Every step of the history leaves the database at some place.
LEMMA PlacedNext ==
    ASSUME DropsAreFinal, FirstMarks, TypeInv, NEW a \in Nat, NEW k \in Nat, Placed(a, k),
           [Next]_vars
    PROVE  \E b, l \in Nat : Placed(b, l)'
<1>1. \/ \E p \in Proc : Connect(p) \/ Migrate(p) \/ Close(p) \/ Die(p)
      \/ UNCHANGED migrationVars
    BY DEF vars, Next, RunStep, Start, Open, StartRun, OutOfRuns, NoPackage, ListApplications,
           Reconcile, RefreshIndex, Plan, Verify, Publish, Link, Finish, Abort, Fail,
           ReadHistory, ReadErrors, Prune, Exit, Crash
<1>2. CASE UNCHANGED migrationVars
  <2>1. UNCHANGED <<schema, applied, opening>>
      BY <1>2 DEF migrationVars, schemaVars
  <2>2. SchemaAt(a, k)' = SchemaAt(a, k)
      BY DEF SchemaAt, AddedAt, DroppedAt, Past, Lines, All
  <2>3. \A q : Follows(q, a, k)' = Follows(q, a, k)
      BY <2>1 DEF Follows, Current
  <2>5. Within(a, k)' = Within(a, k)
      BY DEF Within
  <2>4. Placed(a, k)'
      BY <2>1, <2>2, <2>3, <2>5 DEF Placed
  <2> QED
      BY <2>4
<1> QED
    BY <1>1, <1>2, PlacedSteps

\* At first nothing has run.
LEMMA PlacedInit == Init => Placed(0, 0)
<1> SUFFICES ASSUME Init
             PROVE  Placed(0, 0)
    OBVIOUS
<1>1. /\ schema = {} /\ applied = {}
      /\ \A q \in Proc : opening[q].pc = "closed"
    BY DEF Init, MigrationInit, Closed
<1>2. \A m \in All : \A i \in Lines(m) : ~Past(m, i, 0, 0)
    BY ScriptTypes DEF Past, Lines
<1>3. SchemaAt(0, 0) = {}
    BY <1>2 DEF SchemaAt, AddedAt
<1>4. 0 < Len(Scripts) => Len(Scripts[0 + 1]) \in Nat
    BY ScriptTypes
<1>5. 1..0 = {} /\ Len(Scripts) \in Nat
    BY ScriptTypes
<1> QED
    BY <1>1, <1>3, <1>4, <1>5 DEF Placed, Within

\* Whoever gets past the opening finds every script applied, and the whole schema,
\* however many processes migrate the database at once, statement by statement and
\* without a lock, and wherever they die: the first statement of a script takes the
\* place of the lock, for scripts whose first statement fails when it is repeated.
THEOREM OpensMigrated ==
    ASSUME DropsAreFinal, FirstMarks
    PROVE  Spec => []OpenIsMigrated
<1>1. Init => MigrationInv
    BY Initial, PlacedInit DEF MigrationInv
<1>2. MigrationInv /\ [Next]_vars => MigrationInv'
  <2> SUFFICES ASSUME MigrationInv, [Next]_vars
               PROVE  MigrationInv'
      OBVIOUS
  <2>1. IInv'
      BY Inductive DEF MigrationInv
  <2>2. PICK a, k \in Nat : Placed(a, k)
      BY DEF MigrationInv
  <2>3. \E b, l \in Nat : Placed(b, l)'
      BY <2>2, PlacedNext DEF MigrationInv, IInv
  <2> QED
      BY <2>1, <2>3 DEF MigrationInv
<1>3. MigrationInv => OpenIsMigrated
  <2> SUFFICES ASSUME MigrationInv, NEW p \in Proc, opening[p].pc = "open"
               PROVE  applied = All /\ schema = SchemaOf(All)
      BY DEF OpenIsMigrated
  <2>1. PICK a, k \in Nat : Placed(a, k)
      BY DEF MigrationInv
  <2>2. a = Len(Scripts) /\ k = 0
      BY <2>1 DEF Placed, Within
  <2> QED
      BY <2>1, <2>2, WholeSchema, ScriptTypes DEF Placed
<1> QED
    BY <1>1, <1>2, <1>3, PTL DEF Spec

=============================================================================
