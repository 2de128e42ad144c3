------------------------ MODULE RunStateSchemaProofs ------------------------
(***************************************************************************)
(* For any number of processes, any lists of columns and any number of     *)
(* deaths, the stored schema version is honest and only an overlapped      *)
(* opener raises.                                                          *)
(***************************************************************************)
EXTENDS RunStateSchema, TLAPS

IInv == TypeOK /\ SchemaDiscipline

(* A column a migration adds is a column of the final table.               *)
LEMMA AdditionsAreColumns ==
  /\ Elements(V2Additions) \subseteq V2Columns
  /\ Elements(V3Additions) \subseteq V3Columns
  /\ V1Columns \subseteq V2Columns /\ V2Columns \subseteq V3Columns
BY DEF V2Columns, V3Columns

(* The initial files have the shape the discipline asks for.               *)
LEMMA InitDiscipline == Init => IInv
<1> SUFFICES ASSUME Init PROVE IInv
  OBVIOUS
<1>1. TypeOK
  BY SchemaConstants, AdditionsAreColumns DEF Init, TypeOK, Steps, Closed
<1>2. FileShape
  BY AdditionsAreColumns DEF Init, FileShape
<1>3. \A p \in Openers : OpenerKnows(p) /\ AloneIsCurrent(p)
  BY DEF Init, OpenerKnows, AloneIsCurrent, Busy, Closed, Migrating
<1> QED BY <1>1, <1>2, <1>3 DEF IInv, SchemaDiscipline

(* Columns are only added and the version only becomes 3: a step of p      *)
(* leaves what the others know true, and busy ones are marked already.     *)
LEMMA OthersUndisturbed ==
  ASSUME IInv, NEW p \in Openers, NEW next \in Steps, Goto(p, next), Busy(p),
         columns \subseteq columns', columns' \subseteq V3Columns,
         version' = version \/ version' = 3,
         NEW q \in Openers, q # p, known'[q] = known[q]
  PROVE  OpenerKnows(q)' /\ AloneIsCurrent(q)'
<1>1. pc'[q] = pc[q]
  BY DEF IInv, TypeOK, Goto
<1>2. OpenerKnows(q)'
  BY <1>1 DEF IInv, SchemaDiscipline, OpenerKnows
<1>3. AloneIsCurrent(q)'
  <2>1. Busy(q)' <=> Busy(q)
    BY <1>1 DEF Busy
  <2>2. Busy(q) => q \in disturbed
    BY DEF IInv, SchemaDiscipline, AloneIsCurrent
  <2>3. disturbed' = disturbed
    BY DEF Goto
  <2> QED BY <2>1, <2>2, <2>3 DEF AloneIsCurrent
<1> QED BY <1>2, <1>3

(* A busy opener that is not disturbed is the only busy one, and stays so  *)
(* when it moves.                                                          *)
LEMMA StaysAlone ==
  ASSUME IInv, NEW p \in Openers, NEW next \in Steps, Goto(p, next), Busy(p),
         p \notin disturbed
  PROVE  \A q \in Openers : Busy(q)' => q = p
BY DEF IInv, TypeOK, SchemaDiscipline, AloneIsCurrent, Goto, Busy

(* What remains to be shown of a step of a busy opener: the file, its own  *)
(* knowledge, and that it is up to date if it is alone.                    *)
LEMMA OpenerStep ==
  ASSUME IInv, NEW p \in Openers, NEW next \in Steps, Goto(p, next), Busy(p),
         TypeOK',
         columns \subseteq columns',
         version' = version \/ version' = 3,
         \A q \in Openers : q # p => known'[q] = known[q],
         FileShape', OpenerKnows(p)',
         p \notin disturbed /\ next \in {"create", "insert"} => version' = 0,
         p \notin disturbed /\ next \in {"alter_v2", "alter_v3"}
           => known'[p] = columns'
  PROVE  IInv'
<1>1. pc'[p] = next /\ disturbed' = disturbed
  BY DEF IInv, TypeOK, Goto
<1>2. columns' \subseteq V3Columns
  BY DEF TypeOK
<1>3. AloneIsCurrent(p)'
  BY <1>1, StaysAlone DEF AloneIsCurrent
<1>4. ASSUME NEW q \in Openers, q # p PROVE OpenerKnows(q)' /\ AloneIsCurrent(q)'
  BY <1>2, <1>4, OthersUndisturbed
<1> QED BY <1>3, <1>4 DEF IInv, SchemaDiscipline

-----------------------------------------------------------------------------
(* A process that connects finds what its branch expects; if anybody is    *)
(* busy, both are marked.                                                  *)
LEMMA ConnectKeeps ==
  ASSUME IInv, NEW p \in Openers, Connect(p)
  PROVE  IInv'
<1>1. BranchOn(version) \in {"create", "read_v2", "read_v3", "ensure"}
  BY DEF IInv, TypeOK, BranchOn
<1>2. TypeOK'
  BY <1>1 DEF IInv, TypeOK, Connect, Steps
<1>3. FileShape'
  BY DEF IInv, SchemaDiscipline, FileShape, Connect
<1>4. pc'[p] = BranchOn(version) /\ \A q \in Openers : q # p => pc'[q] = pc[q]
  BY DEF IInv, TypeOK, Connect
<1>5. ASSUME NEW q \in Openers PROVE OpenerKnows(q)'
  <2>1. CASE q = p
    BY <1>1, <1>4, <2>1 DEF IInv, TypeOK, SchemaDiscipline, FileShape, Connect,
                       BranchOn, OpenerKnows, Migrating
  <2>2. CASE q # p
    BY <1>4, <2>2 DEF IInv, SchemaDiscipline, OpenerKnows, Connect
  <2> QED BY <2>1, <2>2
<1>6. ASSUME NEW q \in Openers, Busy(q)', q \notin disturbed'
      PROVE  q = p /\ \A r \in Openers : ~Busy(r)
  <2>1. q # p => Busy(q)
    BY <1>4, <1>6 DEF Busy
  <2>2. ASSUME NEW r \in Openers, Busy(r) PROVE FALSE
    BY <1>6, <2>1, <2>2 DEF Connect
  <2> QED BY <2>1, <2>2
<1>7. ASSUME NEW q \in Openers PROVE AloneIsCurrent(q)'
  <2> SUFFICES ASSUME Busy(q)', q \notin disturbed'
               PROVE  /\ \A r \in Openers : Busy(r)' => r = q
                      /\ pc'[q] \in {"create", "insert"} => version' = 0
                      /\ pc'[q] \notin {"alter_v2", "alter_v3"}
    BY DEF AloneIsCurrent
  <2>1. q = p /\ \A r \in Openers : ~Busy(r)
    BY <1>6
  <2>2. ASSUME NEW r \in Openers, Busy(r)' PROVE r = q
    BY <1>4, <2>1, <2>2 DEF Busy
  <2> QED BY <1>1, <1>4, <2>1, <2>2 DEF Connect, BranchOn, IInv, TypeOK
<1> QED BY <1>2, <1>3, <1>5, <1>7 DEF IInv, SchemaDiscipline

(* CREATE TABLE IF NOT EXISTS makes the whole table or none.               *)
LEMMA CreateKeeps ==
  ASSUME IInv, NEW p \in Openers, _create_v3_table(p)
  PROVE  IInv'
<1> DEFINE next == IF pc[p] = "create" THEN "insert" ELSE "opened"
<1>1. Goto(p, next) /\ Busy(p) /\ next \in Steps
  BY DEF _create_v3_table, Busy, Closed, Steps
<1>2. columns \subseteq columns' /\ version' = version /\ known' = known
  BY DEF _create_v3_table
<1>3. TypeOK'
  BY <1>1 DEF IInv, TypeOK, _create_v3_table, Goto
<1>4. FileShape'
  BY SchemaConstants, AdditionsAreColumns
     DEF IInv, SchemaDiscipline, FileShape, _create_v3_table
<1>5. pc'[p] = next
  BY <1>1 DEF IInv, TypeOK, Goto
<1>6. OpenerKnows(p)'
  BY <1>2, <1>5, SchemaConstants, AdditionsAreColumns
     DEF IInv, SchemaDiscipline, OpenerKnows, _create_v3_table, Migrating
<1>7. p \notin disturbed /\ next = "insert" => version' = 0
  BY <1>1, <1>2 DEF IInv, SchemaDiscipline, AloneIsCurrent
<1> HIDE DEF next
<1>8. next \in {"insert", "opened"}
  BY DEF next
<1> QED BY <1>1, <1>2, <1>3, <1>4, <1>6, <1>7, <1>8, OpenerStep

(* The version row is inserted behind a table.                             *)
LEMMA InsertKeeps ==
  ASSUME IInv, NEW p \in Openers, InsertVersion(p)
  PROVE  IInv'
<1> DEFINE next == IF version = 0 THEN "opened" ELSE "closed"
<1>1. Goto(p, next) /\ Busy(p) /\ next \in Steps
  BY DEF InsertVersion, Busy, Closed, Steps
<1>2. /\ columns' = columns /\ known' = known
      /\ version' = version \/ version' = 3
      /\ version = 0 => version' = 3
      /\ version # 0 => version' = version
  BY DEF InsertVersion
<1>3. TypeOK'
  BY <1>1, <1>2 DEF IInv, TypeOK, Goto, InsertVersion
<1>4. columns # {}
  BY DEF IInv, SchemaDiscipline, OpenerKnows, InsertVersion
<1>5. FileShape'
  BY <1>2, <1>4, AdditionsAreColumns DEF IInv, SchemaDiscipline, FileShape
<1>6. pc'[p] = next
  BY <1>1 DEF IInv, TypeOK, Goto
<1>7. OpenerKnows(p)'
  BY <1>2, <1>6 DEF OpenerKnows, Migrating
<1> HIDE DEF next
<1>8. next \in {"closed", "opened"}
  BY DEF next
<1> QED BY <1>1, <1>2, <1>3, <1>5, <1>7, <1>8, OpenerStep

(* A lone reader of the columns is up to date.                             *)
LEMMA ReadKeeps ==
  ASSUME IInv, NEW p \in Openers, ReadColumns(p)
  PROVE  IInv'
<1> DEFINE next == IF pc[p] = "read_v2" THEN "alter_v2" ELSE "alter_v3"
<1>1. Goto(p, next) /\ Busy(p) /\ next \in Steps
  BY DEF ReadColumns, Busy, Closed, Steps
<1>2. /\ columns' = columns /\ version' = version
      /\ known'[p] = columns
      /\ \A q \in Openers : q # p => known'[q] = known[q]
  BY DEF ReadColumns, IInv, TypeOK
<1>3. TypeOK'
  BY <1>1 DEF IInv, TypeOK, Goto, ReadColumns
<1>4. FileShape'
  BY <1>2 DEF IInv, SchemaDiscipline, FileShape
<1>5. pc'[p] = next
  BY <1>1 DEF IInv, TypeOK, Goto
<1>6. OpenerKnows(p)'
  BY <1>2, <1>5 DEF IInv, SchemaDiscipline, OpenerKnows, ReadColumns, Migrating
<1> HIDE DEF next
<1>7. next \in {"alter_v2", "alter_v3"}
  BY DEF next
<1> QED BY <1>1, <1>2, <1>3, <1>4, <1>6, <1>7, OpenerStep

(* The column an ALTER TABLE adds is one of the migration's.               *)
LEMMA AdditionIsColumn ==
  ASSUME NEW p \in Openers, NEW i \in 1..Len(Additions(p))
  PROVE  Additions(p)[i] \in V3Columns
<1>1. Additions(p)[i] \in Elements(Additions(p))
  BY DEF Elements
<1>2. Elements(Additions(p)) \subseteq V3Columns
  BY AdditionsAreColumns DEF Additions
<1> QED BY <1>1, <1>2

(* ALTER TABLE adds one column, to the file and to what the opener knows.  *)
LEMMA AddKeeps ==
  ASSUME IInv, NEW p \in Openers, AddColumn(p)
  PROVE  IInv'
<1>1. PICK i \in 1..Len(Additions(p)) :
        /\ Additions(p)[i] \notin known[p]
        /\ columns' = columns \cup {Additions(p)[i]}
        /\ known' = [known EXCEPT ![p] = @ \cup {Additions(p)[i]}]
        /\ Goto(p, IF Additions(p)[i] \in columns THEN "closed" ELSE pc[p])
  BY Zenon DEF AddColumn
<1>2. PICK name : name = Additions(p)[i]
  OBVIOUS
<1>3. name \in V3Columns
  BY <1>2, AdditionIsColumn
<1> DEFINE next == IF name \in columns THEN "closed" ELSE pc[p]
<1>4. pc[p] \in {"alter_v2", "alter_v3"} /\ version' = version /\ deaths' = deaths
  BY DEF AddColumn
<1>5. /\ name \notin known[p]
      /\ columns' = columns \cup {name}
      /\ known' = [known EXCEPT ![p] = @ \cup {name}]
      /\ Goto(p, next)
  BY <1>1, <1>2
<1>6. Busy(p) /\ next \in Steps
  BY <1>4 DEF Busy, Closed, Steps
<1>7. known'[p] = known[p] \cup {name} /\ \A q \in Openers : q # p => known'[q] = known[q]
  BY <1>5 DEF IInv, TypeOK
<1>8. TypeOK'
  BY <1>3, <1>4, <1>5, <1>6 DEF IInv, TypeOK, Goto
<1>9. version # 0
  BY <1>4 DEF IInv, SchemaDiscipline, OpenerKnows, Migrating
<1>10. FileShape'
  BY <1>3, <1>4, <1>5, <1>9 DEF IInv, SchemaDiscipline, FileShape
<1>11. pc'[p] = next
  BY <1>5 DEF IInv, TypeOK, Goto
<1>12. OpenerKnows(p)'
  BY <1>4, <1>5, <1>7, <1>11 DEF IInv, SchemaDiscipline, OpenerKnows, Migrating
<1>13. p \notin disturbed => known'[p] = columns'
  BY <1>4, <1>5, <1>6, <1>7 DEF IInv, SchemaDiscipline, AloneIsCurrent
<1> HIDE DEF next
<1>14. next \in {"closed", "alter_v2", "alter_v3"}
  BY <1>4 DEF next
<1> QED
  BY <1>4, <1>5, <1>6, <1>7, <1>8, <1>10, <1>12, <1>13, <1>14, OpenerStep

(* A migration is over when the columns it adds are there.                 *)
LEMMA DoneKeeps ==
  ASSUME IInv, NEW p \in Openers, MigrationDone(p)
  PROVE  IInv'
<1> DEFINE next == IF pc[p] = "alter_v2" THEN "read_v3" ELSE "update"
<1>1. Goto(p, next) /\ Busy(p) /\ next \in Steps
  BY DEF MigrationDone, Busy, Closed, Steps
<1>2. columns' = columns /\ version' = version /\ known' = known /\ deaths' = deaths
  BY DEF MigrationDone
<1>3. TypeOK'
  BY <1>1, <1>2 DEF IInv, TypeOK, Goto
<1>4. FileShape'
  BY <1>2 DEF IInv, SchemaDiscipline, FileShape
<1>5. pc'[p] = next
  BY <1>1 DEF IInv, TypeOK, Goto
<1>6. Elements(Additions(p)) \subseteq columns /\ version # 0
  BY DEF IInv, SchemaDiscipline, OpenerKnows, MigrationDone, Migrating
<1>7. pc[p] = "alter_v2" => V2Columns \subseteq columns
  BY <1>6 DEF Additions, V2Columns, IInv, SchemaDiscipline, FileShape
<1>8. pc[p] = "alter_v3" => columns = V3Columns
  BY <1>6 DEF Additions, V3Columns, IInv, SchemaDiscipline, OpenerKnows, TypeOK
<1>9. OpenerKnows(p)'
  BY <1>2, <1>5, <1>6, <1>7, <1>8 DEF OpenerKnows, Migrating, MigrationDone
<1> HIDE DEF next
<1>10. next \in {"read_v3", "update"}
  BY DEF next
<1> QED BY <1>1, <1>2, <1>3, <1>4, <1>9, <1>10, OpenerStep

(* The version is raised over a whole table.                               *)
LEMMA UpdateKeeps ==
  ASSUME IInv, NEW p \in Openers, UpdateVersion(p)
  PROVE  IInv'
<1>1. Goto(p, "opened") /\ Busy(p) /\ "opened" \in Steps
  BY DEF UpdateVersion, Busy, Closed, Steps
<1>2. columns' = columns /\ version' = 3 /\ known' = known
  BY DEF UpdateVersion
<1>3. TypeOK'
  BY <1>1, <1>2 DEF IInv, TypeOK, Goto, UpdateVersion
<1>4. columns = V3Columns
  BY DEF IInv, SchemaDiscipline, OpenerKnows, UpdateVersion
<1>5. FileShape'
  BY <1>2, <1>4, AdditionsAreColumns DEF FileShape
<1>6. pc'[p] = "opened"
  BY <1>1 DEF IInv, TypeOK, Goto
<1>7. OpenerKnows(p)'
  BY <1>2, <1>6 DEF OpenerKnows, Migrating
<1> QED BY <1>1, <1>2, <1>3, <1>5, <1>7, OpenerStep

(* A dead process takes nothing with it.                                   *)
LEMMA DieKeeps ==
  ASSUME IInv, NEW p \in Openers, Die(p)
  PROVE  IInv'
<1>1. Goto(p, "closed") /\ "closed" \in Steps
  BY DEF Die, Steps, Closed
<1>2. columns' = columns /\ version' = version /\ known' = known
  BY DEF Die
<1>3. TypeOK'
  BY <1>1, <1>2, SchemaConstants DEF IInv, TypeOK, Goto, Die
<1>4. FileShape'
  BY <1>2 DEF IInv, SchemaDiscipline, FileShape
<1>5. /\ pc'[p] = "closed" /\ disturbed' = disturbed
      /\ \A q \in Openers : q # p => pc'[q] = pc[q]
  BY <1>1 DEF IInv, TypeOK, Goto
<1>6. ASSUME NEW q \in Openers PROVE OpenerKnows(q)'
  BY <1>2, <1>5 DEF IInv, SchemaDiscipline, OpenerKnows, Migrating
<1>7. ASSUME NEW q \in Openers PROVE AloneIsCurrent(q)'
  BY <1>2, <1>5 DEF IInv, SchemaDiscipline, AloneIsCurrent, Busy, Closed
<1> QED BY <1>3, <1>4, <1>6, <1>7 DEF IInv, SchemaDiscipline

-----------------------------------------------------------------------------
(* The discipline is inductive.                                            *)
LEMMA NextKeeps == IInv /\ [Next]_vars => IInv'
<1> SUFFICES ASSUME IInv, [Next]_vars PROVE IInv'
  OBVIOUS
<1>1. CASE UNCHANGED vars
  BY <1>1 DEF vars, IInv, TypeOK, SchemaDiscipline, FileShape, OpenerKnows,
              AloneIsCurrent, Busy
<1>2. CASE Next
  <2>1. PICK p \in Openers : Connect(p) \/ Step(p) \/ Die(p)
    BY <1>2 DEF Next
  <2> QED BY <2>1, ConnectKeeps, CreateKeeps, InsertKeeps, ReadKeeps, AddKeeps,
             DoneKeeps, UpdateKeeps, DieKeeps DEF Step
<1> QED BY <1>1, <1>2

(* Types, the shape of the file and what every opener relies on hold for   *)
(* all openers, lists of columns and deaths (the constructor of            *)
(* SqliteSoftwareEngineeringRunRepository).                                *)
THEOREM SchemaDisciplineHolds == Spec => [](TypeOK /\ SchemaDiscipline)
<1>1. IInv => TypeOK /\ SchemaDiscipline
  BY DEF IInv
<1> QED BY InitDiscipline, NextKeeps, <1>1, PTL DEF Spec

(* The stored version never promises missing columns, wherever migrations  *)
(* stop and however many run at once.                                      *)
THEOREM VersionStaysHonest == Spec => []VersionIsHonest
<1>1. TypeOK /\ SchemaDiscipline => VersionIsHonest
  BY DEF TypeOK, SchemaDiscipline, FileShape, OpenerKnows, VersionIsHonest
<1> QED BY SchemaDisciplineHolds, <1>1, PTL

(* A step of an opener ends in an exception only if another one overlapped *)
(* it: a lone restart after a crash gets through the migration.            *)
THEOREM OverlapsAloneRaise == Spec => OnlyRacesRaise
<1>1. IInv => \A p \in Openers : Step(p) /\ pc'[p] = "closed" => p \in disturbed
  <2> SUFFICES ASSUME IInv, NEW p \in Openers, Step(p), pc'[p] = "closed",
                      p \notin disturbed
               PROVE  FALSE
    OBVIOUS
  <2>1. ASSUME NEW next, Goto(p, next) PROVE next = "closed"
    BY <2>1 DEF Goto, IInv, TypeOK
  <2>2. CASE InsertVersion(p)
    <3>1. version # 0
      BY <2>1, <2>2 DEF InsertVersion
    <3> QED BY <2>2, <3>1 DEF InsertVersion, IInv, SchemaDiscipline,
                              AloneIsCurrent, Busy, Closed
  <2>3. CASE AddColumn(p)
    <3>1. pc[p] \in {"alter_v2", "alter_v3"}
      BY <2>3 DEF AddColumn
    <3>2. known[p] = columns
      BY <3>1 DEF IInv, SchemaDiscipline, AloneIsCurrent, Busy, Closed
    <3>3. PICK i \in 1..Len(Additions(p)) :
            /\ Additions(p)[i] \notin known[p]
            /\ Goto(p, IF Additions(p)[i] \in columns THEN "closed" ELSE pc[p])
      BY <2>3, Zenon DEF AddColumn
    <3>4. Goto(p, pc[p])
      BY <3>2, <3>3
    <3> QED BY <2>1, <3>1, <3>4
  <2>4. CASE _create_v3_table(p)
    BY <2>1, <2>4 DEF _create_v3_table
  <2>5. CASE ReadColumns(p)
    BY <2>1, <2>5 DEF ReadColumns
  <2>6. CASE MigrationDone(p)
    BY <2>1, <2>6 DEF MigrationDone
  <2>7. CASE UpdateVersion(p)
    BY <2>1, <2>7 DEF UpdateVersion
  <2> QED BY <2>2, <2>3, <2>4, <2>5, <2>6, <2>7 DEF Step
<1>2. IInv => [\A p \in Openers : Step(p) /\ pc'[p] = "closed" => p \in disturbed]_vars
  BY <1>1
<1>3. Spec => []IInv
  BY InitDiscipline, NextKeeps, PTL DEF Spec
<1> QED BY <1>2, <1>3, PTL DEF OnlyRacesRaise
=============================================================================
