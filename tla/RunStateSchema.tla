-------------------------- MODULE RunStateSchema --------------------------
(***************************************************************************)
(* Opening the durable run state: SqliteSoftwareEngineeringRunRepository   *)
(* creates its table or migrates the one an older release left.            *)
(*                                                                         *)
(* sqlite3 opens no transaction for CREATE TABLE and ALTER TABLE, so each  *)
(* of them is committed by itself, and only the change of the version at   *)
(* the end commits with the connection.  A process may die between any     *)
(* two of them, and several processes may open one file at once.           *)
(***************************************************************************)
EXTENDS Naturals, Sequences, FiniteSets

CONSTANTS
  Openers,      \* processes that open the file
  V1Columns,    \* columns of the first release's table
  V2Additions,  \* columns _migrate_v1_to_v2 adds, in its order
  V3Additions,  \* columns _migrate_v2_to_v3 adds, in its order
  MaxDeaths     \* bound: processes that die or find the file locked

Elements(list) == {list[i] : i \in 1..Len(list)}
V2Columns == V1Columns \cup Elements(V2Additions)
V3Columns == V2Columns \cup Elements(V3Additions)

ASSUME SchemaConstants ==
  /\ V1Columns # {} /\ MaxDeaths \in Nat
  /\ V2Additions \in Seq(V3Columns) /\ V3Additions \in Seq(V3Columns)

VARIABLES
  version,   \* row of velox_schema, 0 when there is none
  columns,   \* columns of software_engineering_runs, {} when there is no table
  pc,        \* step of each opener
  known,     \* columns each opener read from PRAGMA table_info
  deaths,    \* observation: failures so far
  disturbed  \* observation: openers that another one overlapped

vars == <<version, columns, pc, known, deaths, disturbed>>

Closed == {"closed", "opened"}
Busy(p) == pc[p] \notin Closed

(* A new file, or what a release of schema 1 or 2 left.                    *)
Init ==
  /\ \/ version = 0 /\ columns = {}
     \/ version = 1 /\ columns = V1Columns
     \/ version = 2 /\ columns = V2Columns
  /\ pc = [p \in Openers |-> "closed"]
  /\ known = [p \in Openers |-> {}]
  /\ deaths = 0
  /\ disturbed = {}

Goto(p, next) == pc' = [pc EXCEPT ![p] = next] /\ UNCHANGED disturbed

(* The constructor reads the version and branches on it.                   *)
BranchOn(v) ==
  CASE v = 0 -> "create" [] v = 1 -> "read_v2" [] v = 2 -> "read_v3" [] v = 3 -> "ensure"

Connect(p) ==
  /\ pc[p] = "closed"
  /\ pc' = [pc EXCEPT ![p] = BranchOn(version)]
  /\ disturbed' = (disturbed \ {p})
       \cup (IF \E q \in Openers : Busy(q) THEN {p} \cup {q \in Openers : Busy(q)} ELSE {})
  /\ UNCHANGED <<version, columns, known, deaths>>

(* _create_v3_table: CREATE TABLE IF NOT EXISTS.                           *)
_create_v3_table(p) ==
  /\ pc[p] \in {"create", "ensure"}
  /\ columns' = IF columns = {} THEN V3Columns ELSE columns
  /\ Goto(p, IF pc[p] = "create" THEN "insert" ELSE "opened")
  /\ UNCHANGED <<version, known, deaths>>

(* The version row is inserted; its primary key refuses a second one and   *)
(* the constructor raises.                                                 *)
InsertVersion(p) ==
  /\ pc[p] = "insert"
  /\ version' = IF version = 0 THEN 3 ELSE version
  /\ Goto(p, IF version = 0 THEN "opened" ELSE "closed")
  /\ UNCHANGED <<columns, known, deaths>>

Additions(p) == IF pc[p] = "alter_v2" THEN V2Additions ELSE V3Additions

(* The two migrations read the columns there are ...                       *)
ReadColumns_Assumed(p) ==
  /\ pc[p] \in {"read_v2", "read_v3"}
  /\ known' = [known EXCEPT ![p] = IF pc[p] = "read_v2" THEN V1Columns ELSE V2Columns]
  /\ Goto(p, IF pc[p] = "read_v2" THEN "alter_v2" ELSE "alter_v3")
  /\ UNCHANGED <<version, columns, deaths>>

ReadColumns(p) ==
  /\ pc[p] \in {"read_v2", "read_v3"}
  /\ known' = [known EXCEPT ![p] = columns]
  /\ Goto(p, IF pc[p] = "read_v2" THEN "alter_v2" ELSE "alter_v3")
  /\ UNCHANGED <<version, columns, deaths>>

(* ... and add the first one missing from what they read.  A column that   *)
(* somebody else added since is a duplicate and the constructor raises.    *)
AddColumn(p) ==
  /\ pc[p] \in {"alter_v2", "alter_v3"}
  /\ \E i \in 1..Len(Additions(p)) :
       LET name == Additions(p)[i]
       IN /\ name \notin known[p]
          /\ \A j \in 1..(i - 1) : Additions(p)[j] \in known[p]
          /\ columns' = columns \cup {name}
          /\ known' = [known EXCEPT ![p] = @ \cup {name}]
          /\ Goto(p, IF name \in columns THEN "closed" ELSE pc[p])
  /\ UNCHANGED <<version, deaths>>

MigrationDone_SkipsV3(p) ==
  /\ pc[p] \in {"alter_v2", "alter_v3"}
  /\ Elements(Additions(p)) \subseteq known[p]
  /\ Goto(p, "update")
  /\ UNCHANGED <<version, columns, known, deaths>>

MigrationDone(p) ==
  /\ pc[p] \in {"alter_v2", "alter_v3"}
  /\ Elements(Additions(p)) \subseteq known[p]
  /\ Goto(p, IF pc[p] = "alter_v2" THEN "read_v3" ELSE "update")
  /\ UNCHANGED <<version, columns, known, deaths>>

UpdateVersion(p) ==
  /\ pc[p] = "update"
  /\ version' = 3
  /\ Goto(p, "opened")
  /\ UNCHANGED <<columns, known, deaths>>

(* The process dies, or a statement finds the file locked for too long.    *)
Die(p) ==
  /\ pc[p] # "closed"
  /\ deaths < MaxDeaths
  /\ deaths' = deaths + 1
  /\ Goto(p, "closed")
  /\ UNCHANGED <<version, columns, known>>

Step(p) ==
  \/ _create_v3_table(p) \/ InsertVersion(p) \/ ReadColumns(p)
  \/ AddColumn(p) \/ MigrationDone(p) \/ UpdateVersion(p)

Next == \E p \in Openers : Connect(p) \/ Step(p) \/ Die(p)

Spec == Init /\ [][Next]_vars

(* Processes run, and one that could not open the file is started again.   *)
FairSpec == Spec /\ \A p \in Openers : WF_vars(Step(p)) /\ WF_vars(Connect(p))

-----------------------------------------------------------------------------
Steps == Closed \cup {"create", "ensure", "insert", "read_v2", "alter_v2",
                      "read_v3", "alter_v3", "update"}

TypeOK ==
  /\ version \in 0..3
  /\ columns \subseteq V3Columns
  /\ pc \in [Openers -> Steps]
  /\ known \in [Openers -> SUBSET V3Columns]
  /\ deaths \in 0..MaxDeaths
  /\ disturbed \subseteq Openers

(* The stored version never promises columns that are not there, wherever  *)
(* a migration stopped and however many run at once; an opened repository  *)
(* finds every column its statements name.                                 *)
VersionIsHonest ==
  /\ version >= 1 => V1Columns \subseteq columns
  /\ version = 2 => V2Columns \subseteq columns
  /\ version = 3 => columns = V3Columns
  /\ (\E p \in Openers : pc[p] = "opened") => version = 3

(* An opener that raises was overlapped by another one: what a crashed     *)
(* migration left behind never keeps a lone restart from opening.          *)
OnlyRacesRaise ==
  [][\A p \in Openers :
       Step(p) /\ pc'[p] = "closed" => p \in disturbed]_vars

-----------------------------------------------------------------------------
(* Why the version stays honest: what each opener relies on at its step.   *)
Migrating == {"read_v2", "alter_v2", "read_v3", "alter_v3", "update"}

(* What the file looks like, whoever works on it.                          *)
FileShape ==
  /\ version = 0 => columns = {} \/ columns = V3Columns
  /\ version # 0 => V1Columns \subseteq columns
  /\ version = 2 => V2Columns \subseteq columns
  /\ version = 3 => columns = V3Columns

(* What an opener has found or done so far still holds.                    *)
OpenerKnows(p) ==
  /\ pc[p] \in Migrating => version # 0
  /\ pc[p] \in {"read_v3", "alter_v3"} => V2Columns \subseteq columns
  /\ pc[p] \in {"alter_v2", "alter_v3"} => known[p] \subseteq columns
  /\ pc[p] = "update" => columns = V3Columns
  /\ pc[p] = "insert" => columns # {}
  /\ pc[p] \in {"ensure", "opened"} => version = 3

(* An opener nobody overlapped is alone, and its reads are up to date.     *)
AloneIsCurrent(p) ==
  Busy(p) /\ p \notin disturbed =>
    /\ \A q \in Openers : Busy(q) => q = p
    /\ pc[p] \in {"create", "insert"} => version = 0
    /\ pc[p] \in {"alter_v2", "alter_v3"} => known[p] = columns

SchemaDiscipline ==
  FileShape /\ \A p \in Openers : OpenerKnows(p) /\ AloneIsCurrent(p)

(* With restarts after every failure all openers get in.                   *)
EverybodyOpens == \A p \in Openers : <>[](pc[p] = "opened")
===========================================================================
