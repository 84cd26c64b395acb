-------------------------- MODULE Migrations_proofs --------------------------
(***************************************************************************)
(* For any number of commands, scripts, migration files and statements, on *)
(* SQLite and on Postgres, whatever fails and is started again: the        *)
(* recorded versions tell what is in the schema, and a command that gets   *)
(* ready has the whole schema, made by migrations alone.                   *)
(***************************************************************************)
EXTENDS Migrations, WellFoundedInduction, TLAPS

\* A nonempty set of numbers has a least element, and Min is it.
LEMMA MinIsLeast ==
  ASSUME NEW S \in SUBSET Nat, S # {}
  PROVE  Min(S) \in S /\ \A n \in S : Min(S) <= n
<1>1. PICK m \in S : \A n \in S : <<n, m>> \notin OpToRel(<, Nat)
  BY NatLessThanWellFounded, WFMin, Zenon
<1>2. \A n \in S : ~ (n < m)
  BY <1>1 DEF OpToRel
<1>3. \A n \in S : m <= n
  BY <1>2
<1>4. QED BY <1>3 DEF Min

\* The files are not empty, and a later one ends later.
LEMMA EndsGrow ==
  /\ 1 \in Files /\ Versions \in Files /\ Files \subseteq Nat
  /\ \A v \in Files : Ends[v] \in Nat \ {0}
  /\ \A v, w \in Files : v <= w => Ends[v] <= Ends[w]
  /\ \A v, w \in Files : v < w => Ends[v] < Ends[w]
  /\ 1 \in Statements /\ Statements \subseteq Nat
<1> USE MigrationAssumption DEF Files
<1>1. /\ 1 \in Files /\ Versions \in Files /\ Files \subseteq Nat
      /\ \A v \in Files : Ends[v] \in Nat \ {0}
  OBVIOUS
<1>2. \A v, w \in Files : v < w => Ends[v] < Ends[w]
  OBVIOUS
<1>3. \A v, w \in Files : v <= w => Ends[v] <= Ends[w]
  <2> SUFFICES ASSUME NEW v \in Files, NEW w \in Files, v <= w PROVE Ends[v] <= Ends[w]
    OBVIOUS
  <2>1. CASE v = w
    BY <1>1, <2>1
  <2>2. CASE v < w
    BY <1>1, <1>2, <2>2
  <2>3. QED BY <1>1, <2>1, <2>2
<1>4. 1 \in Statements /\ Statements \subseteq Nat
  BY <1>1 DEF Statements
<1>5. QED BY <1>1, <1>2, <1>3, <1>4

\* The files up to k hold every statement up to the end of k: each belongs to the
\* first file that does not end before it.
LEMMA FilesCoverStatements ==
  ASSUME NEW k \in Files
  PROVE  UNION {StatementsOf(v) : v \in 1 .. k} = Applied(k)
<1>1. ASSUME NEW s \in Applied(k) PROVE \E v \in 1 .. k : s \in StatementsOf(v)
  <2> DEFINE S == {v \in Files : s <= Ends[v]}
  <2>1. k \in S /\ S \subseteq Nat /\ s \in Statements
    BY EndsGrow DEF Applied
  <2>2. Min(S) \in S /\ \A v \in S : Min(S) <= v
    BY <2>1, MinIsLeast
  <2>3. \A w \in Files : w < Min(S) => s > Ends[w]
    BY <2>1, <2>2, EndsGrow
  <2>4. Min(S) \in 1 .. k
    BY <2>1, <2>2, EndsGrow DEF Files
  <2>5. s \in StatementsOf(Min(S))
    BY <2>1, <2>2, <2>3 DEF StatementsOf
  <2>6. QED BY <2>4, <2>5
<1>2. ASSUME NEW v \in 1 .. k, NEW s \in StatementsOf(v) PROVE s \in Applied(k)
  <2>1. v \in Files /\ v <= k
    BY EndsGrow DEF Files
  <2>2. Ends[v] <= Ends[k] /\ Ends[v] \in Nat /\ Ends[k] \in Nat
    BY <2>1, EndsGrow
  <2>3. s \in Statements /\ s <= Ends[v]
    BY DEF StatementsOf
  <2>4. QED BY <2>2, <2>3, EndsGrow DEF Applied
<1>3. QED BY <1>1, <1>2

\* All files hold all statements; the first statement is the first file's first.
LEMMA AllFiles ==
  /\ UNION {StatementsOf(v) : v \in Files} = Statements
  /\ 1 \in StatementsOf(1)
<1>1. Applied(Versions) = Statements
  BY EndsGrow DEF Applied, Statements
<1>2. UNION {StatementsOf(v) : v \in Files} = Statements
  BY <1>1, FilesCoverStatements, EndsGrow DEF Files
<1>3. 1 \in StatementsOf(1)
  BY EndsGrow DEF StatementsOf, Files
<1>4. QED BY <1>2, <1>3

\* A file's statements are statements.
LEMMA StatementsTyped == \A v \in Files : StatementsOf(v) \subseteq Statements
BY DEF StatementsOf

-----------------------------------------------------------------------------
Processes == Commands \cup Scripts

\* The processes, the schema and the open transactions keep their types.
LEMMA TypeStep == TypeOK /\ [Next]_vars => TypeOK'
<1> SUFFICES ASSUME TypeOK, [Next]_vars PROVE TypeOK'
  OBVIOUS
<1> USE MigrationAssumption
<1>1. CASE UNCHANGED vars
  BY <1>1 DEF TypeOK, vars
<1>2. ASSUME NEW p \in Commands, ReadVersions(p), UNCHANGED dialect PROVE TypeOK'
  BY <1>2 DEF TypeOK, ReadVersions, schema
<1>3. ASSUME NEW p \in Commands, Execute(p), UNCHANGED dialect PROVE TypeOK'
  <2>1. Left(p) \subseteq Statements /\ Left(p) # {}
    BY <1>3 DEF Execute, Left, StatementsOf
  <2>2. Min(Left(p)) \in Statements
    BY <2>1, EndsGrow, MinIsLeast
  <2>3. QED BY <1>3, <2>2 DEF TypeOK, Execute, schema
<1>4. ASSUME NEW p \in Commands, Commit(p), UNCHANGED dialect PROVE TypeOK'
  <2>1. todo[p] \subseteq Files /\ todo[p] # {}
    BY <1>4 DEF TypeOK, Commit
  <2>2. File(p) \in Files
    BY <2>1, EndsGrow, MinIsLeast DEF File
  <2>3. objects' \in SUBSET Statements
    BY <1>4 DEF TypeOK, Commit
  <2>4. ran' \in [Commands \cup Scripts -> SUBSET Statements] /\ todo' \in [Commands -> SUBSET Files]
    BY <1>4 DEF TypeOK, Commit
  <2>5. QED BY <1>4, <2>2, <2>3, <2>4 DEF TypeOK, Commit
<1>5. ASSUME NEW p \in Commands, Ready(p), UNCHANGED dialect PROVE TypeOK'
  BY <1>5 DEF TypeOK, Ready, schema
<1>6. ASSUME NEW p \in Processes, Fail(p), UNCHANGED dialect, faults' \in 0 .. MaxFaults PROVE TypeOK'
  BY <1>6 DEF TypeOK, Fail, schema, Processes
<1>7. ASSUME NEW p \in Commands, Collide(p), UNCHANGED dialect PROVE TypeOK'
  BY <1>6, <1>7 DEF TypeOK, Collide, Processes
<1>8. ASSUME NEW q \in Scripts, Check(q), UNCHANGED dialect PROVE TypeOK'
  BY <1>8 DEF TypeOK, Check, schema
<1>9. ASSUME NEW q \in Scripts, ScriptExecutes(q), UNCHANGED dialect PROVE TypeOK'
  <2>1. Min(Statements \ ran[q]) \in Statements
    BY <1>9, EndsGrow, MinIsLeast DEF ScriptExecutes
  <2>2. /\ objects' \in SUBSET Statements /\ foreign' \in SUBSET Statements
        /\ ran' \in [Commands \cup Scripts -> SUBSET Statements]
    BY <1>9, <2>1 DEF TypeOK, ScriptExecutes
  <2>3. QED BY <1>9, <2>2 DEF TypeOK, ScriptExecutes
<1>10. ASSUME NEW q \in Scripts, ScriptCollides(q), UNCHANGED dialect PROVE TypeOK'
  BY <1>6, <1>10 DEF TypeOK, ScriptCollides, Processes
<1>11. ASSUME NEW q \in Scripts, ScriptReady(q), UNCHANGED dialect PROVE TypeOK'
  BY <1>11 DEF TypeOK, ScriptReady, schema
<1>12. ASSUME NEW p \in Processes, Fault(p), UNCHANGED dialect PROVE TypeOK'
  <2>1. faults' \in 0 .. MaxFaults
    BY <1>12 DEF TypeOK, Fault
  <2>2. QED BY <1>6, <1>12, <2>1 DEF Fault
<1>13. ASSUME NEW p \in Processes, Restart(p), UNCHANGED dialect PROVE TypeOK'
  BY <1>13 DEF TypeOK, Restart, schema, Processes
<1>14. QED
  BY <1>1, <1>2, <1>3, <1>4, <1>5, <1>7, <1>8, <1>9, <1>10, <1>11, <1>12, <1>13
  DEF Next, Migrate, ApplySchema, Processes

-----------------------------------------------------------------------------
\* A command's transaction executes statements of one file, the first one it has not
\* applied; what it read of schema_migrations is still recorded.
Transaction(p) ==
  /\ ran[p] # {} => pc[p] = "migrate" /\ todo[p] # {}
  /\ pc[p] = "migrate" => Files \ todo[p] \subseteq versions
  /\ pc[p] = "migrate" /\ todo[p] # {} => ran[p] \subseteq StatementsOf(File(p))
  /\ pc[p] = "ready" => versions = Files

\* A script begins with the first statement, on SQLite.
Script(q) ==
  /\ pc[q] = "script" => dialect = "sqlite"
  /\ ran[q] # {} => 1 \in foreign

\* A database is the collectors' or the scripts': the first statement decides.
Parted ==
  /\ versions # {} => 1 \in versions
  /\ foreign # {} => 1 \in foreign /\ \A p \in Commands : ran[p] = {}

IInv ==
  /\ TypeOK
  /\ LedgerTellsSchema
  /\ Parted
  /\ \A p \in Commands : Transaction(p)
  /\ \A q \in Scripts : Script(q)

-----------------------------------------------------------------------------
\* The versions and statements a transaction is about.
LEMMA FileOf ==
  ASSUME NEW p \in Commands, TypeOK, todo[p] # {}
  PROVE  /\ File(p) \in todo[p] /\ File(p) \in Files
         /\ \A v \in todo[p] : File(p) <= v
         /\ Left(p) \subseteq StatementsOf(File(p)) /\ Left(p) \subseteq Nat
<1>1. todo[p] \in SUBSET Nat
  BY EndsGrow DEF TypeOK
<1>2. File(p) \in todo[p] /\ \A v \in todo[p] : File(p) <= v
  BY <1>1, MinIsLeast DEF File
<1>3. QED BY <1>2, EndsGrow DEF TypeOK, Left, StatementsOf

\* A process that leaves objects, foreign and versions alone, and has no transaction.
LEMMA Idles ==
  ASSUME NEW p \in Processes, IInv, TypeOK', UNCHANGED <<schema, dialect>>,
         p \in Commands => Transaction(p)', p \in Scripts => Script(p)',
         \A o \in Processes \ {p} : pc'[o] = pc[o] /\ ran'[o] = ran[o],
         \A o \in Commands \ {p} : todo'[o] = todo[o],
         p \in Commands /\ foreign # {} => ran'[p] = {}
  PROVE  IInv'
<1> USE MigrationAssumption
<1>1. LedgerTellsSchema'
  BY DEF IInv, LedgerTellsSchema, schema
<1>2. Parted'
  BY DEF IInv, Parted, schema, Processes
<1>3. ASSUME NEW o \in Commands PROVE Transaction(o)'
  <2>1. CASE o = p
    BY <2>1
  <2>2. CASE o # p
    BY <2>2 DEF IInv, Transaction, File, schema, Processes
  <2>3. QED BY <2>1, <2>2
<1>4. ASSUME NEW o \in Scripts PROVE Script(o)'
  BY DEF IInv, Script, schema, Processes
<1>5. QED BY <1>1, <1>2, <1>3, <1>4 DEF IInv

\* appliedVersions: what is not to do is recorded.
LEMMA Reads ==
  ASSUME NEW p \in Commands, IInv, TypeOK', ReadVersions(p), UNCHANGED dialect
  PROVE  IInv'
<1> USE MigrationAssumption
<1>1. pc[p] = "start" /\ pc'[p] = "migrate" /\ todo'[p] = Files \ versions /\ ran' = ran
      /\ UNCHANGED <<schema, dialect>>
  BY DEF IInv, TypeOK, ReadVersions
<1>2. ran[p] = {} /\ versions' = versions
  BY <1>1 DEF IInv, Transaction, schema
<1>3. Transaction(p)'
  BY <1>1, <1>2 DEF IInv, TypeOK, Transaction
<1>4. \A o \in Processes \ {p} : pc'[o] = pc[o]
  BY DEF IInv, TypeOK, ReadVersions, Processes
<1>5. \A o \in Commands \ {p} : todo'[o] = todo[o]
  BY DEF IInv, TypeOK, ReadVersions
<1>6. QED BY <1>1, <1>2, <1>3, <1>4, <1>5, Idles DEF Processes

\* A statement of a command is executed in a schema without a script's statements:
\* beside them the command would collide at the first statement.
LEMMA Executes ==
  ASSUME NEW p \in Commands, IInv, TypeOK', Execute(p), UNCHANGED dialect
  PROVE  IInv'
<1> USE MigrationAssumption
<1> DEFINE s == Min(Left(p))
<1>1. /\ pc[p] = "migrate" /\ todo[p] # {} /\ s \notin objects /\ ran'[p] = ran[p] \cup {s}
      /\ UNCHANGED <<schema, pc, todo, dialect>> /\ Left(p) # {}
  BY DEF IInv, TypeOK, Execute
<1>2. s \in Left(p) /\ \A t \in Left(p) : s <= t
  BY <1>1, FileOf, MinIsLeast DEF IInv
<1>3. s \in StatementsOf(File(p))
  BY <1>1, <1>2, FileOf DEF IInv
<1>4. foreign = {}
  <2> SUFFICES ASSUME foreign # {} PROVE FALSE
    OBVIOUS
  <2>1. versions = {} /\ 1 \in objects /\ ran[p] = {}
    BY DEF IInv, LedgerTellsSchema, Parted
  <2>2. 1 \in todo[p]
    BY <1>1, <2>1, EndsGrow DEF IInv, Transaction
  <2>3. File(p) = 1
    BY <1>1, <2>2, FileOf, EndsGrow DEF IInv, Files
  <2>4. 1 \in Left(p) /\ Left(p) \subseteq Statements
    BY <2>1, <2>3, AllFiles, StatementsTyped, EndsGrow DEF Left
  <2>5. s <= 1 /\ s \in Statements
    BY <1>2, <2>4
  <2>6. s = 1
    BY <2>5, EndsGrow DEF Statements
  <2>7. QED BY <1>1, <2>1, <2>6
<1> HIDE DEF s
<1>5. Transaction(p)'
  BY <1>1, <1>3 DEF IInv, Transaction, File, schema
<1>6. \A o \in Processes \ {p} : ran'[o] = ran[o]
  BY DEF IInv, TypeOK, Execute, Processes
<1>7. QED BY <1>1, <1>4, <1>5, <1>6, Idles DEF Processes

\* The whole file and its version at once.
LEMMA CommitsFile ==
  ASSUME NEW p \in Commands, IInv, TypeOK', Commit(p), UNCHANGED dialect
  PROVE  IInv'
<1> USE MigrationAssumption
<1> DEFINE f == File(p)
<1>1. /\ pc[p] = "migrate" /\ todo[p] # {} /\ Left(p) = {} /\ objects' = objects \cup ran[p]
      /\ versions' = versions \cup {f} /\ todo'[p] = todo[p] \ {f} /\ ran'[p] = {}
      /\ UNCHANGED <<foreign, pc, dialect>>
  BY DEF IInv, TypeOK, Commit
<1>2. f \in todo[p] /\ f \in Files /\ \A v \in todo[p] : f <= v
  BY <1>1, FileOf DEF IInv
<1> HIDE DEF f
<1>3. ran[p] = StatementsOf(f)
  BY <1>1 DEF IInv, Transaction, Left, f
<1>4. ran[p] # {}
  <2>1. CASE f = 1
    BY <1>3, <2>1, AllFiles
  <2>2. CASE f # 1
    <3>1. f - 1 \in Files /\ f - 1 < f
      BY <1>2, <2>2 DEF Files
    <3>2. \A w \in Files : w < f => Ends[w] < Ends[f] /\ Ends[f] \in Nat
      BY <1>2, EndsGrow
    <3>3. Ends[f] \in StatementsOf(f)
      <4>1. Ends[f] \in Statements
        BY <1>2, EndsGrow DEF Statements, Files
      <4>2. QED BY <3>2, <4>1, <1>2, EndsGrow DEF StatementsOf
    <3>4. QED BY <1>3, <3>3
  <2>3. QED BY <2>1, <2>2
<1>5. foreign = {}
  BY <1>4 DEF IInv, Parted
<1>6. LedgerTellsSchema'
  <2>1. objects = UNION {StatementsOf(v) : v \in versions}
    BY <1>5 DEF IInv, LedgerTellsSchema
  <2>2. \A s : s \in objects <=> \E v \in versions : s \in StatementsOf(v)
    BY <2>1
  <2>3. \A s : s \in objects' <=> \E v \in versions' : s \in StatementsOf(v)
    BY <1>1, <1>3, <2>2
  <2>4. QED BY <1>1, <1>5, <2>3 DEF LedgerTellsSchema
<1>7. 1 \in versions'
  <2>1. CASE 1 \in todo[p]
    BY <1>1, <1>2, <2>1, EndsGrow DEF Files
  <2>2. CASE 1 \notin todo[p]
    BY <1>1, <2>2, EndsGrow DEF IInv, Transaction
  <2>3. QED BY <2>1, <2>2
<1>8. Parted'
  BY <1>1, <1>5, <1>7 DEF Parted
<1>9. ASSUME NEW o \in Commands PROVE Transaction(o)'
  <2>1. CASE o = p
    BY <1>1, <2>1 DEF IInv, Transaction
  <2>2. CASE o # p
    <3>1. ran'[o] = ran[o] /\ todo'[o] = todo[o] /\ pc'[o] = pc[o]
      BY <1>1, <2>2 DEF Commit, IInv, TypeOK
    <3>2. versions \subseteq versions' /\ versions' \subseteq Files
      BY <1>1 DEF TypeOK
    <3>3. QED BY <3>1, <3>2 DEF IInv, Transaction, File
  <2>3. QED BY <2>1, <2>2
<1>10. ASSUME NEW o \in Scripts PROVE Script(o)'
  <2>1. ran'[o] = ran[o] /\ o # p
    BY DEF Commit, IInv, TypeOK
  <2>2. QED BY <1>1, <2>1 DEF IInv, Script
<1>11. QED BY <1>6, <1>8, <1>9, <1>10 DEF IInv

\* Nothing left to apply: every version is recorded.
LEMMA GetsReady ==
  ASSUME NEW p \in Commands, IInv, TypeOK', Ready(p), UNCHANGED dialect
  PROVE  IInv'
<1> USE MigrationAssumption
<1>1. pc[p] = "migrate" /\ todo[p] = {} /\ pc'[p] = "ready" /\ UNCHANGED <<schema, todo, ran, dialect>>
  BY DEF IInv, TypeOK, Ready
<1>2. versions = Files /\ ran[p] = {}
  BY <1>1 DEF IInv, TypeOK, Transaction
<1>3. Transaction(p)'
  BY <1>1, <1>2 DEF Transaction, schema
<1>4. \A o \in Processes \ {p} : pc'[o] = pc[o]
  BY DEF IInv, TypeOK, Ready, Processes
<1>5. QED BY <1>1, <1>2, <1>3, <1>4, Idles DEF Processes

\* An error or a kill: what was open is rolled back.
LEMMA FailsOver ==
  ASSUME NEW p \in Processes, IInv, TypeOK', Fail(p), UNCHANGED dialect
  PROVE  IInv'
<1> USE MigrationAssumption
<1>1. pc'[p] = "failed" /\ ran'[p] = {} /\ UNCHANGED <<schema, todo, dialect>>
  BY DEF IInv, TypeOK, Fail, Processes
<1>2. \A o \in Processes \ {p} : pc'[o] = pc[o] /\ ran'[o] = ran[o]
  BY DEF IInv, TypeOK, Fail, Processes
<1>3. QED BY <1>1, <1>2, Idles DEF Transaction, Script

\* A failed process has no transaction; it begins again.
LEMMA Restarts ==
  ASSUME NEW p \in Processes, IInv, TypeOK', Restart(p), UNCHANGED dialect
  PROVE  IInv'
<1> USE MigrationAssumption
<1>1. pc[p] = "failed" /\ pc'[p] = "start" /\ UNCHANGED <<schema, todo, ran, dialect>>
  BY DEF IInv, TypeOK, Restart, Processes
<1>2. \A o \in Processes \ {p} : pc'[o] = pc[o]
  BY DEF IInv, TypeOK, Restart, Processes
<1>3. p \in Commands => ran[p] = {}
  BY <1>1 DEF IInv, Transaction
<1>4. p \in Scripts => Script(p)'
  BY <1>1 DEF IInv, Script, schema
<1>5. QED BY <1>1, <1>2, <1>3, <1>4, Idles DEF Transaction

\* A script checks for the probe's table, then collides or ends.
LEMMA ScriptMoves ==
  ASSUME NEW q \in Scripts, IInv, TypeOK', Check(q) \/ ScriptReady(q), UNCHANGED dialect
  PROVE  IInv'
<1> USE MigrationAssumption
<1>1. UNCHANGED <<schema, todo, ran, dialect>> /\ (pc'[q] = "script" => dialect = "sqlite")
  <2>1. CASE Check(q)
    BY <2>1 DEF Check
  <2>2. CASE ScriptReady(q)
    BY <2>2 DEF IInv, TypeOK, ScriptReady
  <2>3. QED BY <2>1, <2>2
<1>2. \A o \in Processes \ {q} : pc'[o] = pc[o]
  <2>1. CASE Check(q)
    BY <2>1 DEF IInv, TypeOK, Check, Processes
  <2>2. CASE ScriptReady(q)
    BY <2>2 DEF IInv, TypeOK, ScriptReady, Processes
  <2>3. QED BY <2>1, <2>2
<1>3. Script(q)' /\ q \notin Commands
  BY <1>1 DEF IInv, Script, schema
<1>4. QED BY <1>1, <1>2, <1>3, Idles DEF Processes

\* A script's statement: the first one finds a database without migrations, and
\* none comes between the statements of a command's transaction.
LEMMA ScriptWrites ==
  ASSUME NEW q \in Scripts, IInv, TypeOK', ScriptExecutes(q), UNCHANGED dialect
  PROVE  IInv'
<1> USE MigrationAssumption
<1> DEFINE s == Min(Statements \ ran[q])
<1>1. /\ pc[q] = "script" /\ ~Blocked(q, s) /\ s \notin objects /\ Statements \ ran[q] # {}
      /\ ran'[q] = ran[q] \cup {s} /\ objects' = objects \cup {s} /\ foreign' = foreign \cup {s}
      /\ UNCHANGED <<versions, pc, todo, dialect>>
  BY DEF IInv, TypeOK, ScriptExecutes
<1>2. s \in Statements \ ran[q] /\ \A t \in Statements \ ran[q] : s <= t
  BY <1>1, EndsGrow, MinIsLeast
<1> HIDE DEF s
<1>3. \A p \in Commands : ran[p] = {} /\ ran'[p] = {}
  <2>1. dialect = "sqlite" /\ \A p \in Commands : p # q
    BY <1>1 DEF IInv, Script
  <2>2. \A p \in Commands : ran[p] = {}
    BY <1>1, <2>1 DEF Blocked
  <2>3. QED BY <2>1, <2>2 DEF IInv, TypeOK, ScriptExecutes
<1>4. 1 \in foreign'
  <2>1. CASE ran[q] # {}
    BY <1>1, <2>1 DEF IInv, Script
  <2>2. CASE ran[q] = {}
    <3>1. s <= 1 /\ s \in Statements
      BY <1>2, <2>2, EndsGrow
    <3>2. s = 1
      BY <3>1 DEF Statements
    <3>3. QED BY <1>1, <3>2
  <2>3. QED BY <2>1, <2>2
<1>5. versions = {}
  <2>1. CASE foreign # {}
    BY <2>1 DEF IInv, LedgerTellsSchema
  <2>2. CASE foreign = {}
    <3>1. s = 1
      BY <1>1, <1>4, <2>2
    <3>2. 1 \notin versions
      BY <1>1, <3>1, AllFiles DEF IInv, LedgerTellsSchema
    <3>3. QED BY <3>2 DEF IInv, Parted
  <2>3. QED BY <2>1, <2>2
<1>6. LedgerTellsSchema'
  <2>1. objects = foreign
    BY <1>5 DEF IInv, LedgerTellsSchema
  <2>2. QED BY <1>1, <1>5, <2>1 DEF LedgerTellsSchema
<1>7. Parted'
  BY <1>1, <1>3, <1>4, <1>5 DEF Parted
<1>8. ASSUME NEW o \in Commands PROVE Transaction(o)'
  BY <1>1, <1>3 DEF IInv, Transaction
<1>9. ASSUME NEW o \in Scripts PROVE Script(o)'
  BY <1>1, <1>4 DEF IInv, Script
<1>10. QED BY <1>6, <1>7, <1>8, <1>9 DEF IInv

-----------------------------------------------------------------------------
\* A new database, or one an earlier release left.
LEMMA InitInv == Init => IInv
<1> SUFFICES ASSUME Init PROVE IInv
  OBVIOUS
<1> USE MigrationAssumption
<1>1. PICK k \in 0 .. Versions - 1 :
        LET made == IF k = 0 THEN {} ELSE Applied(k)
        IN  /\ objects = made
            /\ \/ versions = 1 .. k /\ foreign = {}
               \/ dialect = "sqlite" /\ versions = {} /\ foreign = made
  BY DEF Init
<1>2. objects = UNION {StatementsOf(v) : v \in 1 .. k} /\ 1 .. k \subseteq Files
  <2>1. CASE k = 0
    BY <1>1, <2>1
  <2>2. CASE k # 0
    <3>1. k \in Files
      BY <2>2 DEF Files
    <3>2. QED BY <1>1, <2>2, <3>1, FilesCoverStatements DEF Files
  <2>3. QED BY <2>1, <2>2
<1>3. objects \subseteq Statements /\ foreign \subseteq objects /\ versions \subseteq 1 .. k
  BY <1>1, <1>2, StatementsTyped
<1>4. k # 0 => 1 \in objects
  BY <1>2, AllFiles
<1>5. k = 0 => objects = {} /\ 1 .. k = {}
  BY <1>1
<1>6. TypeOK
  BY <1>2, <1>3 DEF Init, TypeOK
<1>7. LedgerTellsSchema
  BY <1>1, <1>2 DEF LedgerTellsSchema
<1>8. Parted
  <2>1. versions # {} => versions = 1 .. k /\ 1 \in versions
    BY <1>1
  <2>2. foreign # {} => foreign = objects /\ k # 0
    BY <1>1
  <2>3. QED BY <1>4, <2>1, <2>2 DEF Init, Parted
<1>9. \A p \in Commands : Transaction(p)
  BY DEF Init, Transaction
<1>10. \A q \in Scripts : Script(q)
  BY DEF Init, Script
<1>11. QED BY <1>6, <1>7, <1>8, <1>9, <1>10 DEF IInv

\* One case per action.
LEMMA StepInv == IInv /\ [Next]_vars => IInv'
<1> SUFFICES ASSUME IInv, [Next]_vars PROVE IInv'
  OBVIOUS
<1>0. TypeOK'
  BY TypeStep DEF IInv
<1>1. CASE UNCHANGED vars
  BY <1>0, <1>1 DEF IInv, vars, LedgerTellsSchema, Parted, Transaction, Script, File
<1>2. ASSUME NEW p \in Commands, Migrate(p), UNCHANGED dialect PROVE IInv'
  BY <1>0, <1>2, Reads, Executes, CommitsFile, GetsReady, FailsOver DEF Migrate, Collide, Processes
<1>3. ASSUME NEW q \in Scripts, ApplySchema(q), UNCHANGED dialect PROVE IInv'
  BY <1>0, <1>3, ScriptMoves, ScriptWrites, FailsOver DEF ApplySchema, ScriptCollides, Processes
<1>4. ASSUME NEW p \in Processes, Fault(p) \/ Restart(p), UNCHANGED dialect PROVE IInv'
  BY <1>0, <1>4, FailsOver, Restarts DEF Fault
<1>5. QED BY <1>1, <1>2, <1>3, <1>4 DEF Next, Processes

\* The schema's statements, its versions and the open transactions keep their types.
THEOREM TypeCorrect == Spec => []TypeOK
<1>1. Init => TypeOK
  BY InitInv DEF IInv
<1>2. QED BY <1>1, TypeStep, PTL DEF Spec

\* schema_migrations tells what the collectors made of the schema, and is empty
\* beside a script's statements (LedgerTellsSchema).
THEOREM LedgerIsTrue == Spec => []LedgerTellsSchema
<1>1. IInv => LedgerTellsSchema
  BY DEF IInv
<1>2. QED BY <1>1, InitInv, StepInv, PTL DEF Spec

\* A command that is ready has the whole schema, made by migrations (ReadyIsMigrated).
THEOREM ReadyHasSchema == Spec => []ReadyIsMigrated
<1>1. IInv => ReadyIsMigrated
  <2> SUFFICES ASSUME IInv, NEW p \in Commands, pc[p] = "ready"
               PROVE  objects = Statements /\ foreign = {}
    BY DEF ReadyIsMigrated
  <2>1. versions = Files
    BY DEF IInv, Transaction
  <2>2. foreign = {}
    BY <2>1, EndsGrow DEF IInv, LedgerTellsSchema
  <2>3. QED BY <2>1, <2>2, AllFiles DEF IInv, LedgerTellsSchema
<1>2. QED BY <1>1, InitInv, StepInv, PTL DEF Spec
=============================================================================
