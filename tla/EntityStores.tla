--------------------------- MODULE EntityStores ---------------------------
(***************************************************************************)
(* DBApp (db/DBApp.cpp) and the store behind it: files                         *)
(* (core/FileEntityStore.cpp), MySQL or PostgreSQL (db/*EntityStore.cpp,       *)
(* db/*Connection.cpp).  DBApp handles one request at a time, and a request is *)
(* a job of several statements: between two of them the database may drop the  *)
(* session or DBApp may crash.                                                 *)
(*                                                                         *)
(* What is abstracted: an entity's properties are a version, a password is     *)
(* left out, the avatars stand for every type but Account, and the statements' *)
(* texts and bindings are what they do to the tables.                          *)
(***************************************************************************)
EXTENDS Integers, Sequences, FiniteSets

CONSTANTS
    MaxId, MaxVersion,  \* bounds: ids given, versions of an entity
    Users,              \* names of accounts
    MaxTroubles         \* bound: statements and connections refused, sessions lost,
                        \* crashes and timeouts, together

ASSUME StoresAssumption ==
    /\ {MaxId, MaxVersion, MaxTroubles} \subseteq Nat
    /\ IsFiniteSet(Users) /\ "nobody" \notin Users

Ids == 1..MaxId
Torn == -1              \* a file that was truncated and not written
Nobody == "nobody"

VARIABLES
    backend,    \* Config::storeBackend
    autoCreate, \* Config::dbAutoCreateSchema
    up,         \* DBApp runs
    db,         \* what is stored: the id counter, the rows, the account index, the tables
    txn,        \* the open transaction's view of it, if there is one
    known,      \* knownTables_
    link,       \* the session: "up", "lost" (and DBApp does not know), "down"
    job,        \* the request DBApp works on
    requests,   \* what is on its way to DBApp
    answers,    \* and to the base
    troubles,   \* counted
    given,      \* history: how often an id was given
    mishap,     \* history: "torn", a file truncated and not written, for a crash or a
                \* full disk, "unwritten", a file that could not be opened
    halved      \* history: the accounts whose createAccount lost its MySQL session in
                \* its transaction, and those whose index row another one replaced

storeVars == <<backend, autoCreate, up, db, txn, known, link, job, troubles,
               given, mishap, halved>>

NoJob == [op |-> "none", id |-> 0, v |-> 0, user |-> Nobody, req |-> 0,
          at |-> "done", out |-> {}]

SchemaTables == IF backend = "mysql" /\ autoCreate THEN {"Account"} ELSE {}

StoresInit ==
    /\ backend \in {"file", "mysql", "postgresql"}
    /\ autoCreate \in IF backend = "mysql" THEN BOOLEAN ELSE {FALSE}
    /\ up = TRUE /\ link = "up" /\ txn = <<>>
    /\ db = [next |-> 0, avatars |-> [i \in Ids |-> 0],
             accounts |-> [i \in Ids |-> Nobody], index |-> [u \in Users |-> 0],
             tables |-> SchemaTables]
    /\ known = SchemaTables
    /\ job = NoJob /\ requests = <<>> /\ answers = <<>>
    /\ troubles = 0
    /\ given = [i \in Ids |-> 0] /\ mishap = {} /\ halved = {}

-----------------------------------------------------------------------------
(* Sessions and statements.                                                  *)
Sql == backend # "file"
MayFail == troubles < MaxTroubles
Outcome(ok, now, cost) == [ok |-> ok, link |-> now, cost |-> cost]

\* MySQLConnection: a ping finds a lost session out, and a new one replaces it.
MySQLConnected ==
    IF link = "up" THEN {Outcome(TRUE, "up", 0)}
    ELSE {Outcome(TRUE, "up", 0)} \cup
         (IF MayFail THEN {Outcome(FALSE, "down", 1)} ELSE {})

\* PostgreSQLConnection: the status of a lost session still says it is there; one
\* that is known to be lost is reset, and success is reported in any case.
PostgreSQLConnected ==
    IF link # "down" THEN {Outcome(TRUE, link, 0)}
    ELSE {Outcome(TRUE, "up", 0)} \cup
         (IF MayFail THEN {Outcome(TRUE, "down", 1)} ELSE {})

Connected ==
    CASE backend = "file" -> {Outcome(TRUE, "up", 0)}
      [] backend = "mysql" -> MySQLConnected
      [] backend = "postgresql" -> PostgreSQLConnected

\* What a statement, or the opening of a file, comes to: it may be refused, and
\* one that goes to a dead session fails.
Sent(c) ==
    IF ~c.ok THEN {c}
    ELSE IF c.link # "up" THEN {[c EXCEPT !.ok = FALSE, !.link = "down"]}
    ELSE {c} \cup (IF MayFail THEN {[c EXCEPT !.ok = FALSE, !.cost = 1]} ELSE {})

Statement == UNION {Sent(c) : c \in Connected}

Spent(s) == link' = s.link /\ troubles' = troubles + s.cost

View == IF txn = <<>> THEN db ELSE txn[1]

\* A statement's effect: in the transaction, or at once when there is none.
Put(new) ==
    IF txn = <<>> THEN db' = new /\ UNCHANGED txn ELSE txn' = <<new>> /\ UNCHANGED db

\* CREATE TABLE, which in MySQL commits the transaction it is in.
PutTable(new) ==
    IF backend = "mysql" THEN db' = new /\ txn' = <<>> ELSE Put(new)

Execute(effect, then, otherwise) ==
    \E s \in Statement :
        /\ Spent(s)
        /\ IF s.ok THEN Put(effect) /\ job' = then
           ELSE UNCHANGED <<db, txn>> /\ job' = otherwise

\* Rows are read, or none when the statement fails.
Query(then, otherwise) ==
    \E s \in Statement :
        Spent(s) /\ UNCHANGED <<db, txn>> /\ job' = IF s.ok THEN then ELSE otherwise

To(at) == [job EXCEPT !.at = at]
Done(out) == [job EXCEPT !.at = "done", !.out = out]
Failed == Done({})

-----------------------------------------------------------------------------
(* The order of a job's statements.                                          *)
Table(op) == IF op = "create" THEN "Account" ELSE "Avatar"

\* createAccount: PostgreSQL makes its table in the transaction, in save.
PostgreSQLCreate == <<"dup", "alloc", "begin", "table", "row", "index", "commit">>

\* In MySQL a CREATE TABLE would end the transaction.
MySQLCreate == <<"table", "dup", "alloc", "begin", "row", "index", "commit">>

\* DBApp's own, which has no index.
FileCreate == <<"dup", "alloc", "row">>

\* Mutant: MySQL's createAccount leaves its table to save, as it once did.
CreateLate == IF Sql THEN PostgreSQLCreate ELSE FileCreate

\* Mutant: the id is allocated in the transaction, and a rollback gives it back.
CreateWhole ==
    IF Sql THEN <<"table", "dup", "begin", "alloc", "row", "index", "commit">> ELSE FileCreate

Create ==
    CASE backend = "file" -> FileCreate
      [] backend = "mysql" -> MySQLCreate
      [] backend = "postgresql" -> PostgreSQLCreate

Steps(op) ==
    CASE op = "create" -> Create
      [] op \in {"load", "save", "list"} /\ Sql -> <<"table", op>>
      [] OTHER -> <<op>>

After(at) ==
    LET steps == Steps(job.op)
    IN steps[1 + CHOOSE i \in DOMAIN steps : steps[i] = at]

\* What a job does not touch, unless it says so.
Aside == <<backend, autoCreate, up, requests, answers>>
History == <<given, mishap, halved>>

\* handleInvocation, in the order the requests came: the job starts with
\* ensureConnected.
Handle ==
    /\ up /\ job = NoJob /\ requests # <<>>
    /\ LET r == Head(requests)
           j == [NoJob EXCEPT !.op = r.op, !.id = r.id, !.v = r.v, !.user = r.user, !.req = r.req]
       IN \E c \in Connected :
             Spent(c) /\ job' = [j EXCEPT !.at = IF c.ok THEN Steps(r.op)[1] ELSE "done"]
    /\ requests' = Tail(requests)
    /\ UNCHANGED <<backend, autoCreate, up, db, txn, known, answers, History>>

\* A LoginApp's request; the bound is that one waits at a time.
CreateAccount(user) ==
    /\ up /\ \A k \in DOMAIN requests : requests[k].op # "create"
    /\ requests' = Append(requests, [op |-> "create", id |-> 0, v |-> 0, user |-> user, req |-> 0])
    /\ UNCHANGED <<storeVars, answers>>

-----------------------------------------------------------------------------
(* The statements.                                                           *)
\* ensureTable
EnsureTable ==
    /\ job.at = "table"
    /\ LET tbl == Table(job.op)
       IN IF tbl \in known
          THEN job' = To(After("table")) /\ UNCHANGED <<link, troubles, db, txn, known>>
          ELSE \E s \in Statement :
                  /\ Spent(s)
                  /\ IF s.ok
                     THEN /\ PutTable([View EXCEPT !.tables = @ \cup {tbl}])
                          /\ known' = known \cup {tbl}
                          /\ job' = To(After("table"))
                     ELSE /\ job' = IF After("table") = "row" THEN To("rollback") ELSE Failed
                          /\ UNCHANGED <<db, txn, known>>
    /\ UNCHANGED <<Aside, History>>

HasTable == ~Sql \/ Table(job.op) \in View.tables

LoadRow ==
    /\ job.at = "load"
    /\ Query(IF HasTable THEN Done({View.avatars[job.id]} \ {0, Torn}) ELSE Failed, Failed)
    /\ UNCHANGED <<Aside, known, History>>

ListIds ==
    /\ job.at = "list"
    /\ Query(IF HasTable THEN Done({i \in Ids : View.avatars[i] # 0}) ELSE Failed, Failed)
    /\ UNCHANGED <<Aside, known, History>>

\* listEntityTypes: whether there is a table, or a directory, of avatars.
ListTypes ==
    /\ job.at = "types"
    /\ LET found == IF Sql THEN "Avatar" \in View.tables
                    ELSE \E i \in Ids : View.avatars[i] # 0
       IN Query(Done(IF found THEN {1} ELSE {}), Failed)
    /\ UNCHANGED <<Aside, known, History>>

\* save in SQL: an upsert.
SaveRow ==
    /\ job.at = "save" /\ Sql
    /\ IF HasTable
       THEN Execute([View EXCEPT !.avatars[job.id] = job.v], Done({1}), Failed)
       ELSE Query(Failed, Failed)
    /\ UNCHANGED <<Aside, known, History>>

\* save in a file: it is truncated and then written.
SaveFile ==
    /\ ~Sql
    /\ \/ job.at = "save" /\ Execute([db EXCEPT !.avatars[job.id] = Torn], To("write"), Failed)
       \/ job.at = "row" /\ Execute([db EXCEPT !.accounts[job.id] = Nobody], To("write"), Failed)
    /\ UNCHANGED <<Aside, known, History>>

\* What is written into a truncated file is all there, or the disk was full.
Writes(whole) ==
    /\ whole \/ MayFail
    /\ troubles' = IF whole THEN troubles ELSE troubles + 1
    /\ mishap' = IF whole THEN mishap ELSE mishap \cup {"torn"}

\* A full disk may show only when the file is closed, and save has then looked.
WriteFile ==
    /\ job.at = "write"
    /\ \E whole \in BOOLEAN :
          /\ Writes(whole)
          /\ \/ /\ job.op = "save"
                /\ db' = [db EXCEPT !.avatars[job.id] = IF whole THEN job.v ELSE Torn]
                /\ job' = Done({1}) \/ (~whole /\ job' = Failed)
             \/ /\ job.op = "create"
                /\ db' = [db EXCEPT !.accounts[job.id] = IF whole THEN job.user ELSE Nobody]
                /\ job' = Done({job.id}) \/ (~whole /\ job' = Failed)
    /\ UNCHANGED <<Aside, txn, known, link, given, halved>>

\* allocId in SQL: one upsert that counts.  The bound is a statement that fails.
Alloc ==
    /\ job.at = "alloc" /\ Sql
    /\ LET id == View.next + 1
           then == IF backend = "mysql" THEN "readback" ELSE "given"
       IN IF id > MaxId THEN Query(Failed, Failed)
          ELSE Execute([View EXCEPT !.next = id], [job EXCEPT !.id = id, !.at = then], Failed)
    /\ UNCHANGED <<Aside, known, History>>

\* MySQL reads the session's last id back, which a new session does not have.
ReadBack ==
    /\ job.at = "readback"
    /\ Query(IF link = "up" THEN To("given") ELSE Failed, Failed)
    /\ UNCHANGED <<Aside, known, History>>

\* allocId in a file: it is read, truncated and written; one that cannot be opened
\* is not written, and the id is given all the same.
AllocFile ==
    /\ job.at = "alloc" /\ ~Sql
    /\ \/ /\ db.next < MaxId
          /\ \E s \in Statement :
                /\ Spent(s)
                /\ job' = [job EXCEPT !.id = db.next + 1, !.at = IF s.ok THEN "count" ELSE "given"]
                /\ db' = IF s.ok THEN [db EXCEPT !.next = 0] ELSE db
                /\ mishap' = IF s.ok THEN mishap ELSE mishap \cup {"unwritten"}
       \/ /\ db.next = MaxId /\ job' = Failed
          /\ UNCHANGED <<link, troubles, db, mishap>>
    /\ UNCHANGED <<Aside, txn, known, given, halved>>

\* Whether the counter was written is not asked.
WriteCounter ==
    /\ job.at = "count"
    /\ \E whole \in BOOLEAN :
          Writes(whole) /\ db' = [db EXCEPT !.next = IF whole THEN job.id ELSE 0]
    /\ job' = To("given")
    /\ UNCHANGED <<Aside, txn, known, link, given, halved>>

\* The id is the caller's.
Give ==
    /\ job.at = "given"
    /\ given' = [given EXCEPT ![job.id] = @ + 1]
    /\ job' = IF job.op = "alloc" THEN Done({job.id}) ELSE To(After("alloc"))
    /\ UNCHANGED <<Aside, db, txn, known, link, troubles, mishap, halved>>

-----------------------------------------------------------------------------
(* createAccount.                                                            *)
\* A query that fails finds no account.
Duplicate ==
    /\ job.at = "dup"
    /\ LET taken == IF Sql THEN View.index[job.user] # 0
                    ELSE \E i \in Ids : View.accounts[i] = job.user
       IN Query(IF taken THEN Failed ELSE To(After("dup")), To(After("dup")))
    /\ UNCHANGED <<Aside, known, History>>

BeginTransaction ==
    /\ job.at = "begin"
    /\ \E s \in Statement :
          /\ Spent(s)
          /\ txn' = IF s.ok THEN <<db>> ELSE txn
          /\ job' = IF s.ok THEN To(After("begin")) ELSE Failed
    /\ UNCHANGED <<Aside, db, known, History>>

SaveAccount ==
    /\ job.at = "row" /\ Sql
    /\ IF HasTable
       THEN Execute([View EXCEPT !.accounts[job.id] = job.user], To("index"), To("rollback"))
       ELSE Query(To("rollback"), To("rollback"))
    /\ UNCHANGED <<Aside, known, History>>

InsertIndex ==
    /\ job.at = "index"
    /\ Execute([View EXCEPT !.index[job.user] = job.id], To("commit"), To("rollback"))
    /\ halved' = halved \cup ({View.index[job.user]} \ {0})
    /\ UNCHANGED <<Aside, known, given, mishap>>

\* The answer to a COMMIT may be lost after it was done.
Commit ==
    /\ job.at = "commit"
    /\ \/ \E s \in Statement :
             /\ Spent(s)
             /\ job' = IF s.ok THEN Done({job.id}) ELSE To("rollback")
             /\ IF s.ok THEN db' = View /\ txn' = <<>> ELSE UNCHANGED <<db, txn>>
       \/ /\ link = "up" /\ MayFail
          /\ Spent(Outcome(FALSE, "lost", 1))
          /\ job' = To("rollback") /\ db' = View /\ txn' = <<>>
    /\ UNCHANGED <<Aside, known, History>>

\* A rollback that does not arrive comes with the end of the session.
Rollback ==
    /\ job.at = "rollback"
    /\ \E s \in Statement : Spent(s)
    /\ txn' = <<>>
    /\ job' = Failed
    /\ UNCHANGED <<Aside, db, known, History>>

JobStep ==
    \/ EnsureTable \/ LoadRow \/ ListIds \/ ListTypes \/ SaveRow \/ SaveFile \/ Alloc
    \/ ReadBack \/ AllocFile \/ WriteCounter \/ WriteFile \/ Give \/ Duplicate \/ BeginTransaction
    \/ SaveAccount \/ InsertIndex \/ Commit \/ Rollback

-----------------------------------------------------------------------------
(* The database's end of a session, and DBApp's.                             *)
LoseSession ==
    /\ up /\ Sql /\ link = "up" /\ MayFail
    /\ troubles' = troubles + 1
    /\ link' = "lost" /\ txn' = <<>>
    /\ halved' = IF txn = <<>> \/ backend # "mysql" \/ job.at = "rollback"
                 THEN halved ELSE halved \cup {job.id}
    /\ UNCHANGED <<backend, autoCreate, up, requests, answers, db, known, job, given, mishap>>

CrashDBApp ==
    /\ up /\ MayFail
    /\ troubles' = troubles + 1
    /\ up' = FALSE /\ link' = "down" /\ txn' = <<>> /\ known' = {}
    /\ job' = NoJob /\ requests' = <<>>
    /\ mishap' = IF job.at \in {"write", "count"} THEN mishap \cup {"torn"} ELSE mishap
    /\ UNCHANGED <<backend, autoCreate, answers, db, given, halved>>

\* init
InitDBApp ==
    /\ ~up /\ up' = TRUE /\ link' = "up"
    /\ known' = SchemaTables
    /\ db' = [db EXCEPT !.tables = @ \cup SchemaTables]
    /\ UNCHANGED <<backend, autoCreate, txn, job, requests, answers, troubles, History>>
=============================================================================
