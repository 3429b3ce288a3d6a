------------------------ MODULE Persistence_proofs ------------------------
(***************************************************************************)
(* Proofs about Persistence, for every set of accounts and every value of    *)
(* the bounds: no id is given twice (IdIsGivenOnce), an account is whole      *)
(* (AccountsAreWhole), and what was acknowledged is stored (AckedIsStored).   *)
(***************************************************************************)
EXTENDS Persistence, FiniteSetTheorems, TLAPS

-----------------------------------------------------------------------------
(* Types, and what a job may be at                                           *)

Ops == {"create", "alloc", "save", "load", "types", "list"}

Places == {"table", "dup", "alloc", "count", "readback", "given", "begin", "row",
           "write", "index", "commit", "rollback", "load", "list", "types",
           "save", "done"}

Names == Users \cup {Nobody}

Databases == [next : 0..MaxId, avatars : [Ids -> Nat \cup {Torn}], accounts : [Ids -> Names],
              index : [Users -> 0..MaxId], tables : SUBSET {"Account", "Avatar"}]

Jobs == [op : Ops \cup {"none"}, id : 0..MaxId, v : Nat, user : Names, req : Nat,
         at : Places, out : SUBSET Nat]

Calls == [op : (Ops \ {"create"}) \cup {"none"}, id : 0..MaxId, req : Nat,
          rest : SUBSET Ids, last : BOOLEAN]

Requests == [op : Ops, id : 0..MaxId, user : Names, req : Nat, v : Nat]
Answers == [op : Ops, req : Nat, out : SUBSET Nat]

StoreTypes ==
    /\ link \in {"up", "lost", "down"}
    /\ db \in Databases
    /\ txn # <<>> => txn = <<txn[1]>> /\ txn[1] \in Databases
    /\ known \in SUBSET {"Account", "Avatar"}
    /\ job \in Jobs
    /\ troubles \in Nat
    /\ given \in [Ids -> Nat]
    /\ mishap \in SUBSET {"torn", "unwritten"} /\ halved \in SUBSET Ids

TypeOK ==
    /\ backend \in {"file", "mysql", "postgresql"}
    /\ autoCreate \in BOOLEAN /\ up \in BOOLEAN
    /\ StoreTypes
    /\ requests \in Seq(Requests) /\ answers \in Seq(Answers)
    /\ baseUp \in BOOLEAN /\ served \in BOOLEAN /\ path \in {"good", "dead"}
    /\ call \in Calls
    /\ entities \in [Ids -> [v : Nat, dirty : BOOLEAN]]
    /\ latest \in [Ids -> Nat] /\ acked \in [Ids -> Nat]

\* A request is of an entity, or of an account; only LoginApp's has no id.
RequestFits(r) ==
    /\ r.op \in {"save", "load"} => r.id \in Ids
    /\ r.op = "create" => r.user \in Users /\ r.req = 0
    /\ r.op # "create" => r.req # 0

\* What a job of this kind can come to.
OutcomeFits(op, out) ==
    out # {} =>
        /\ op = "alloc" => \E i \in Ids : out = {i}
        /\ op = "load" => \E v \in out : v # 0 /\ out = {v}
        /\ op = "list" => out \subseteq Ids

\* A job is at a step of its own operation in its own store.
JobFits ==
    /\ job # NoJob => up /\ job.op # "none" /\ RequestFits(job)
    /\ OutcomeFits(job.op, job.out)
    /\ job.at \in {"load", "list", "types", "save"} => job.op = job.at
    /\ job.at \in {"dup", "begin", "row", "index", "commit", "rollback"} => job.op = "create"
    /\ job.at \in {"alloc", "count", "readback", "given"} => job.op \in {"create", "alloc"}
    /\ job.at = "write" => ~Sql /\ job.op \in {"create", "save"}
    /\ job.at = "table" => Sql /\ job.op \in {"create", "save", "load", "list"}
    /\ job.at \in {"begin", "index", "commit", "rollback"} => Sql
    /\ job.at = "count" => ~Sql
    /\ job.at = "readback" => backend = "mysql"
    /\ job.at \in {"count", "readback", "given", "begin", "row", "index", "commit"}
          => job.id \in Ids
    /\ job.at = "write" => job.id \in Ids
    /\ job.op = "create" /\ job.at = "table" /\ backend = "postgresql" => job.id \in Ids

\* A transaction is createAccount's, of a session that is there; it has what is
\* stored of everything but accounts, their index and tables.
TransactionFits ==
    txn # <<>> =>
        /\ Sql /\ link = "up" /\ job.op = "create"
        /\ job.at \in {"table", "row", "index", "commit", "rollback"}
        /\ job.at = "table" => backend = "postgresql"
        /\ txn[1].next = db.next /\ txn[1].avatars = db.avatars

Shape ==
    /\ TypeOK /\ JobFits /\ TransactionFits
    /\ \A k \in 1..Len(requests) : RequestFits(requests[k])
    /\ \A k \in 1..Len(answers) : OutcomeFits(answers[k].op, answers[k].out)

-----------------------------------------------------------------------------
(* Ids                                                                       *)

\* The counter; a file that is being written will have the job's id.
Counter == IF job.at = "count" THEN job.id ELSE db.next

\* An id that was given is counted, and the one that a job is about to give was
\* not given before.
IdsFit ==
    mishap \cap {"torn", "unwritten"} = {} =>
        /\ \A i \in Ids : given[i] <= 1 /\ (given[i] # 0 => i <= Counter)
        /\ job.at \in {"count", "readback", "given"} => given[job.id] = 0 /\ job.id <= Counter

-----------------------------------------------------------------------------
(* Accounts                                                                  *)

\* Every account is whole but for those in but, and has an id that was given.
Whole(d, but) ==
    /\ \A i \in Ids \ but : d.accounts[i] # Nobody => d.index[d.accounts[i]] = i
    /\ \A u \in Users : d.index[u] \notin {0} \cup but => d.accounts[d.index[u]] = u
    /\ \A i \in Ids : d.accounts[i] # Nobody => i <= d.next

\* createAccount has its id, and is not done.
HasId ==
    /\ job.op = "create"
    /\ \/ job.at \in {"readback", "given", "begin", "row", "index", "commit"}
       \/ job.at = "table" /\ backend = "postgresql"

InTransaction == HasId /\ job.at \notin {"readback", "given", "begin"}

\* What is stored is whole; what a transaction has when it is about to commit
\* is, too, and until then it has what was stored and what the job has put there.
\* A createAccount that goes on without its transaction makes no account whole.
AccountsFit ==
    Sql =>
        /\ Whole(db, halved)
        /\ HasId => job.id <= db.next /\ (db.accounts[job.id] = Nobody \/ job.id \in halved)
        /\ InTransaction /\ txn = <<>> =>
              (backend = "postgresql" /\ link = "lost") \/ job.id \in halved
        /\ txn # <<>> =>
              /\ job.at \in {"table", "row"} =>
                    txn[1].accounts = db.accounts /\ txn[1].index = db.index
              /\ job.at = "index" =>
                    /\ txn[1].accounts = [db.accounts EXCEPT ![job.id] = job.user]
                    /\ txn[1].index = db.index
              /\ job.at = "commit" => Whole(txn[1], halved)

-----------------------------------------------------------------------------
(* Saves                                                                     *)

\* The base waits for an answer only while it runs, and an entity that is being
\* saved is in the register.
CallFits ==
    /\ call.op = "none" <=> call = NoCall
    /\ call # NoCall => baseUp /\ call.req # 0
    /\ call.op \in {"save", "load"} => call.id \in Ids /\ call.id \notin call.rest
    /\ call.op = "save" => \A i \in call.rest \cup {call.id} : InRegister(i)
    /\ ~baseUp => \A i \in Ids : ~InRegister(i)

\* No request of the base's waits in the places after k.
NothingAfter(k) == \A l \in k+1 .. Len(requests) : requests[l].op = "create"

\* What the base waits for, in its own words.
IsCalls(x) ==
    /\ x.op = call.op
    /\ call.op \in {"save", "load"} => x.id = call.id
    /\ call.op = "save" => x.v = entities[call.id].v

\* The request that the base waits for is the last it sent, whether it is on its
\* way, at work or answered; what its answer says is so.
CallIsLast ==
    call # NoCall =>
        /\ \A k \in 1..Len(requests) : requests[k].req = call.req =>
              IsCalls(requests[k]) /\ NothingAfter(k)
        /\ job.req = call.req => IsCalls(job) /\ NothingAfter(0)
        /\ \A m \in 1..Len(answers) : answers[m].req = call.req =>
              /\ NothingAfter(0) /\ job.op \in {"none", "create"}
              /\ answers[m].out # {} =>
                    /\ call.op = "save" => db.avatars[call.id] \in {entities[call.id].v, Torn}
                    /\ call.op = "load" => answers[m].out = {db.avatars[call.id]}

\* A job that is done has done what it says.
OutcomeIsSo ==
    job.at = "done" /\ job.out # {} =>
        /\ job.op = "save" => db.avatars[job.id] \in {job.v, Torn}
        /\ job.op = "load" => job.out = {db.avatars[job.id]}

\* What is stored of an entity, what is being saved, what waits to be saved, in
\* its order, and what is in the register are later and later versions.
Saves(x, i) == x.op = "save" /\ x.id = i

Saving(i) == Saves(job, i) /\ job.at # "done"

\* Version v of entity i in the register, its last version, the one acknowledged,
\* and the waiting saves q are in order with what is stored and is being saved.
InOrder(i, v, last, ack, q) ==
    /\ db.avatars[i] <= last /\ ack <= last
    /\ Saving(i) => ack <= job.v /\ db.avatars[i] <= job.v /\ job.v <= last
    /\ \A k \in 1..Len(q) : Saves(q[k], i) =>
          /\ ack <= q[k].v /\ db.avatars[i] <= q[k].v /\ q[k].v <= last
          /\ Saving(i) => job.v <= q[k].v
          /\ \A l \in 1..k : Saves(q[l], i) => q[l].v <= q[k].v
          /\ v # 0 => q[k].v <= v
    /\ v # 0 =>
          /\ ack <= v /\ db.avatars[i] <= v /\ v <= last
          /\ Saving(i) => job.v <= v

\* What was acknowledged is stored, but for a file that is truncated.
StoredUpTo(i, ack) ==
    /\ ack <= db.avatars[i] \/ db.avatars[i] = Torn
    /\ db.avatars[i] = Torn => "torn" \in mishap \/ (Saves(job, i) /\ job.at = "write")

VersionFits(i) ==
    /\ InOrder(i, entities[i].v, latest[i], acked[i], requests)
    /\ StoredUpTo(i, acked[i])

VersionsFit == \A i \in Ids : VersionFits(i)

Inv ==
    /\ Shape /\ IdsFit /\ AccountsFit
    /\ CallFits /\ CallIsLast /\ OutcomeIsSo /\ VersionsFit

-----------------------------------------------------------------------------
(* Sessions, steps and jobs                                                  *)

Outcomes == [ok : BOOLEAN, link : {"up", "lost", "down"}, cost : 0..1]

\* What becomes of a session is an outcome.
LEMMA OutcomeFacts ==
    /\ Outcome(TRUE, "up", 0) \in Outcomes /\ Outcome(TRUE, "up", 0).link = "up"
    /\ Outcome(TRUE, "lost", 0) \in Outcomes /\ Outcome(TRUE, "lost", 0).link = "lost"
    /\ Outcome(TRUE, "down", 1) \in Outcomes /\ Outcome(FALSE, "down", 1) \in Outcomes
BY DEF Outcome, Outcomes

\* What a session is when a statement or a request comes.
LEMMA ConnectedFacts ==
    ASSUME TypeOK, NEW c \in Connected
    PROVE  /\ c \in Outcomes
           /\ link = "up" => c.link = "up"
           /\ backend = "postgresql" /\ link = "lost" => c.link = "lost"
<1>1. CASE backend = "file"
    <2>1. c = Outcome(TRUE, "up", 0)
        BY <1>1 DEF Connected
    <2> QED
        BY <1>1, <2>1, OutcomeFacts
<1>2. CASE backend = "mysql"
    <2>1. \/ c = Outcome(TRUE, "up", 0)
          \/ link # "up" /\ c = Outcome(FALSE, "down", 1)
        BY <1>2 DEF Connected, MySQLConnected
    <2> QED
        BY <1>2, <2>1, OutcomeFacts
<1>3. CASE backend = "postgresql"
    <2>1. \/ link = "up" /\ c = Outcome(TRUE, "up", 0)
          \/ link = "lost" /\ c = Outcome(TRUE, "lost", 0)
          \/ link = "down" /\ c = Outcome(TRUE, "up", 0)
          \/ link = "down" /\ c = Outcome(TRUE, "down", 1)
        BY <1>3 DEF Connected, PostgreSQLConnected, TypeOK, StoreTypes
    <2> QED
        BY <1>3, <2>1, OutcomeFacts
<1> QED
    BY <1>1, <1>2, <1>3 DEF TypeOK

\* A statement that is done was done in a session that is there; one in a session
\* that is there leaves it there, and PostgreSQL's in a lost one is not done.
LEMMA StatementFacts ==
    ASSUME TypeOK, NEW s \in Statement
    PROVE  /\ s.ok \in BOOLEAN /\ s.link \in {"up", "lost", "down"} /\ s.cost \in Nat
           /\ s.ok => s.link = "up"
           /\ link = "up" => s.link = "up"
           /\ backend = "postgresql" /\ link = "lost" => ~s.ok
<1>1. PICK c \in Connected : s \in Sent(c)
    BY DEF Statement
<1>2. /\ c \in Outcomes
      /\ link = "up" => c.link = "up"
      /\ backend = "postgresql" /\ link = "lost" => c.link = "lost"
    BY ConnectedFacts
<1>3. \/ s = c
      \/ s = [c EXCEPT !.ok = FALSE, !.link = "down"] /\ c.link # "up"
      \/ s = [c EXCEPT !.ok = FALSE, !.cost = 1] /\ c.link = "up"
    BY <1>1 DEF Sent
<1>4. s = c /\ s.ok => c.link = "up"
    BY <1>1, <1>2 DEF Sent, Outcomes
<1>5. CASE s = c
    BY <1>2, <1>4, <1>5 DEF Outcomes
<1>6. CASE s = [c EXCEPT !.ok = FALSE, !.link = "down"] /\ c.link # "up"
    BY <1>2, <1>6 DEF Outcomes
<1>7. CASE s = [c EXCEPT !.ok = FALSE, !.cost = 1] /\ c.link = "up"
    BY <1>2, <1>7 DEF Outcomes
<1> QED
    BY <1>3, <1>5, <1>6, <1>7

\* The order of an operation's statements.
LEMMA StepsFacts ==
    ASSUME TypeOK
    PROVE  /\ backend = "postgresql" => Steps("create")[1] = "dup"
           /\ backend = "mysql" => Steps("create")[1] = "table"
           /\ backend = "file" => Steps("create")[1] = "dup"
           /\ \A op \in {"load", "save", "list"} :
                 Steps(op)[1] = IF Sql THEN "table" ELSE op
           /\ Steps("alloc")[1] = "alloc" /\ Steps("types")[1] = "types"
BY DEF TypeOK, Steps, Create, PostgreSQLCreate, MySQLCreate, FileCreate, Sql

LEMMA AfterFacts ==
    ASSUME TypeOK
    PROVE  /\ Sql /\ job.op \in {"load", "save", "list"} => After("table") = job.op
           /\ job.op = "create" /\ backend = "postgresql" =>
                 /\ After("dup") = "alloc" /\ After("alloc") = "begin"
                 /\ After("begin") = "table" /\ After("table") = "row"
           /\ job.op = "create" /\ backend = "mysql" =>
                 /\ After("table") = "dup" /\ After("dup") = "alloc"
                 /\ After("alloc") = "begin" /\ After("begin") = "row"
           /\ job.op = "create" /\ backend = "file" =>
                 After("dup") = "alloc" /\ After("alloc") = "row"
<1>1. CASE Sql /\ job.op \in {"load", "save", "list"}
    <2>1. Steps(job.op) = <<"table", job.op>>
        BY <1>1 DEF Steps
    <2>2. (CHOOSE i \in DOMAIN <<"table", job.op>> : <<"table", job.op>>[i] = "table") = 1
        BY <1>1
    <2> QED
        BY <1>1, <2>1, <2>2 DEF After
<1>2. CASE job.op = "create" /\ backend = "postgresql"
    <2>1. Steps(job.op) = PostgreSQLCreate
        BY <1>2 DEF Steps, Create
    <2>2. /\ DOMAIN PostgreSQLCreate = 1..7
          /\ PostgreSQLCreate[1] = "dup" /\ PostgreSQLCreate[2] = "alloc"
          /\ PostgreSQLCreate[3] = "begin" /\ PostgreSQLCreate[4] = "table"
          /\ PostgreSQLCreate[5] = "row" /\ PostgreSQLCreate[6] = "index"
          /\ PostgreSQLCreate[7] = "commit"
        BY DEF PostgreSQLCreate
    <2>3. /\ (CHOOSE i \in DOMAIN PostgreSQLCreate : PostgreSQLCreate[i] = "dup") = 1
          /\ (CHOOSE i \in DOMAIN PostgreSQLCreate : PostgreSQLCreate[i] = "alloc") = 2
          /\ (CHOOSE i \in DOMAIN PostgreSQLCreate : PostgreSQLCreate[i] = "begin") = 3
          /\ (CHOOSE i \in DOMAIN PostgreSQLCreate : PostgreSQLCreate[i] = "table") = 4
        BY <2>2
    <2> QED
        BY <1>2, <2>1, <2>2, <2>3 DEF After, Sql
<1>3. CASE job.op = "create" /\ backend = "mysql"
    <2>1. Steps(job.op) = MySQLCreate
        BY <1>3 DEF Steps, Create
    <2>2. /\ DOMAIN MySQLCreate = 1..7
          /\ MySQLCreate[1] = "table" /\ MySQLCreate[2] = "dup"
          /\ MySQLCreate[3] = "alloc" /\ MySQLCreate[4] = "begin"
          /\ MySQLCreate[5] = "row" /\ MySQLCreate[6] = "index"
          /\ MySQLCreate[7] = "commit"
        BY DEF MySQLCreate
    <2>3. /\ (CHOOSE i \in DOMAIN MySQLCreate : MySQLCreate[i] = "table") = 1
          /\ (CHOOSE i \in DOMAIN MySQLCreate : MySQLCreate[i] = "dup") = 2
          /\ (CHOOSE i \in DOMAIN MySQLCreate : MySQLCreate[i] = "alloc") = 3
          /\ (CHOOSE i \in DOMAIN MySQLCreate : MySQLCreate[i] = "begin") = 4
        BY <2>2
    <2> QED
        BY <1>3, <2>1, <2>2, <2>3 DEF After, Sql
<1>4. CASE job.op = "create" /\ backend = "file"
    <2>1. Steps(job.op) = FileCreate
        BY <1>4 DEF Steps, Create
    <2>2. /\ DOMAIN FileCreate = 1..3
          /\ FileCreate[1] = "dup" /\ FileCreate[2] = "alloc" /\ FileCreate[3] = "row"
        BY DEF FileCreate
    <2>3. /\ (CHOOSE i \in DOMAIN FileCreate : FileCreate[i] = "dup") = 1
          /\ (CHOOSE i \in DOMAIN FileCreate : FileCreate[i] = "alloc") = 2
        BY <2>2
    <2> QED
        BY <1>4, <2>1, <2>2, <2>3 DEF After, Sql
<1> QED
    BY <1>1, <1>2, <1>3, <1>4

\* A job that moves on, or is done.
LEMMA MoveFacts ==
    ASSUME TypeOK, NEW at \in Places
    PROVE  /\ To(at) \in Jobs /\ To(at).at = at
           /\ To(at).op = job.op /\ To(at).id = job.id /\ To(at).v = job.v
           /\ To(at).user = job.user /\ To(at).req = job.req /\ To(at).out = job.out
BY DEF TypeOK, StoreTypes, Jobs, To

LEMMA DoneFacts ==
    ASSUME TypeOK, NEW out \in SUBSET Nat
    PROVE  /\ Done(out) \in Jobs /\ Done(out).at = "done"
           /\ Done(out).op = job.op /\ Done(out).id = job.id /\ Done(out).v = job.v
           /\ Done(out).user = job.user /\ Done(out).req = job.req /\ Done(out).out = out
BY DEF TypeOK, StoreTypes, Jobs, Done, Places

LEMMA NoJobFacts ==
    /\ NoJob \in Jobs /\ NoJob.op = "none" /\ NoJob.at = "done" /\ NoJob.out = {}
    /\ NoJob.req = 0 /\ NoJob.id = 0
BY StoresAssumption DEF NoJob, Jobs, Places, Names

\* What DBApp's job sees is what is stored, but for what its transaction put there.
LEMMA ViewFacts ==
    ASSUME Shape
    PROVE  /\ View \in Databases
           /\ View.next = db.next /\ View.avatars = db.avatars
           /\ txn = <<>> => View = db
           /\ txn # <<>> => View = txn[1]
BY DEF Shape, TypeOK, StoreTypes, TransactionFits, View

\* A statement with an effect is done, or not done at all.
LEMMA ExecuteFacts ==
    ASSUME Shape, NEW effect \in Databases, NEW then, NEW otherwise,
           Execute(effect, then, otherwise)
    PROVE  /\ link' \in {"up", "lost", "down"} /\ troubles' \in Nat
           /\ link = "up" => link' = "up"
           /\ \/ /\ job' = then /\ link' = "up"
                 /\ ~ (backend = "postgresql" /\ link = "lost")
                 /\ txn = <<>> => db' = effect /\ txn' = <<>>
                 /\ txn # <<>> => db' = db /\ txn' = <<effect>>
              \/ job' = otherwise /\ db' = db /\ txn' = txn
<1>1. TypeOK
    BY DEF Shape
<1>2. PICK s \in Statement :
          /\ Spent(s)
          /\ IF s.ok THEN Put(effect) /\ job' = then
             ELSE UNCHANGED <<db, txn>> /\ job' = otherwise
    BY DEF Execute
<1>3. /\ s.ok \in BOOLEAN /\ s.link \in {"up", "lost", "down"} /\ s.cost \in Nat
      /\ s.ok => s.link = "up"
      /\ link = "up" => s.link = "up"
      /\ backend = "postgresql" /\ link = "lost" => ~s.ok
    BY <1>1, StatementFacts
<1>4. link' = s.link /\ troubles' \in Nat
    BY <1>1, <1>2, <1>3 DEF Spent, TypeOK, StoreTypes
<1> QED
    BY <1>2, <1>3, <1>4 DEF Put

\* A query changes nothing but the job and the session.
LEMMA QueryFacts ==
    ASSUME Shape, NEW then, NEW otherwise, Query(then, otherwise)
    PROVE  /\ link' \in {"up", "lost", "down"} /\ troubles' \in Nat
           /\ link = "up" => link' = "up"
           /\ db' = db /\ txn' = txn
           /\ job' = then \/ job' = otherwise
<1>1. TypeOK
    BY DEF Shape
<1>2. PICK s \in Statement :
          Spent(s) /\ UNCHANGED <<db, txn>> /\ job' = IF s.ok THEN then ELSE otherwise
    BY DEF Query
<1>3. /\ s.link \in {"up", "lost", "down"} /\ s.cost \in Nat
      /\ link = "up" => s.link = "up"
    BY <1>1, StatementFacts
<1>4. link' = s.link /\ troubles' \in Nat
    BY <1>1, <1>2, <1>3 DEF Spent, TypeOK, StoreTypes
<1> QED
    BY <1>2, <1>3, <1>4

\* A step of a job leaves the queues and the base alone.
LEMMA ShapeKept ==
    ASSUME Shape, UNCHANGED <<Aside, baseVars>>, StoreTypes', JobFits', TransactionFits'
    PROVE  Shape'
<1>1. TypeOK'
    BY DEF Shape, TypeOK, Aside, baseVars
<1>2. UNCHANGED <<requests, answers>>
    BY DEF Aside
<1> QED
    BY <1>1, <1>2 DEF Shape, RequestFits, OutcomeFits

-----------------------------------------------------------------------------
(* What a job's step does to what is stored of entities, ids and accounts    *)

\* It keeps whose job it is; only a save changes what is stored of an entity, and
\* a load that finds something found what is stored.
Moves ==
    /\ UNCHANGED <<Aside, baseVars>>
    /\ job.at # "done" /\ mishap \subseteq mishap'
    /\ job'.op = job.op /\ job'.v = job.v /\ job'.user = job.user /\ job'.req = job.req
    /\ job.op \in {"save", "load"} => job'.id = job.id
    /\ job.op # "save" => db'.avatars = db.avatars
    /\ job.op = "save" =>
          \/ /\ db'.avatars = db.avatars /\ "write" \notin {job.at, job'.at}
             /\ job'.at = "done" => job'.out = {}
          \/ db'.avatars = [db.avatars EXCEPT ![job.id] = job.v] /\ job'.at = "done"
          \/ /\ db'.avatars = [db.avatars EXCEPT ![job.id] = Torn]
             /\ job'.at = "write" \/ (job'.at = "done" /\ "torn" \in mishap')
    /\ job.op = "load" /\ job'.at = "done" /\ job'.out # {} =>
          job'.out = {db.avatars[job.id]}

\* A step that neither counts nor gives an id.
LEMMA IdsKept ==
    ASSUME IdsFit, UNCHANGED given, db'.next = db.next, mishap \subseteq mishap',
           job.at # "count", job'.at \notin {"count", "readback", "given"}
    PROVE  IdsFit'
BY DEF IdsFit, Counter

\* A step that has nothing to do with accounts, in no transaction.
LEMMA AccountsKept ==
    ASSUME AccountsFit, UNCHANGED <<backend, halved>>, txn' = <<>>, ~HasId',
           db'.accounts = db.accounts, db'.index = db.index, db'.next = db.next
    PROVE  AccountsFit'
BY DEF AccountsFit, Whole, Sql, InTransaction, HasId

StoresInv == Shape /\ IdsFit /\ AccountsFit

\* The parts of the invariant, and what it says of a job at work.
LEMMA InvParts ==
    ASSUME StoresInv
    PROVE  /\ Shape /\ TypeOK /\ StoreTypes /\ JobFits /\ TransactionFits
           /\ IdsFit /\ AccountsFit
           /\ db \in Databases /\ db.next \in 0..MaxId /\ MaxId \in Nat
           /\ job \in Jobs /\ job.id \in 0..MaxId /\ job.v \in Nat /\ job.user \in Names
           /\ job.at # "done" => job # NoJob
           /\ txn # <<>> => job.at \in {"table", "row", "index", "commit", "rollback"}
<1>1. /\ Shape /\ TypeOK /\ StoreTypes /\ JobFits /\ TransactionFits /\ IdsFit /\ AccountsFit
    BY DEF StoresInv, Shape, TypeOK
<1>2. db \in Databases /\ job \in Jobs
    BY <1>1 DEF StoreTypes
<1>3. db.next \in 0..MaxId /\ MaxId \in Nat
    BY <1>2, StoresAssumption DEF Databases
<1>4. job.id \in 0..MaxId /\ job.v \in Nat /\ job.user \in Names
    BY <1>2 DEF Jobs
<1> QED
    BY <1>1, <1>2, <1>3, <1>4 DEF NoJob, TransactionFits

LEMMA EnsureTableStep ==
    ASSUME StoresInv, EnsureTable, UNCHANGED baseVars
    PROVE  StoresInv' /\ Moves
<1> DEFINE new == [View EXCEPT !.tables = @ \cup {Table(job.op)}]
<1>1. Shape /\ TypeOK /\ StoreTypes /\ JobFits /\ TransactionFits
    BY DEF StoresInv, Shape, TypeOK
<1>2. /\ job.at = "table" /\ Sql /\ UNCHANGED <<Aside, History, baseVars>>
      /\ job.op \in {"create", "save", "load", "list"}
    BY <1>1 DEF EnsureTable, JobFits
<1>3. After("table") =
          IF job.op # "create" THEN job.op
          ELSE IF backend = "postgresql" THEN "row" ELSE "dup"
    BY <1>1, <1>2, AfterFacts DEF Sql, TypeOK
<1>4. /\ new \in Databases
      /\ new.next = db.next /\ new.avatars = db.avatars
      /\ new.accounts = View.accounts /\ new.index = View.index
    <2>1. View \in Databases /\ View.next = db.next /\ View.avatars = db.avatars
        BY <1>1, ViewFacts
    <2> QED
        BY <2>1 DEF Databases, Table
<1>5. CASE job' = To(After("table")) /\ UNCHANGED <<link, troubles, db, txn, known>>
    <2>1. /\ job' \in Jobs /\ job'.at = After("table")
          /\ job'.op = job.op /\ job'.id = job.id /\ job'.v = job.v
          /\ job'.user = job.user /\ job'.req = job.req /\ job'.out = job.out
        BY <1>1, <1>2, <1>3, <1>5, MoveFacts DEF Places
    <2>2. StoreTypes'
        BY <1>1, <1>2, <1>5, <2>1 DEF StoreTypes, History
    <2>3. JobFits'
        BY <1>1, <1>2, <1>3, <2>1 DEF JobFits, RequestFits, OutcomeFits, NoJob, Sql, Aside
    <2>4. TransactionFits'
        BY <1>1, <1>2, <1>3, <1>5, <2>1 DEF TransactionFits, Sql, Aside
    <2>5. Shape'
        BY <1>1, <1>2, <2>2, <2>3, <2>4, ShapeKept
    <2>6. IdsFit'
        BY <1>2, <1>3, <1>5, <2>1, IdsKept DEF StoresInv, History
    <2>7. AccountsFit'
        BY <1>2, <1>3, <1>5, <2>1
           DEF StoresInv, AccountsFit, Whole, Sql, InTransaction, HasId, Aside, History
    <2>8. Moves
        BY <1>2, <1>3, <1>5, <2>1 DEF Moves, History
    <2> QED
        BY <2>5, <2>6, <2>7, <2>8 DEF StoresInv
<1>6. CASE /\ job' = To(After("table")) /\ link' = "up" /\ troubles' \in Nat
           /\ ~ (backend = "postgresql" /\ link = "lost")
           /\ known' = known \cup {Table(job.op)}
           /\ txn = <<>> => db' = new /\ txn' = <<>>
           /\ txn # <<>> => db' = db /\ txn' = <<new>>
    <2>1. /\ job' \in Jobs /\ job'.at = After("table")
          /\ job'.op = job.op /\ job'.id = job.id /\ job'.v = job.v
          /\ job'.user = job.user /\ job'.req = job.req /\ job'.out = job.out
        BY <1>1, <1>2, <1>3, <1>6, MoveFacts DEF Places
    <2>2. StoreTypes'
        <3> HIDE DEF new
        <3> QED
            BY <1>1, <1>2, <1>4, <1>6, <2>1 DEF StoreTypes, History, Table
    <2>3. JobFits'
        BY <1>1, <1>2, <1>3, <2>1 DEF JobFits, RequestFits, OutcomeFits, NoJob, Sql, Aside
    <2>4. TransactionFits'
        <3> HIDE DEF new
        <3> QED
            BY <1>1, <1>2, <1>3, <1>4, <1>6, <2>1 DEF TransactionFits, Sql, Aside
    <2>5. Shape'
        BY <1>1, <1>2, <2>2, <2>3, <2>4, ShapeKept
    <2>6. db'.next = db.next /\ db'.avatars = db.avatars
          /\ db'.accounts = db.accounts /\ db'.index = db.index
        <3> HIDE DEF new
        <3> QED
            BY <1>1, <1>4, <1>6, ViewFacts
    <2>7. IdsFit'
        BY <1>2, <1>3, <2>1, <2>6, IdsKept DEF StoresInv, History
    <2>8. AccountsFit'
        <3> HIDE DEF new
        <3>1. CASE txn = <<>>
            BY <1>2, <1>3, <1>6, <2>1, <2>6, <3>1
               DEF StoresInv, AccountsFit, Whole, Sql, InTransaction, HasId, Aside, History
        <3>2. CASE txn # <<>>
            <4>1. /\ txn'[1].accounts = txn[1].accounts /\ txn'[1].index = txn[1].index
                  /\ txn' # <<>>
                <5>1. txn' = <<new>> /\ View = txn[1]
                    BY <1>1, <1>6, <3>2, ViewFacts
                <5>2. txn' # <<>> /\ txn'[1] = new
                    BY <5>1
                <5> QED
                    BY <1>4, <5>1, <5>2
            <4> QED
                BY <1>1, <1>2, <1>3, <1>6, <2>1, <2>6, <3>2, <4>1
                   DEF StoresInv, AccountsFit, Whole, Sql, InTransaction, HasId, Aside, History,
                       TransactionFits
        <3> QED
            BY <3>1, <3>2
    <2>9. Moves
        BY <1>2, <1>3, <2>1, <2>6 DEF Moves, History
    <2> QED
        BY <2>5, <2>7, <2>8, <2>9 DEF StoresInv
<1>7. CASE /\ link' \in {"up", "lost", "down"} /\ troubles' \in Nat
           /\ link = "up" => link' = "up"
           /\ UNCHANGED <<db, txn, known>>
           /\ job' = IF After("table") = "row" THEN To("rollback") ELSE Failed
    <2>1. /\ job' \in Jobs
          /\ job'.op = job.op /\ job'.id = job.id /\ job'.v = job.v
          /\ job'.user = job.user /\ job'.req = job.req
          /\ job.op = "create" /\ backend = "postgresql" =>
                job'.at = "rollback" /\ job'.out = job.out
          /\ ~ (job.op = "create" /\ backend = "postgresql") =>
                job'.at = "done" /\ job'.out = {}
        BY <1>1, <1>2, <1>3, <1>7, MoveFacts, DoneFacts DEF Places, Failed
    <2>2. StoreTypes'
        BY <1>1, <1>2, <1>7, <2>1 DEF StoreTypes, History
    <2>3. JobFits'
        BY <1>1, <1>2, <1>3, <2>1 DEF JobFits, RequestFits, OutcomeFits, NoJob, Sql, Aside
    <2>4. TransactionFits'
        BY <1>1, <1>2, <1>3, <1>7, <2>1 DEF TransactionFits, Sql, Aside
    <2>5. Shape'
        BY <1>1, <1>2, <2>2, <2>3, <2>4, ShapeKept
    <2>6. IdsFit'
        BY <1>2, <1>7, <2>1, IdsKept DEF StoresInv, History
    <2>7. AccountsFit'
        BY <1>2, <1>7, <2>1
           DEF StoresInv, AccountsFit, Whole, Sql, InTransaction, HasId, Aside, History
    <2>8. Moves
        BY <1>2, <1>7, <2>1 DEF Moves, History
    <2> QED
        BY <2>5, <2>6, <2>7, <2>8 DEF StoresInv
<1>8. CASE Table(job.op) \in known
    BY <1>5, <1>8 DEF EnsureTable
<1>9. CASE Table(job.op) \notin known
    <2>1. PICK s \in Statement :
              /\ Spent(s)
              /\ IF s.ok
                 THEN /\ PutTable(new) /\ known' = known \cup {Table(job.op)}
                      /\ job' = To(After("table"))
                 ELSE /\ job' = IF After("table") = "row" THEN To("rollback") ELSE Failed
                      /\ UNCHANGED <<db, txn, known>>
        BY <1>9 DEF EnsureTable
    <2>2. /\ s.ok \in BOOLEAN /\ s.link \in {"up", "lost", "down"} /\ s.cost \in Nat
          /\ s.ok => s.link = "up"
          /\ link = "up" => s.link = "up"
          /\ backend = "postgresql" /\ link = "lost" => ~s.ok
        BY <1>1, StatementFacts
    <2>3. link' = s.link /\ troubles' \in Nat
        BY <1>1, <2>1, <2>2 DEF Spent, StoreTypes
    <2>4. backend = "mysql" => txn = <<>>
        BY <1>1, <1>2 DEF TransactionFits
    <2> HIDE DEF new
    <2>5. s.ok => /\ txn = <<>> => db' = new /\ txn' = <<>>
                  /\ txn # <<>> => db' = db /\ txn' = <<new>>
        BY <2>1, <2>4 DEF PutTable, Put
    <2>6. CASE s.ok
        BY <1>6, <2>1, <2>2, <2>3, <2>5, <2>6
    <2>7. CASE ~s.ok
        BY <1>7, <2>1, <2>2, <2>3, <2>7
    <2> QED
        BY <2>6, <2>7
<1> QED
    BY <1>8, <1>9

\* A step of a load, a listing or a save that asks or fails.
LEMMA QueryStep ==
    ASSUME StoresInv, UNCHANGED <<Aside, known, History, baseVars>>, job.at # "done",
           job.op \in {"load", "list", "types", "save"}, job.at # "write",
           NEW out \in SUBSET Nat, Query(Done(out), Failed), OutcomeFits(job.op, out),
           job.op = "load" /\ out # {} => out = {db.avatars[job.id]},
           job.op = "save" => out = {}
    PROVE  StoresInv' /\ Moves
<1>1. Shape /\ TypeOK /\ StoreTypes /\ JobFits /\ TransactionFits
    BY DEF StoresInv, Shape, TypeOK
<1>2. /\ link' \in {"up", "lost", "down"} /\ troubles' \in Nat
      /\ db' = db /\ txn' = txn
      /\ job' = Done(out) \/ job' = Done({})
    BY <1>1, QueryFacts DEF Failed
<1>3. /\ job' \in Jobs /\ job'.at = "done"
      /\ job'.op = job.op /\ job'.id = job.id /\ job'.v = job.v
      /\ job'.user = job.user /\ job'.req = job.req /\ job'.out \in {out, {}}
    BY <1>1, <1>2, DoneFacts
<1>4. StoreTypes'
    BY <1>1, <1>2, <1>3 DEF StoreTypes, History
<1>5. txn = <<>> /\ txn' = <<>>
    BY <1>1, <1>2 DEF TransactionFits
<1>6. Shape'
    <2>1. JobFits'
        <3>1. OutcomeFits(job'.op, job'.out)
            BY <1>3 DEF OutcomeFits
        <3> QED
            BY <1>1, <1>3, <3>1 DEF JobFits, RequestFits, NoJob, Sql, Aside
    <2>2. TransactionFits'
        BY <1>5 DEF TransactionFits
    <2> QED
        BY <1>1, <1>4, <2>1, <2>2, ShapeKept
<1>7. IdsFit'
    <2>1. job.at # "count"
        BY <1>1 DEF JobFits
    <2> QED
        BY <1>2, <1>3, <2>1, IdsKept DEF StoresInv, History
<1>8. AccountsFit'
    BY <1>2, <1>3, <1>5, AccountsKept DEF StoresInv, History, HasId, Aside
<1>9. Moves
    BY <1>2, <1>3 DEF Moves, History
<1> QED
    BY <1>6, <1>7, <1>8, <1>9 DEF StoresInv

LEMMA LoadRowStep ==
    ASSUME StoresInv, LoadRow, UNCHANGED baseVars
    PROVE  StoresInv' /\ Moves
<1> DEFINE out == IF HasTable THEN {View.avatars[job.id]} \ {0, Torn} ELSE {}
<1>1. Shape /\ JobFits /\ job.op = "load" /\ job.at = "load" /\ job.id \in Ids
    BY DEF StoresInv, Shape, LoadRow, JobFits, RequestFits, NoJob
<1>2. View.avatars = db.avatars /\ db.avatars[job.id] \in Nat \cup {Torn}
    BY <1>1, ViewFacts DEF Shape, TypeOK, StoreTypes, Databases
<1>3. /\ out \in SUBSET Nat /\ OutcomeFits("load", out)
      /\ out # {} => out = {db.avatars[job.id]}
    <2> DEFINE v == db.avatars[job.id]
    <2>1. v \in Nat \cup {Torn} /\ (out # {} => v \notin {0, Torn} /\ out = {v})
        BY <1>2
    <2>2. v \notin {0, Torn} => v \in Nat /\ v # 0
        BY <2>1
    <2> HIDE DEF v, out
    <2>3. out = {} \/ out = {v}
        BY <2>1
    <2> QED
        BY <2>1, <2>2, <2>3 DEF OutcomeFits, v
<1>4. Query(Done(out), Failed) /\ UNCHANGED <<Aside, known, History, baseVars>>
    BY DEF LoadRow, Failed
<1> HIDE DEF out
<1> QED
    BY <1>1, <1>3, <1>4, QueryStep

LEMMA ListIdsStep ==
    ASSUME StoresInv, ListIds, UNCHANGED baseVars
    PROVE  StoresInv' /\ Moves
<1> DEFINE out == IF HasTable THEN {i \in Ids : View.avatars[i] # 0} ELSE {}
<1>1. Shape /\ JobFits /\ job.op = "list" /\ job.at = "list"
    BY DEF StoresInv, Shape, ListIds, JobFits
<1>2. out \in SUBSET Nat /\ OutcomeFits("list", out)
    BY DEF OutcomeFits, Ids
<1>3. Query(Done(out), Failed) /\ UNCHANGED <<Aside, known, History, baseVars>>
    BY DEF ListIds, Failed
<1> HIDE DEF out
<1> QED
    BY <1>1, <1>2, <1>3, QueryStep

LEMMA ListTypesStep ==
    ASSUME StoresInv, ListTypes, UNCHANGED baseVars
    PROVE  StoresInv' /\ Moves
<1> DEFINE found == IF Sql THEN "Avatar" \in View.tables
                    ELSE \E i \in Ids : View.avatars[i] # 0
           out == IF found THEN {1} ELSE {}
<1>1. Shape /\ JobFits /\ job.op = "types" /\ job.at = "types"
    BY DEF StoresInv, Shape, ListTypes, JobFits
<1>2. out \in SUBSET Nat /\ OutcomeFits("types", out)
    BY DEF OutcomeFits
<1>3. Query(Done(out), Failed) /\ UNCHANGED <<Aside, known, History, baseVars>>
    BY DEF ListTypes
<1> HIDE DEF out
<1> QED
    BY <1>1, <1>2, <1>3, QueryStep

LEMMA SaveRowStep ==
    ASSUME StoresInv, SaveRow, UNCHANGED baseVars
    PROVE  StoresInv' /\ Moves
<1> DEFINE new == [View EXCEPT !.avatars[job.id] = job.v]
<1>1. /\ Shape /\ TypeOK /\ StoreTypes /\ JobFits /\ TransactionFits
      /\ job.op = "save" /\ job.at = "save" /\ Sql /\ job.id \in Ids /\ job.v \in Nat
      /\ UNCHANGED <<Aside, known, History, baseVars>>
    <2>1. job.at = "save" /\ Sql /\ UNCHANGED <<Aside, known, History, baseVars>>
        BY DEF SaveRow
    <2> QED
        BY <2>1, InvParts DEF JobFits, RequestFits
<1>2. CASE ~HasTable
    <2>1. Query(Done({}), Failed) /\ OutcomeFits("save", {})
        BY <1>2 DEF SaveRow, Failed, OutcomeFits
    <2> QED
        BY <1>1, <2>1, QueryStep
<1>3. CASE HasTable
    <2>1. txn = <<>> /\ View = db
        BY <1>1, ViewFacts DEF TransactionFits
    <2>2. /\ new \in Databases
          /\ new.avatars = [db.avatars EXCEPT ![job.id] = job.v] /\ new.next = db.next
          /\ new.accounts = db.accounts /\ new.index = db.index
        BY <1>1, <2>1 DEF StoreTypes, Databases
    <2>3. Execute(new, Done({1}), Failed)
        BY <1>3 DEF SaveRow
    <2> HIDE DEF new
    <2>4. /\ link' \in {"up", "lost", "down"} /\ troubles' \in Nat /\ txn' = <<>>
          /\ \/ job' = Done({1}) /\ db' = new
             \/ job' = Done({}) /\ db' = db
        BY <1>1, <2>1, <2>2, <2>3, ExecuteFacts DEF Failed
    <2>5. /\ job' \in Jobs /\ job'.at = "done"
          /\ job'.op = job.op /\ job'.id = job.id /\ job'.v = job.v
          /\ job'.user = job.user /\ job'.req = job.req
          /\ \/ job'.out = {1} /\ db' = new
             \/ job'.out = {} /\ db' = db
        BY <1>1, <2>4, DoneFacts
    <2>6. StoreTypes'
        BY <1>1, <2>2, <2>4, <2>5 DEF StoreTypes, History
    <2>7. Shape'
        <3>1. OutcomeFits(job'.op, job'.out)
            BY <1>1, <2>5 DEF OutcomeFits
        <3>2. JobFits'
            BY <1>1, <2>5, <3>1 DEF JobFits, RequestFits, NoJob, Sql, Aside
        <3>3. TransactionFits'
            BY <2>4 DEF TransactionFits
        <3> QED
            BY <1>1, <2>6, <3>2, <3>3, ShapeKept
    <2>8. IdsFit'
        BY <1>1, <2>2, <2>5, IdsKept DEF StoresInv, History
    <2>9. AccountsFit'
        BY <1>1, <2>2, <2>4, <2>5, AccountsKept DEF StoresInv, History, HasId, Aside
    <2>10. Moves
        BY <1>1, <2>2, <2>5 DEF Moves, History
    <2> QED
        BY <2>7, <2>8, <2>9, <2>10 DEF StoresInv
<1> QED
    BY <1>2, <1>3

\* A step of a file store's save, or of what it stores of an account.
LEMMA SaveFileStep ==
    ASSUME StoresInv, SaveFile, UNCHANGED baseVars
    PROVE  StoresInv' /\ Moves
<1>1. /\ Shape /\ TypeOK /\ StoreTypes /\ JobFits /\ TransactionFits
      /\ ~Sql /\ txn = <<>> /\ job.id \in Ids /\ job.at \in {"save", "row"}
      /\ job.op \in {"save", "create"} /\ job.v \in Nat
      /\ UNCHANGED <<Aside, known, History, baseVars>>
    <2>1. /\ ~Sql /\ job.at \in {"save", "row"}
          /\ UNCHANGED <<Aside, known, History, baseVars>>
        BY DEF SaveFile
    <2> QED
        BY <2>1, InvParts DEF JobFits, RequestFits, TransactionFits
<1>2. PICK new \in Databases :
          /\ job.op = "save" => new.avatars = [db.avatars EXCEPT ![job.id] = Torn]
          /\ job.op # "save" => new.avatars = db.avatars
          /\ new.next = db.next
          /\ Execute(new, To("write"), Failed)
    <2>1. CASE job.at = "save"
        <3>1. /\ [db EXCEPT !.avatars[job.id] = Torn] \in Databases
              /\ [db EXCEPT !.avatars[job.id] = Torn].avatars
                    = [db.avatars EXCEPT ![job.id] = Torn]
              /\ [db EXCEPT !.avatars[job.id] = Torn].next = db.next
            BY <1>1 DEF StoreTypes, Databases
        <3>2. Execute([db EXCEPT !.avatars[job.id] = Torn], To("write"), Failed)
            BY <2>1 DEF SaveFile
        <3> QED
            BY <1>1, <2>1, <3>1, <3>2 DEF JobFits
    <2>2. CASE job.at = "row"
        <3>1. /\ [db EXCEPT !.accounts[job.id] = Nobody] \in Databases
              /\ [db EXCEPT !.accounts[job.id] = Nobody].avatars = db.avatars
              /\ [db EXCEPT !.accounts[job.id] = Nobody].next = db.next
            BY <1>1 DEF StoreTypes, Databases, Names
        <3>2. Execute([db EXCEPT !.accounts[job.id] = Nobody], To("write"), Failed)
            BY <2>2 DEF SaveFile
        <3> QED
            BY <1>1, <2>2, <3>1, <3>2 DEF JobFits
    <2> QED
        BY <1>1, <2>1, <2>2
<1>3. /\ link' \in {"up", "lost", "down"} /\ troubles' \in Nat /\ txn' = <<>>
      /\ \/ job' = To("write") /\ db' = new
         \/ job' = Done({}) /\ db' = db
    BY <1>1, <1>2, ExecuteFacts DEF Failed
<1>4. /\ job' \in Jobs
      /\ job'.op = job.op /\ job'.id = job.id /\ job'.v = job.v
      /\ job'.user = job.user /\ job'.req = job.req
      /\ \/ job'.at = "write" /\ job'.out = job.out /\ db' = new
         \/ job'.at = "done" /\ job'.out = {} /\ db' = db
    BY <1>1, <1>3, DoneFacts, MoveFacts DEF Places
<1>5. StoreTypes'
    BY <1>1, <1>2, <1>3, <1>4 DEF StoreTypes, History
<1>6. Shape'
    <2>1. OutcomeFits(job'.op, job'.out)
        BY <1>1, <1>4 DEF JobFits, OutcomeFits
    <2>2. JobFits'
        BY <1>1, <1>4, <2>1 DEF JobFits, RequestFits, NoJob, Sql, Aside
    <2>3. TransactionFits'
        BY <1>3 DEF TransactionFits
    <2> QED
        BY <1>1, <1>5, <2>2, <2>3, ShapeKept
<1>7. IdsFit'
    BY <1>1, <1>2, <1>4, IdsKept DEF StoresInv, History
<1>8. AccountsFit'
    BY <1>1 DEF AccountsFit, Sql, Aside
<1>9. Moves
    BY <1>1, <1>2, <1>4 DEF Moves, History
<1> QED
    BY <1>6, <1>7, <1>8, <1>9 DEF StoresInv

\* A write's bookkeeping.
LEMMA WritesFacts ==
    ASSUME TypeOK, NEW whole \in BOOLEAN, Writes(whole)
    PROVE  /\ troubles' \in Nat /\ mishap' \in SUBSET {"torn", "unwritten"}
           /\ mishap \subseteq mishap' /\ (whole \/ "torn" \in mishap')
BY DEF Writes, TypeOK, StoreTypes

LEMMA WriteFileStep ==
    ASSUME StoresInv, WriteFile, UNCHANGED baseVars
    PROVE  StoresInv' /\ Moves
<1>1. /\ Shape /\ TypeOK /\ StoreTypes /\ JobFits /\ TransactionFits
      /\ ~Sql /\ txn = <<>> /\ job.id \in Ids /\ job.at = "write"
      /\ job.op \in {"save", "create"} /\ job.v \in Nat /\ job.user \in Names
      /\ UNCHANGED <<Aside, txn, known, link, given, halved, baseVars>>
    BY DEF StoresInv, Shape, TypeOK, StoreTypes, WriteFile, JobFits, RequestFits, NoJob, Jobs,
           TransactionFits
<1>10. PICK whole \in BOOLEAN :
          /\ Writes(whole)
          /\ \/ /\ job.op = "save"
                /\ db' = [db EXCEPT !.avatars[job.id] = IF whole THEN job.v ELSE Torn]
                /\ job' = Done({1}) \/ (~whole /\ job' = Failed)
             \/ /\ job.op = "create"
                /\ db' = [db EXCEPT !.accounts[job.id] = IF whole THEN job.user ELSE Nobody]
                /\ job' = Done({job.id}) \/ (~whole /\ job' = Failed)
    BY DEF WriteFile
<1>11. /\ troubles' \in Nat /\ mishap' \in SUBSET {"torn", "unwritten"}
       /\ mishap \subseteq mishap' /\ (whole \/ "torn" \in mishap')
    BY <1>1, <1>10, WritesFacts
<1>2. /\ db' \in Databases /\ db'.next = db.next
      /\ job.op = "save" =>
            \/ db'.avatars = [db.avatars EXCEPT ![job.id] = job.v]
            \/ db'.avatars = [db.avatars EXCEPT ![job.id] = Torn] /\ "torn" \in mishap'
      /\ job.op # "save" => db'.avatars = db.avatars
    <2>1. CASE job.op = "save"
        <3>1. PICK w \in {job.v, Torn} :
                 db' = [db EXCEPT !.avatars[job.id] = w] /\ (w = Torn \/ w = job.v)
                 /\ (w = job.v \/ "torn" \in mishap')
            BY <1>10, <1>11, <2>1
        <3>2. w \in Nat \cup {Torn}
            BY <1>1
        <3> QED
            BY <1>1, <2>1, <3>1, <3>2 DEF StoreTypes, Databases
    <2>2. CASE job.op = "create"
        <3>1. PICK w \in {job.user, Nobody} : db' = [db EXCEPT !.accounts[job.id] = w]
            BY <1>10, <2>2
        <3>2. w \in Names
            BY <1>1 DEF Names
        <3> QED
            BY <1>1, <2>2, <3>1, <3>2 DEF StoreTypes, Databases
    <2> QED
        BY <1>1, <2>1, <2>2
<1>3. PICK out \in SUBSET Nat : job' = Done(out) /\ OutcomeFits(job.op, out)
    <2>1. {1} \in SUBSET Nat /\ {job.id} \in SUBSET Nat /\ {} \in SUBSET Nat
        BY <1>1 DEF Ids
    <2> QED
        BY <1>1, <1>10, <2>1 DEF OutcomeFits, Failed
<1>4. /\ job' \in Jobs /\ job'.at = "done"
      /\ job'.op = job.op /\ job'.id = job.id /\ job'.v = job.v
      /\ job'.user = job.user /\ job'.req = job.req /\ job'.out = out
    BY <1>1, <1>3, DoneFacts
<1>5. StoreTypes'
    BY <1>1, <1>2, <1>4, <1>11 DEF StoreTypes
<1>6. Shape'
    <2>1. JobFits'
        BY <1>1, <1>3, <1>4 DEF JobFits, RequestFits, NoJob, Sql, Aside
    <2>2. TransactionFits'
        BY <1>1 DEF TransactionFits
    <2> QED
        BY <1>1, <1>5, <2>1, <2>2, ShapeKept
<1>7. IdsFit'
    BY <1>1, <1>2, <1>4, <1>11, IdsKept DEF StoresInv
<1>8. AccountsFit'
    BY <1>1 DEF AccountsFit, Sql, Aside
<1>9. Moves
    BY <1>1, <1>2, <1>4, <1>11 DEF Moves
<1> QED
    BY <1>6, <1>7, <1>8, <1>9 DEF StoresInv

-----------------------------------------------------------------------------
(* Steps that count and give ids                                             *)

LEMMA AllocStep ==
    ASSUME StoresInv, Alloc, UNCHANGED baseVars
    PROVE  StoresInv' /\ Moves
<1> DEFINE id == View.next + 1
           new == [View EXCEPT !.next = id]
           then == [job EXCEPT !.id = id,
                               !.at = IF backend = "mysql" THEN "readback" ELSE "given"]
<1>1. /\ Shape /\ TypeOK /\ StoreTypes /\ JobFits /\ TransactionFits /\ IdsFit /\ AccountsFit
      /\ Sql /\ txn = <<>> /\ View = db /\ job.at = "alloc" /\ job.op \in {"create", "alloc"}
      /\ UNCHANGED <<Aside, known, History, baseVars>>
      /\ db.next \in 0..MaxId /\ MaxId \in Nat
    BY ViewFacts, StoresAssumption
       DEF StoresInv, Shape, TypeOK, StoreTypes, Alloc, JobFits, TransactionFits, Databases
<1>2. id = db.next + 1 /\ (id <= MaxId => id \in Ids /\ id \in 0..MaxId)
    BY <1>1 DEF Ids
<1>3. id <= MaxId =>
          /\ new \in Databases /\ new.next = id /\ new.avatars = db.avatars
          /\ new.accounts = db.accounts /\ new.index = db.index
    <2> HIDE DEF id
    <2> QED
        BY <1>1, <1>2 DEF StoreTypes, Databases
<1>4. id <= MaxId =>
          /\ then \in Jobs /\ then.at \in {"readback", "given"}
          /\ then.at = "readback" => backend = "mysql"
          /\ then.op = job.op /\ then.id = id /\ then.v = job.v
          /\ then.user = job.user /\ then.req = job.req /\ then.out = job.out
    <2> HIDE DEF id
    <2> QED
        BY <1>1, <1>2 DEF StoreTypes, Jobs, Places
<1>5. CASE job' = Failed /\ UNCHANGED <<db, txn>>
                /\ link' \in {"up", "lost", "down"} /\ troubles' \in Nat
    <2>1. /\ job' \in Jobs /\ job'.at = "done"
          /\ job'.op = job.op /\ job'.id = job.id /\ job'.v = job.v
          /\ job'.user = job.user /\ job'.req = job.req /\ job'.out = {}
        BY <1>1, <1>5, DoneFacts DEF Failed
    <2>2. StoreTypes'
        BY <1>1, <1>5, <2>1 DEF StoreTypes, History
    <2>3. JobFits'
        BY <1>1, <2>1 DEF JobFits, RequestFits, OutcomeFits, NoJob, Sql, Aside
    <2>4. TransactionFits'
        BY <1>1, <1>5 DEF TransactionFits
    <2>5. Shape'
        BY <1>1, <2>2, <2>3, <2>4, ShapeKept
    <2>6. IdsFit'
        BY <1>1, <1>5, <2>1, IdsKept DEF History
    <2>7. AccountsFit'
        BY <1>1, <1>5, <2>1, AccountsKept DEF History, HasId, Aside
    <2>8. Moves
        BY <1>1, <1>5, <2>1 DEF Moves, History
    <2> QED
        BY <2>5, <2>6, <2>7, <2>8 DEF StoresInv
<1>6. CASE /\ job' = then /\ db' = new /\ txn' = <<>> /\ id <= MaxId
           /\ link' \in {"up", "lost", "down"} /\ troubles' \in Nat
    <2>1. /\ job' \in Jobs /\ job'.at \in {"readback", "given"}
          /\ job'.at = "readback" => backend = "mysql"
          /\ job'.op = job.op /\ job'.id = id /\ job'.v = job.v
          /\ job'.user = job.user /\ job'.req = job.req /\ job'.out = job.out
          /\ id \in Ids
        BY <1>6, <1>2, <1>4
    <2>2. /\ db' \in Databases /\ db'.next = id /\ db'.avatars = db.avatars
          /\ db'.accounts = db.accounts /\ db'.index = db.index
        BY <1>6, <1>3
    <2> HIDE DEF then, new
    <2>3. StoreTypes'
        BY <1>1, <1>6, <2>1, <2>2 DEF StoreTypes, History
    <2>4. JobFits'
        BY <1>1, <2>1 DEF JobFits, RequestFits, OutcomeFits, NoJob, Sql, Aside
    <2>5. TransactionFits'
        BY <1>6 DEF TransactionFits
    <2>6. Shape'
        BY <1>1, <2>3, <2>4, <2>5, ShapeKept
    <2>7. IdsFit'
        <3> SUFFICES ASSUME mishap \cap {"torn", "unwritten"} = {}
                     PROVE  /\ \A i \in Ids : given[i] <= 1 /\ (given[i] # 0 => i <= id)
                            /\ given[id] = 0
            BY <1>1, <2>1, <2>2 DEF IdsFit, Counter, History
        <3>1. \A i \in Ids : given[i] <= 1 /\ (given[i] # 0 => i <= db.next)
            BY <1>1 DEF IdsFit, Counter
        <3>2. given \in [Ids -> Nat]
            BY <1>1 DEF StoreTypes
        <3> QED
            BY <1>1, <2>1, <3>1, <3>2 DEF Ids
    <2>8. AccountsFit'
        <3> SUFFICES ASSUME Sql
                     PROVE  Whole(db', halved) /\ db.accounts[id] = Nobody
            BY <1>1, <1>6, <2>1, <2>2
               DEF AccountsFit, HasId, InTransaction, Sql, Aside, History
        <3>1. Whole(db, halved)
            BY <1>1 DEF AccountsFit
        <3> QED
            BY <1>1, <2>1, <2>2, <3>1 DEF Whole, Ids
    <2>9. Moves
        BY <1>1, <2>1, <2>2 DEF Moves, History
    <2> QED
        BY <2>6, <2>7, <2>8, <2>9 DEF StoresInv
<1>7. CASE id > MaxId
    <2>1. Query(Failed, Failed)
        BY <1>7 DEF Alloc
    <2> QED
        BY <1>1, <1>5, <2>1, QueryFacts
<1>8. CASE ~(id > MaxId)
    <2>1. Execute(new, then, Failed)
        BY <1>8 DEF Alloc
    <2>2. new \in Databases /\ id <= MaxId
        BY <1>1, <1>8, <1>2, <1>3
    <2> HIDE DEF new, then, id
    <2> QED
        BY <1>1, <1>5, <1>6, <2>1, <2>2, ExecuteFacts
<1> QED
    BY <1>7, <1>8

\* A job that goes on to another statement, or fails, with what is stored as it is.
LEMMA JobFitsNext ==
    ASSUME Shape, job # NoJob, UNCHANGED <<backend, up>>,
           job'.op = job.op, job'.id = job.id, job'.user = job.user, job'.req = job.req,
           OutcomeFits(job'.op, job'.out),
           \/ job'.at = "done"
           \/ /\ job.op \in {"create", "alloc"}
              /\ job'.at \in {"alloc", "given", "begin", "row", "commit", "rollback", "index",
                              "table", "dup"}
              /\ job'.at \in {"begin", "commit", "rollback", "index", "table"} => Sql
              /\ job'.at \notin {"alloc", "given"} => job.op = "create"
              /\ job'.at \notin {"alloc", "rollback", "dup", "table"} => job.id \in Ids
              /\ job'.at = "table" /\ backend = "postgresql" => job.id \in Ids
    PROVE  JobFits'
BY DEF Shape, JobFits, RequestFits, NoJob, Sql

LEMMA ReadBackStep ==
    ASSUME StoresInv, ReadBack, UNCHANGED baseVars
    PROVE  StoresInv' /\ Moves
<1>1. /\ Shape /\ TypeOK /\ StoreTypes /\ JobFits /\ TransactionFits /\ IdsFit /\ AccountsFit
      /\ Sql /\ txn = <<>> /\ job.at = "readback" /\ job.op \in {"create", "alloc"}
      /\ job.id \in Ids /\ backend = "mysql" /\ job # NoJob
      /\ UNCHANGED <<Aside, known, History, baseVars>>
    BY DEF StoresInv, Shape, TypeOK, StoreTypes, ReadBack, JobFits, TransactionFits, Sql, NoJob
<1>2. /\ link' \in {"up", "lost", "down"} /\ troubles' \in Nat /\ UNCHANGED <<db, txn>>
      /\ job' = To("given") \/ job' = Done({})
    BY <1>1, QueryFacts DEF ReadBack, Failed
<1>3. /\ job' \in Jobs
      /\ job'.op = job.op /\ job'.id = job.id /\ job'.v = job.v
      /\ job'.user = job.user /\ job'.req = job.req
      /\ \/ job'.at = "given" /\ job'.out = job.out
         \/ job'.at = "done" /\ job'.out = {}
    BY <1>1, <1>2, DoneFacts, MoveFacts DEF Places
<1>4. StoreTypes'
    BY <1>1, <1>2, <1>3 DEF StoreTypes, History
<1>5. Shape'
    <2>1. OutcomeFits(job'.op, job'.out)
        BY <1>1, <1>3 DEF JobFits, OutcomeFits
    <2>2. JobFits'
        BY <1>1, <1>3, <2>1, JobFitsNext DEF Aside
    <2>3. TransactionFits'
        BY <1>1, <1>2 DEF TransactionFits
    <2> QED
        BY <1>1, <1>4, <2>2, <2>3, ShapeKept
<1>6. IdsFit'
    BY <1>1, <1>2, <1>3 DEF IdsFit, Counter, History
<1>7. AccountsFit'
    BY <1>1, <1>2, <1>3 DEF AccountsFit, Whole, Sql, InTransaction, HasId, Aside, History
<1>8. Moves
    BY <1>1, <1>2, <1>3 DEF Moves, History
<1> QED
    BY <1>5, <1>6, <1>7, <1>8 DEF StoresInv

LEMMA AllocFileStep ==
    ASSUME StoresInv, AllocFile, UNCHANGED baseVars
    PROVE  StoresInv' /\ Moves
<1>1. /\ Shape /\ TypeOK /\ StoreTypes /\ JobFits /\ TransactionFits /\ IdsFit /\ AccountsFit
      /\ ~Sql /\ txn = <<>> /\ job.at = "alloc" /\ job.op \in {"create", "alloc"}
      /\ job # NoJob /\ db.next \in 0..MaxId /\ MaxId \in Nat
      /\ UNCHANGED <<Aside, txn, known, given, halved, baseVars>>
    <2>1. job.at = "alloc" /\ ~Sql /\ UNCHANGED <<Aside, txn, known, given, halved, baseVars>>
        BY DEF AllocFile
    <2> QED
        BY <2>1, InvParts DEF JobFits
<1>2. CASE db.next = MaxId /\ job' = Failed /\ UNCHANGED <<link, troubles, db, mishap>>
    <2>1. /\ job' \in Jobs /\ job'.at = "done"
          /\ job'.op = job.op /\ job'.id = job.id /\ job'.v = job.v
          /\ job'.user = job.user /\ job'.req = job.req /\ job'.out = {}
        BY <1>1, <1>2, DoneFacts DEF Failed
    <2>2. StoreTypes'
        BY <1>1, <1>2, <2>1 DEF StoreTypes
    <2>3. JobFits'
        BY <1>1, <2>1, JobFitsNext DEF Aside, OutcomeFits
    <2>4. TransactionFits'
        BY <1>1 DEF TransactionFits
    <2>5. Shape'
        BY <1>1, <2>2, <2>3, <2>4, ShapeKept
    <2>6. IdsFit'
        BY <1>1, <1>2, <2>1, IdsKept
    <2>7. AccountsFit'
        BY <1>1 DEF AccountsFit, Sql, Aside
    <2>8. Moves
        BY <1>1, <1>2, <2>1 DEF Moves
    <2> QED
        BY <2>5, <2>6, <2>7, <2>8 DEF StoresInv
<1>3. ASSUME NEW ok \in BOOLEAN, db.next < MaxId,
             link' \in {"up", "lost", "down"}, troubles' \in Nat,
             job' = [job EXCEPT !.id = db.next + 1, !.at = IF ok THEN "count" ELSE "given"],
             db' = IF ok THEN [db EXCEPT !.next = 0] ELSE db,
             mishap' = IF ok THEN mishap ELSE mishap \cup {"unwritten"}
      PROVE  StoresInv' /\ Moves
    <2>1. db.next + 1 \in Ids /\ db.next + 1 \in 0..MaxId
        BY <1>1, <1>3 DEF Ids
    <2>2. /\ job' \in Jobs /\ job'.at = IF ok THEN "count" ELSE "given"
          /\ job'.op = job.op /\ job'.id = db.next + 1 /\ job'.v = job.v
          /\ job'.user = job.user /\ job'.req = job.req /\ job'.out = job.out
        BY <1>1, <1>3, <2>1 DEF StoreTypes, Jobs, Places
    <2>3. /\ db' \in Databases /\ db'.avatars = db.avatars
        <3>1. /\ [db EXCEPT !.next = 0] \in Databases
              /\ [db EXCEPT !.next = 0].avatars = db.avatars
            <4>1. 0 \in 0..MaxId /\ db \in Databases
                BY <1>1 DEF StoreTypes
            <4> QED
                BY <4>1 DEF Databases
        <3> QED
            BY <1>1, <1>3, <3>1 DEF StoreTypes
    <2>4. StoreTypes'
        BY <1>1, <1>3, <2>2, <2>3 DEF StoreTypes
    <2>5. JobFits'
        BY <1>1, <2>1, <2>2 DEF JobFits, RequestFits, OutcomeFits, NoJob, Sql, Aside
    <2>6. TransactionFits'
        BY <1>1 DEF TransactionFits
    <2>7. Shape'
        BY <1>1, <2>4, <2>5, <2>6, ShapeKept
    <2>8. IdsFit'
        <3>1. CASE ok
            <4> SUFFICES ASSUME mishap \cap {"torn", "unwritten"} = {}
                         PROVE  /\ \A i \in Ids : given[i] <= 1
                                                  /\ (given[i] # 0 => i <= db.next + 1)
                                /\ given[db.next + 1] = 0
                BY <1>1, <1>3, <2>2, <3>1 DEF IdsFit, Counter
            <4>1. \A i \in Ids : given[i] <= 1 /\ (given[i] # 0 => i <= db.next)
                BY <1>1 DEF IdsFit, Counter
            <4>2. given \in [Ids -> Nat]
                BY <1>1 DEF StoreTypes
            <4> QED
                BY <1>1, <2>1, <4>1, <4>2 DEF Ids
        <3>2. CASE ~ok
            BY <1>3, <3>2 DEF IdsFit
        <3> QED
            BY <3>1, <3>2
    <2>9. AccountsFit'
        BY <1>1 DEF AccountsFit, Sql, Aside
    <2>10. Moves
        BY <1>1, <1>3, <2>2, <2>3 DEF Moves
    <2> QED
        BY <2>7, <2>8, <2>9, <2>10 DEF StoresInv
<1>4. CASE db.next = MaxId
    <2>1. ~ (db.next < MaxId)
        BY <1>1, <1>4
    <2>2. job' = Failed /\ UNCHANGED <<link, troubles, db, mishap>>
        BY <2>1 DEF AllocFile
    <2> QED
        BY <1>2, <1>4, <2>2
<1>5. CASE db.next < MaxId
    <2>1. PICK s \in Statement :
              /\ Spent(s)
              /\ job' = [job EXCEPT !.id = db.next + 1,
                                    !.at = IF s.ok THEN "count" ELSE "given"]
              /\ db' = IF s.ok THEN [db EXCEPT !.next = 0] ELSE db
              /\ mishap' = IF s.ok THEN mishap ELSE mishap \cup {"unwritten"}
        <3>1. db.next # MaxId
            BY <1>1, <1>5
        <3> QED
            BY <3>1 DEF AllocFile
    <2>2. s.ok \in BOOLEAN /\ s.link \in {"up", "lost", "down"} /\ s.cost \in Nat
        BY <1>1, StatementFacts
    <2>3. link' = s.link /\ troubles' \in Nat
        BY <1>1, <2>1, <2>2 DEF Spent, StoreTypes
    <2> QED
        BY <1>3, <1>5, <2>1, <2>2, <2>3
<1> QED
    BY <1>1, <1>4, <1>5

LEMMA WriteCounterStep ==
    ASSUME StoresInv, WriteCounter, UNCHANGED baseVars
    PROVE  StoresInv' /\ Moves
<1>1. /\ Shape /\ TypeOK /\ StoreTypes /\ JobFits /\ TransactionFits /\ IdsFit /\ AccountsFit
      /\ ~Sql /\ txn = <<>> /\ job.at = "count" /\ job.op \in {"create", "alloc"}
      /\ job # NoJob /\ job.id \in Ids /\ job.id \in 0..MaxId
      /\ UNCHANGED <<Aside, txn, known, link, given, halved, baseVars>>
    <2>1. /\ job.at = "count"
          /\ UNCHANGED <<Aside, txn, known, link, given, halved, baseVars>>
        BY DEF WriteCounter
    <2> QED
        BY <2>1, InvParts DEF JobFits
<1>9. PICK whole \in BOOLEAN :
          Writes(whole) /\ db' = [db EXCEPT !.next = IF whole THEN job.id ELSE 0]
    BY DEF WriteCounter
<1>10. /\ troubles' \in Nat /\ mishap' \in SUBSET {"torn", "unwritten"}
       /\ mishap \subseteq mishap' /\ (whole \/ "torn" \in mishap')
    BY <1>1, <1>9, WritesFacts
<1>2. /\ db' \in Databases /\ db'.avatars = db.avatars
      /\ db'.next = job.id \/ "torn" \in mishap'
    <2>1. PICK n \in 0..MaxId : db' = [db EXCEPT !.next = n] /\ (n = job.id \/ "torn" \in mishap')
        BY <1>1, <1>9, <1>10, StoresAssumption
    <2> QED
        BY <1>1, <2>1 DEF StoreTypes, Databases
<1>3. /\ job' \in Jobs /\ job'.at = "given"
      /\ job'.op = job.op /\ job'.id = job.id /\ job'.v = job.v
      /\ job'.user = job.user /\ job'.req = job.req /\ job'.out = job.out
    BY <1>1, MoveFacts DEF WriteCounter, Places
<1>4. StoreTypes'
    BY <1>1, <1>2, <1>3, <1>10 DEF StoreTypes
<1>5. Shape'
    <2>1. OutcomeFits(job'.op, job'.out)
        BY <1>1, <1>3 DEF JobFits, OutcomeFits
    <2>2. JobFits'
        BY <1>1, <1>3, <2>1, JobFitsNext DEF Aside
    <2>3. TransactionFits'
        BY <1>1 DEF TransactionFits
    <2> QED
        BY <1>1, <1>4, <2>2, <2>3, ShapeKept
<1>6. IdsFit'
    BY <1>1, <1>2, <1>3, <1>10 DEF IdsFit, Counter
<1>7. AccountsFit'
    BY <1>1 DEF AccountsFit, Sql, Aside
<1>8. Moves
    BY <1>1, <1>2, <1>3, <1>10 DEF Moves
<1> QED
    BY <1>5, <1>6, <1>7, <1>8 DEF StoresInv

LEMMA GiveStep ==
    ASSUME StoresInv, Give, UNCHANGED baseVars
    PROVE  StoresInv' /\ Moves
<1>1. /\ Shape /\ TypeOK /\ StoreTypes /\ JobFits /\ TransactionFits /\ IdsFit /\ AccountsFit
      /\ txn = <<>> /\ job.at = "given" /\ job.op \in {"create", "alloc"}
      /\ job # NoJob /\ job.id \in Ids /\ job.id \in Nat
      /\ UNCHANGED <<Aside, db, txn, known, link, troubles, mishap, halved, baseVars>>
    <2>1. /\ job.at = "given"
          /\ UNCHANGED <<Aside, db, txn, known, link, troubles, mishap, halved, baseVars>>
        BY DEF Give
    <2> QED
        BY <2>1, InvParts DEF JobFits
<1>2. given' = [given EXCEPT ![job.id] = @ + 1] /\ given' \in [Ids -> Nat]
    BY <1>1 DEF Give, StoreTypes
<1>3. job.op = "create" => After("alloc") = IF Sql THEN "begin" ELSE "row"
    BY <1>1, AfterFacts DEF TypeOK, Sql
<1>4. /\ job' \in Jobs
      /\ job'.op = job.op /\ job'.id = job.id /\ job'.v = job.v
      /\ job'.user = job.user /\ job'.req = job.req
      /\ job.op = "alloc" => job'.at = "done" /\ job'.out = {job.id}
      /\ job.op = "create" =>
            job'.at = (IF Sql THEN "begin" ELSE "row") /\ job'.out = job.out
    <2>1. {job.id} \in SUBSET Nat
        BY <1>1
    <2>2. CASE job.op = "alloc"
        BY <1>1, <2>1, <2>2, DoneFacts DEF Give
    <2>3. CASE job.op = "create"
        BY <1>1, <1>3, <2>3, MoveFacts DEF Give, Places
    <2> QED
        BY <1>1, <2>2, <2>3
<1>5. StoreTypes'
    BY <1>1, <1>2, <1>4 DEF StoreTypes
<1>6. Shape'
    <2>1. OutcomeFits(job'.op, job'.out)
        BY <1>1, <1>4 DEF JobFits, OutcomeFits
    <2>2. JobFits'
        BY <1>1, <1>4, <2>1, JobFitsNext DEF Aside
    <2>3. TransactionFits'
        BY <1>1 DEF TransactionFits
    <2> QED
        BY <1>1, <1>5, <2>2, <2>3, ShapeKept
<1>7. IdsFit'
    <2> SUFFICES ASSUME mishap \cap {"torn", "unwritten"} = {}
                 PROVE  \A i \in Ids : given'[i] <= 1 /\ (given'[i] # 0 => i <= db.next)
        BY <1>1, <1>4 DEF IdsFit, Counter
    <2>1. /\ \A i \in Ids : given[i] <= 1 /\ (given[i] # 0 => i <= db.next)
          /\ given[job.id] = 0 /\ job.id <= db.next
        BY <1>1 DEF IdsFit, Counter
    <2> QED
        BY <1>1, <1>2, <2>1 DEF StoreTypes
<1>8. AccountsFit'
    BY <1>1, <1>4 DEF AccountsFit, Whole, Sql, InTransaction, HasId, Aside
<1>9. Moves
    BY <1>1, <1>4 DEF Moves
<1> QED
    BY <1>6, <1>7, <1>8, <1>9 DEF StoresInv

-----------------------------------------------------------------------------
(* createAccount's steps                                                     *)

LEMMA DuplicateStep ==
    ASSUME StoresInv, Duplicate, UNCHANGED baseVars
    PROVE  StoresInv' /\ Moves
<1>1. /\ Shape /\ TypeOK /\ StoreTypes /\ JobFits /\ TransactionFits /\ IdsFit /\ AccountsFit
      /\ txn = <<>> /\ job.at = "dup" /\ job.op = "create" /\ job # NoJob
      /\ UNCHANGED <<Aside, known, History, baseVars>>
    <2>1. job.at = "dup" /\ UNCHANGED <<Aside, known, History, baseVars>>
        BY DEF Duplicate
    <2> QED
        BY <2>1, InvParts DEF JobFits
<1>2. After("dup") = "alloc"
    BY <1>1, AfterFacts DEF TypeOK
<1>3. /\ link' \in {"up", "lost", "down"} /\ troubles' \in Nat /\ UNCHANGED <<db, txn>>
      /\ job' = To("alloc") \/ job' = Done({})
    <2>1. Query(Failed, To("alloc")) \/ Query(To("alloc"), To("alloc"))
        BY <1>2 DEF Duplicate
    <2> QED
        BY <1>1, <2>1, QueryFacts DEF Failed
<1>4. /\ job' \in Jobs
      /\ job'.op = job.op /\ job'.id = job.id /\ job'.v = job.v
      /\ job'.user = job.user /\ job'.req = job.req
      /\ \/ job'.at = "alloc" /\ job'.out = job.out
         \/ job'.at = "done" /\ job'.out = {}
    BY <1>1, <1>3, DoneFacts, MoveFacts DEF Places
<1>5. StoreTypes'
    BY <1>1, <1>3, <1>4 DEF StoreTypes, History
<1>6. Shape'
    <2>1. OutcomeFits(job'.op, job'.out)
        BY <1>1, <1>4 DEF JobFits, OutcomeFits
    <2>2. JobFits'
        BY <1>1, <1>4, <2>1, JobFitsNext DEF Aside
    <2>3. TransactionFits'
        BY <1>1, <1>3 DEF TransactionFits
    <2> QED
        BY <1>1, <1>5, <2>2, <2>3, ShapeKept
<1>7. IdsFit'
    BY <1>1, <1>3, <1>4, IdsKept DEF History
<1>8. AccountsFit'
    BY <1>1, <1>3, <1>4, AccountsKept DEF History, HasId, Aside
<1>9. Moves
    BY <1>1, <1>3, <1>4 DEF Moves, History
<1> QED
    BY <1>6, <1>7, <1>8, <1>9 DEF StoresInv

LEMMA BeginTransactionStep ==
    ASSUME StoresInv, BeginTransaction, UNCHANGED baseVars
    PROVE  StoresInv' /\ Moves
<1>1. /\ Shape /\ TypeOK /\ StoreTypes /\ JobFits /\ TransactionFits /\ IdsFit /\ AccountsFit
      /\ txn = <<>> /\ job.at = "begin" /\ job.op = "create" /\ job # NoJob /\ Sql
      /\ job.id \in Ids /\ UNCHANGED <<Aside, db, known, History, baseVars>>
      /\ db \in Databases
    <2>1. job.at = "begin" /\ UNCHANGED <<Aside, db, known, History, baseVars>>
        BY DEF BeginTransaction
    <2> QED
        BY <2>1, InvParts DEF JobFits
<1>2. After("begin") = IF backend = "postgresql" THEN "table" ELSE "row"
    BY <1>1, AfterFacts DEF TypeOK, Sql
<1>3. /\ link' \in {"up", "lost", "down"} /\ troubles' \in Nat
      /\ \/ job' = To(After("begin")) /\ txn' = <<db>> /\ link' = "up"
         \/ job' = Done({}) /\ txn' = <<>>
    <2>1. PICK s \in Statement :
              /\ Spent(s)
              /\ txn' = IF s.ok THEN <<db>> ELSE txn
              /\ job' = IF s.ok THEN To(After("begin")) ELSE Failed
        BY DEF BeginTransaction
    <2>2. /\ s.ok \in BOOLEAN /\ s.link \in {"up", "lost", "down"} /\ s.cost \in Nat
          /\ s.ok => s.link = "up"
        BY <1>1, StatementFacts
    <2>3. link' = s.link /\ troubles' \in Nat
        BY <1>1, <2>1, <2>2 DEF Spent, StoreTypes
    <2> QED
        BY <1>1, <2>1, <2>2, <2>3 DEF Failed
<1>4. /\ job' \in Jobs
      /\ job'.op = job.op /\ job'.id = job.id /\ job'.v = job.v
      /\ job'.user = job.user /\ job'.req = job.req
      /\ \/ /\ job'.at = After("begin") /\ job'.out = job.out
            /\ txn' = <<db>> /\ link' = "up"
         \/ job'.at = "done" /\ job'.out = {} /\ txn' = <<>>
    BY <1>1, <1>2, <1>3, DoneFacts, MoveFacts DEF Places
<1>5. txn' # <<>> => txn' = <<txn'[1]>> /\ txn'[1] = db
    BY <1>4
<1>6. StoreTypes'
    BY <1>1, <1>3, <1>4, <1>5 DEF StoreTypes, History
<1>7. Shape'
    <2>1. OutcomeFits(job'.op, job'.out)
        BY <1>1, <1>4 DEF JobFits, OutcomeFits
    <2>2. JobFits'
        BY <1>1, <1>2, <1>4, <2>1, JobFitsNext DEF Aside
    <2>3. TransactionFits'
        BY <1>1, <1>2, <1>4, <1>5 DEF TransactionFits, Sql, Aside
    <2> QED
        BY <1>1, <1>6, <2>2, <2>3, ShapeKept
<1>8. IdsFit'
    BY <1>1, <1>2, <1>4, IdsKept DEF History
<1>9. AccountsFit'
    <2>1. Whole(db', halved') /\ halved' = halved /\ db' = db
        BY <1>1 DEF AccountsFit, History
    <2>2. CASE job'.at = After("begin")
        <3>1. job'.at \in {"table", "row"} /\ job'.at # "done"
            BY <1>2, <2>2
        <3>3. txn' = <<db>>
            BY <1>4, <3>1
        <3>2. HasId /\ job.id <= db.next /\ (db.accounts[job.id] = Nobody \/ job.id \in halved)
            BY <1>1 DEF AccountsFit, HasId
        <3> QED
            BY <1>1, <1>4, <1>5, <2>1, <3>1, <3>2, <3>3 DEF AccountsFit, HasId, Aside, Sql
    <2>3. CASE job'.at = "done"
        <3>1. txn' = <<>> /\ ~HasId'
            BY <1>2, <1>4, <2>3 DEF HasId
        <3> QED
            BY <1>1, <2>1, <3>1, AccountsKept DEF Aside
    <2> QED
        BY <1>4, <2>2, <2>3
<1>10. Moves
    BY <1>1, <1>4 DEF Moves, History
<1> QED
    BY <1>7, <1>8, <1>9, <1>10 DEF StoresInv

\* What a statement puts in the transaction, when its session is there: otherwise
\* MySQL's goes to the new session, and PostgreSQL's fails.
\* An account more that need not be whole.
LEMMA WholeGrows ==
    ASSUME NEW d, NEW b, NEW c, b \subseteq c, Whole(d, b)
    PROVE  Whole(d, c)
BY DEF Whole

LEMMA InTransactionStep ==
    ASSUME StoresInv, UNCHANGED <<Aside, known, baseVars>>, Sql,
           UNCHANGED <<given, mishap>>, halved \subseteq halved', halved' \in SUBSET Ids,
           NEW new \in Databases, new.next = db.next, new.avatars = db.avatars,
           NEW next \in {"index", "commit"},
           job.op = "create", job.at \in {"row", "index"},
           Execute(new, To(next), To("rollback")),
           txn # <<>> =>
              /\ next = "index" =>
                    /\ new.accounts = [db.accounts EXCEPT ![job.id] = job.user]
                    /\ new.index = db.index
              /\ next = "commit" => Whole(new, halved'),
           txn = <<>> /\ job.id \in halved => Whole(new, halved')
    PROVE  StoresInv' /\ Moves
<1>1. /\ Shape /\ TypeOK /\ StoreTypes /\ JobFits /\ TransactionFits /\ IdsFit /\ AccountsFit
      /\ job # NoJob /\ job.id \in Ids
    BY InvParts DEF JobFits
<1>2. /\ link' \in {"up", "lost", "down"} /\ troubles' \in Nat
      /\ link = "up" => link' = "up"
      /\ \/ /\ job' = To(next) /\ link' = "up"
            /\ ~ (backend = "postgresql" /\ link = "lost")
            /\ txn = <<>> => db' = new /\ txn' = <<>>
            /\ txn # <<>> => db' = db /\ txn' = <<new>>
         \/ job' = To("rollback") /\ db' = db /\ txn' = txn
    BY <1>1, ExecuteFacts
<1>3. /\ job' \in Jobs
      /\ job'.op = job.op /\ job'.id = job.id /\ job'.v = job.v
      /\ job'.user = job.user /\ job'.req = job.req /\ job'.out = job.out
      /\ \/ /\ job'.at = next /\ link' = "up"
            /\ ~ (backend = "postgresql" /\ link = "lost")
            /\ txn = <<>> => db' = new /\ txn' = <<>>
            /\ txn # <<>> => db' = db /\ txn' = <<new>>
         \/ job'.at = "rollback" /\ db' = db /\ txn' = txn
    BY <1>1, <1>2, MoveFacts DEF Places
<1>4. /\ db' \in Databases /\ db'.next = db.next /\ db'.avatars = db.avatars
      /\ txn' # <<>> => /\ txn' = <<txn'[1]>> /\ txn'[1] \in Databases
                        /\ txn'[1].next = db.next /\ txn'[1].avatars = db.avatars
                        /\ txn # <<>>
    BY <1>1, <1>3 DEF StoreTypes, TransactionFits
<1>5. StoreTypes'
    BY <1>1, <1>2, <1>3, <1>4 DEF StoreTypes
<1>6. Shape'
    <2>1. OutcomeFits(job'.op, job'.out)
        BY <1>1, <1>3 DEF JobFits, OutcomeFits
    <2>2. JobFits'
        BY <1>1, <1>3, <2>1, JobFitsNext DEF Aside
    <2>3. TransactionFits'
        BY <1>1, <1>2, <1>3, <1>4 DEF TransactionFits, Sql, Aside
    <2> QED
        BY <1>1, <1>5, <2>2, <2>3, ShapeKept
<1>7. IdsFit'
    BY <1>1, <1>3, <1>4, IdsKept
<1>8. AccountsFit'
    <2>1. txn = <<>> => (backend = "postgresql" /\ link = "lost") \/ job.id \in halved
        BY <1>1 DEF AccountsFit, HasId, InTransaction
    <2>4. Whole(db, halved')
        BY <1>1, WholeGrows DEF AccountsFit
    <2>2. CASE job'.at = next
        <3>1. CASE txn # <<>>
            <4>1. db' = db /\ txn' = <<new>> /\ txn' # <<>> /\ txn'[1] = new
                BY <1>3, <2>2, <3>1
            <4> QED
                BY <1>1, <1>3, <2>2, <2>4, <3>1, <4>1
                   DEF AccountsFit, HasId, InTransaction, Sql, Aside
        <3>2. CASE txn = <<>>
            <4>1. job.id \in halved /\ db' = new /\ txn' = <<>>
                BY <1>3, <2>1, <2>2, <3>2
            <4>2. Whole(db', halved')
                BY <3>2, <4>1
            <4> QED
                BY <1>1, <1>3, <1>4, <2>2, <4>1, <4>2
                   DEF AccountsFit, HasId, InTransaction, Sql, Aside
        <3> QED
            BY <3>1, <3>2
    <2>3. CASE job'.at = "rollback"
        <3>1. txn' # <<>> => txn # <<>>
            BY <1>4
        <3> QED
            BY <1>1, <1>3, <2>3, <2>4 DEF AccountsFit, HasId, InTransaction, Sql, Aside
    <2> QED
        BY <1>3, <2>2, <2>3
<1>9. Moves
    BY <1>3, <1>4 DEF Moves
<1> QED
    BY <1>6, <1>7, <1>8, <1>9 DEF StoresInv

\* A statement that fails in createAccount's transaction.
LEMMA ToRollbackStep ==
    ASSUME StoresInv, UNCHANGED <<Aside, known, History, baseVars>>, Sql,
           job.op = "create", job.at \in {"row", "index", "commit"},
           link' \in {"up", "lost", "down"}, troubles' \in Nat, job' = To("rollback"),
           db' = db /\ txn' = txn /\ (link = "up" => link' = "up")
    PROVE  StoresInv' /\ Moves
<1>1. /\ Shape /\ TypeOK /\ StoreTypes /\ JobFits /\ TransactionFits /\ IdsFit /\ AccountsFit
      /\ job # NoJob /\ job.id \in Ids
    BY InvParts DEF JobFits
<1>2. /\ job' \in Jobs
      /\ job'.op = job.op /\ job'.id = job.id /\ job'.v = job.v
      /\ job'.user = job.user /\ job'.req = job.req /\ job'.out = job.out
      /\ job'.at = "rollback"
    BY <1>1, MoveFacts DEF Places
<1>3. StoreTypes'
    BY <1>1, <1>2 DEF StoreTypes, History
<1>4. Shape'
    <2>1. OutcomeFits(job'.op, job'.out)
        BY <1>1, <1>2 DEF JobFits, OutcomeFits
    <2>2. JobFits'
        BY <1>1, <1>2, <2>1, JobFitsNext DEF Aside
    <2>3. TransactionFits'
        BY <1>1, <1>2 DEF TransactionFits, Sql, Aside
    <2> QED
        BY <1>1, <1>3, <2>2, <2>3, ShapeKept
<1>5. IdsFit'
    BY <1>1, <1>2, IdsKept DEF History
<1>6. AccountsFit'
    BY <1>1, <1>2 DEF AccountsFit, Whole, HasId, InTransaction, Sql, Aside, History
<1>7. Moves
    BY <1>2 DEF Moves, History
<1> QED
    BY <1>4, <1>5, <1>6, <1>7 DEF StoresInv

\* The row of an account that need not be whole.
LEMMA RowKeepsWhole ==
    ASSUME NEW d \in Databases, NEW new \in Databases, NEW but, Whole(d, but),
           NEW i \in Ids, NEW u \in Names, i \in but, i <= d.next,
           new.accounts = [d.accounts EXCEPT ![i] = u],
           new.index = d.index, new.next = d.next
    PROVE  Whole(new, but)
<1>1. d.accounts \in [Ids -> Names] /\ d.index \in [Users -> 0..MaxId]
    BY DEF Databases
<1>2. \A j \in Ids : new.accounts[j] = IF j = i THEN u ELSE d.accounts[j]
    BY <1>1
<1>3. \A w \in Users : d.index[w] \notin {0} \cup but => d.index[w] \in Ids /\ d.index[w] # i
    BY <1>1, StoresAssumption DEF Ids
<1> QED
    BY <1>2, <1>3 DEF Whole

LEMMA SaveAccountStep ==
    ASSUME StoresInv, SaveAccount, UNCHANGED baseVars
    PROVE  StoresInv' /\ Moves
<1> DEFINE new == [View EXCEPT !.accounts[job.id] = job.user]
<1>1. /\ Shape /\ TypeOK /\ StoreTypes /\ JobFits /\ TransactionFits /\ IdsFit /\ AccountsFit
      /\ job.at = "row" /\ job.op = "create" /\ Sql
      /\ job.id \in Ids /\ job.user \in Names /\ UNCHANGED <<Aside, known, History, baseVars>>
    <2>1. job.at = "row" /\ Sql /\ UNCHANGED <<Aside, known, History, baseVars>>
        BY DEF SaveAccount
    <2> QED
        BY <2>1, InvParts DEF JobFits
<1>2. CASE ~HasTable
    <2>1. Query(To("rollback"), To("rollback"))
        BY <1>2 DEF SaveAccount
    <2> QED
        BY <1>1, <2>1, QueryFacts, ToRollbackStep
<1>3. CASE HasTable
    <2>1. Execute(new, To("index"), To("rollback"))
        BY <1>3 DEF SaveAccount
    <2>2. View \in Databases /\ View.next = db.next /\ View.avatars = db.avatars
        BY <1>1, ViewFacts
    <2>3. /\ new \in Databases /\ new.next = db.next /\ new.avatars = db.avatars
          /\ new.accounts = [View.accounts EXCEPT ![job.id] = job.user]
          /\ new.index = View.index
        BY <1>1, <2>2 DEF Databases
    <2> HIDE DEF new
    <2>4. txn # <<>> =>
              /\ new.accounts = [db.accounts EXCEPT ![job.id] = job.user]
              /\ new.index = db.index
        BY <1>1, <2>3, ViewFacts DEF AccountsFit
    <2>5. txn = <<>> /\ job.id \in halved => Whole(new, halved)
        <3> SUFFICES ASSUME txn = <<>>, job.id \in halved
                     PROVE  Whole(new, halved)
            OBVIOUS
        <3>1. View = db /\ Whole(db, halved) /\ job.id <= db.next /\ db \in Databases
            BY <1>1, ViewFacts DEF AccountsFit, HasId, StoreTypes, View
        <3> QED
            BY <1>1, <2>3, <3>1, RowKeepsWhole
    <2>6. UNCHANGED <<given, mishap, halved>> /\ halved' \in SUBSET Ids
        BY <1>1 DEF History, StoreTypes
    <2> QED
        BY <1>1, <2>1, <2>3, <2>4, <2>5, <2>6, InTransactionStep
<1> QED
    BY <1>2, <1>3

\* The index row of a new account makes it whole, and whose name it takes over
\* need no longer be.
LEMMA IndexMakesWhole ==
    ASSUME NEW d \in Databases, NEW new \in Databases, NEW b, NEW c, Whole(d, b),
           NEW i \in Ids, NEW u \in Users,
           i <= d.next, d.accounts[i] = Nobody \/ i \in b,
           b \subseteq c, d.index[u] \in {0} \cup c,
           new.accounts = [d.accounts EXCEPT ![i] = u],
           new.index = [d.index EXCEPT ![u] = i], new.next = d.next
    PROVE  Whole(new, c)
<1>1. /\ d.accounts \in [Ids -> Names] /\ d.index \in [Users -> 0..MaxId]
      /\ u # Nobody /\ 0 \notin Ids
    BY StoresAssumption DEF Databases, Nobody, Ids
<1>2. \A j \in Ids : new.accounts[j] = IF j = i THEN u ELSE d.accounts[j]
    BY <1>1
<1>3. \A w \in Users : new.index[w] = IF w = u THEN i ELSE d.index[w]
    BY <1>1
<1>6. ASSUME NEW j \in Ids, new.accounts[j] # Nobody
      PROVE  j <= new.next
    BY <1>2, <1>6 DEF Whole
<1>4. ASSUME NEW j \in Ids \ c, new.accounts[j] # Nobody
      PROVE  new.index[new.accounts[j]] = j
    <2>1. CASE j = i
        BY <1>2, <1>3, <2>1
    <2>2. CASE j # i
        <3>1. new.accounts[j] = d.accounts[j] /\ d.accounts[j] \in Users
            BY <1>1, <1>2, <1>4, <2>2 DEF Names
        <3>2. d.index[d.accounts[j]] = j
            BY <1>4, <3>1 DEF Whole
        <3>3. d.accounts[j] # u
            BY <1>1, <1>4, <3>2
        <3> QED
            BY <1>3, <3>1, <3>2, <3>3
    <2> QED
        BY <2>1, <2>2
<1>5. ASSUME NEW w \in Users, new.index[w] \notin {0} \cup c
      PROVE  new.accounts[new.index[w]] = w
    <2>1. CASE w = u
        BY <1>2, <1>3, <2>1
    <2>2. CASE w # u
        <3>1. new.index[w] = d.index[w] /\ d.index[w] \in Ids /\ d.accounts[d.index[w]] = w
            BY <1>1, <1>3, <1>5, <2>2 DEF Whole, Ids
        <3>2. d.index[w] # i
            BY <1>1, <1>3, <1>5, <2>2, <3>1, StoresAssumption DEF Nobody
        <3> QED
            BY <1>2, <3>1, <3>2
    <2> QED
        BY <2>1, <2>2
<1> QED
    BY <1>4, <1>5, <1>6 DEF Whole

\* The index row of an account that need not be whole.
LEMMA IndexKeepsWhole ==
    ASSUME NEW d \in Databases, NEW new \in Databases, NEW b, NEW c, Whole(d, b),
           NEW i \in Ids, NEW u \in Users, i \in b, b \subseteq c, d.index[u] \in {0} \cup c,
           new.accounts = d.accounts,
           new.index = [d.index EXCEPT ![u] = i], new.next = d.next
    PROVE  Whole(new, c)
<1>1. d.accounts \in [Ids -> Names] /\ d.index \in [Users -> 0..MaxId] /\ 0 \notin Ids
    BY DEF Databases, Ids
<1>2. \A w \in Users : new.index[w] = IF w = u THEN i ELSE d.index[w]
    BY <1>1
<1>3. ASSUME NEW j \in Ids \ c, d.accounts[j] # Nobody
      PROVE  new.index[d.accounts[j]] = j
    <2>1. d.index[d.accounts[j]] = j /\ d.accounts[j] \in Users
        BY <1>1, <1>3 DEF Whole, Names
    <2>2. d.accounts[j] # u
        BY <1>1, <1>3, <2>1
    <2> QED
        BY <1>2, <2>1, <2>2
<1> QED
    BY <1>2, <1>3 DEF Whole

LEMMA InsertIndexStep ==
    ASSUME StoresInv, InsertIndex, UNCHANGED baseVars
    PROVE  StoresInv' /\ Moves
<1> DEFINE new == [View EXCEPT !.index[job.user] = job.id]
<1>1. /\ Shape /\ TypeOK /\ StoreTypes /\ JobFits /\ TransactionFits /\ IdsFit /\ AccountsFit
      /\ job.at = "index" /\ job.op = "create" /\ Sql /\ job.id \in Ids /\ job.id \in 0..MaxId
      /\ job.user \in Users /\ UNCHANGED <<Aside, known, given, mishap, baseVars>>
      /\ db \in Databases
    <2>1. job.at = "index" /\ UNCHANGED <<Aside, known, given, mishap, baseVars>>
        BY DEF InsertIndex
    <2> QED
        BY <2>1, InvParts DEF JobFits, RequestFits
<1>2. /\ Execute(new, To("commit"), To("rollback"))
      /\ halved' = halved \cup ({View.index[job.user]} \ {0})
    BY DEF InsertIndex
<1>3. View \in Databases /\ View.next = db.next /\ View.avatars = db.avatars
    BY <1>1, ViewFacts
<1>4. /\ new \in Databases /\ new.next = db.next /\ new.avatars = db.avatars
      /\ new.accounts = View.accounts
      /\ new.index = [View.index EXCEPT ![job.user] = job.id]
    BY <1>1, <1>3 DEF Databases
<1> HIDE DEF new
<1>6. /\ halved \subseteq halved' /\ halved' \in SUBSET Ids
      /\ View.index[job.user] \in {0} \cup halved'
    BY <1>1, <1>2, <1>3 DEF Databases, StoreTypes, Ids
<1>7. Whole(db, halved) /\ job.id <= db.next /\ (db.accounts[job.id] = Nobody \/ job.id \in halved)
    BY <1>1 DEF AccountsFit, HasId
<1>5. ASSUME txn # <<>>
      PROVE  Whole(new, halved')
    <2>2. /\ txn[1].accounts = [db.accounts EXCEPT ![job.id] = job.user]
          /\ txn[1].index = db.index
        BY <1>1, <1>5 DEF AccountsFit
    <2>3. View = txn[1]
        BY <1>1, <1>5, ViewFacts
    <2> QED
        BY <1>1, <1>4, <1>6, <1>7, <2>2, <2>3, IndexMakesWhole
<1>8. ASSUME txn = <<>>, job.id \in halved
      PROVE  Whole(new, halved')
    <2>1. View = db
        BY <1>8 DEF View
    <2> QED
        BY <1>1, <1>4, <1>6, <1>7, <1>8, <2>1, IndexKeepsWhole
<1> QED
    BY <1>1, <1>2, <1>4, <1>5, <1>6, <1>8, InTransactionStep

LEMMA CommitStep ==
    ASSUME StoresInv, Commit, UNCHANGED baseVars
    PROVE  StoresInv' /\ Moves
<1>1. /\ Shape /\ TypeOK /\ StoreTypes /\ JobFits /\ TransactionFits /\ IdsFit /\ AccountsFit
      /\ job.at = "commit" /\ job.op = "create" /\ Sql /\ job.id \in Ids /\ job # NoJob
      /\ UNCHANGED <<Aside, known, History, baseVars>>
      /\ db \in Databases
    <2>1. job.at = "commit" /\ UNCHANGED <<Aside, known, History, baseVars>>
        BY DEF Commit
    <2> QED
        BY <2>1, InvParts DEF JobFits, RequestFits
<1>2. CASE /\ link' \in {"up", "lost", "down"} /\ troubles' \in Nat
           /\ db' = View /\ txn' = <<>>
           /\ txn = <<>> => ~ (backend = "postgresql" /\ link = "lost")
           /\ job' = Done({job.id}) \/ job' = To("rollback")
    <2>1. /\ job' \in Jobs
          /\ job'.op = job.op /\ job'.id = job.id /\ job'.v = job.v
          /\ job'.user = job.user /\ job'.req = job.req
          /\ \/ job'.at = "done" /\ job'.out = {job.id}
             \/ job'.at = "rollback" /\ job'.out = job.out
        <3>1. {job.id} \in SUBSET Nat
            BY <1>1 DEF Ids
        <3> QED
            BY <1>1, <1>2, <3>1, DoneFacts, MoveFacts DEF Places
    <2>2. View \in Databases /\ View.next = db.next /\ View.avatars = db.avatars
        BY <1>1, ViewFacts
    <2>3. StoreTypes'
        BY <1>1, <1>2, <2>1, <2>2 DEF StoreTypes, History
    <2>4. Shape'
        <3>1. OutcomeFits(job'.op, job'.out)
            BY <1>1, <2>1 DEF JobFits, OutcomeFits
        <3>2. JobFits'
            BY <1>1, <2>1, <3>1, JobFitsNext DEF Aside
        <3>3. TransactionFits'
            BY <1>2 DEF TransactionFits
        <3> QED
            BY <1>1, <2>3, <3>2, <3>3, ShapeKept
    <2>5. IdsFit'
        BY <1>1, <1>2, <2>1, <2>2, IdsKept DEF History
    <2>6. AccountsFit'
        <3> SUFFICES Whole(db', halved)
            BY <1>1, <1>2, <2>1 DEF AccountsFit, HasId, InTransaction, Sql, History
        <3>1. CASE txn # <<>>
            BY <1>1, <1>2, <3>1, ViewFacts DEF AccountsFit
        <3>2. CASE txn = <<>>
            BY <1>1, <1>2, <3>2 DEF AccountsFit, View
        <3> QED
            BY <3>1, <3>2
    <2>7. Moves
        BY <1>1, <1>2, <2>1, <2>2 DEF Moves, History
    <2> QED
        BY <2>4, <2>5, <2>6, <2>7 DEF StoresInv
<1>3. ASSUME NEW s \in Statement, Spent(s),
             job' = (IF s.ok THEN Done({job.id}) ELSE To("rollback")),
             IF s.ok THEN db' = View /\ txn' = <<>> ELSE UNCHANGED <<db, txn>>
      PROVE  StoresInv' /\ Moves
    <2>1. /\ s.ok \in BOOLEAN /\ s.link \in {"up", "lost", "down"} /\ s.cost \in Nat
          /\ link = "up" => s.link = "up"
          /\ backend = "postgresql" /\ link = "lost" => ~s.ok
        BY <1>1, StatementFacts
    <2>2. link' = s.link /\ troubles' \in Nat
        BY <1>1, <1>3, <2>1 DEF Spent, StoreTypes
    <2>3. CASE s.ok
        BY <1>2, <1>3, <2>1, <2>2, <2>3
    <2>4. CASE ~s.ok
        BY <1>1, <1>3, <2>1, <2>2, <2>4, ToRollbackStep
    <2> QED
        BY <2>3, <2>4
<1>4. ASSUME link = "up", Spent(Outcome(FALSE, "lost", 1)),
             job' = To("rollback"), db' = View, txn' = <<>>
      PROVE  StoresInv' /\ Moves
    <2>1. link' = "lost" /\ troubles' \in Nat
        BY <1>1, <1>4 DEF Spent, Outcome, StoreTypes
    <2> QED
        BY <1>2, <1>4, <2>1
<1> QED
    BY <1>3, <1>4 DEF Commit

LEMMA RollbackStep ==
    ASSUME StoresInv, Rollback, UNCHANGED baseVars
    PROVE  StoresInv' /\ Moves
<1>1. /\ Shape /\ TypeOK /\ StoreTypes /\ JobFits /\ TransactionFits /\ IdsFit /\ AccountsFit
      /\ job.at = "rollback" /\ job.op = "create" /\ Sql /\ job # NoJob
      /\ txn' = <<>> /\ job' = Done({})
      /\ UNCHANGED <<Aside, db, known, History, baseVars>>
    <2>1. /\ job.at = "rollback" /\ txn' = <<>> /\ job' = Done({})
          /\ UNCHANGED <<Aside, db, known, History, baseVars>>
        BY DEF Rollback, Failed
    <2> QED
        BY <2>1, InvParts DEF JobFits
<1>2. link' \in {"up", "lost", "down"} /\ troubles' \in Nat
    <2>1. PICK s \in Statement : Spent(s)
        BY DEF Rollback
    <2> QED
        BY <1>1, <2>1, StatementFacts DEF Spent, StoreTypes
<1>3. /\ job' \in Jobs /\ job'.at = "done" /\ job'.out = {}
      /\ job'.op = job.op /\ job'.id = job.id /\ job'.v = job.v
      /\ job'.user = job.user /\ job'.req = job.req
    BY <1>1, DoneFacts
<1>4. StoreTypes'
    BY <1>1, <1>2, <1>3 DEF StoreTypes, History
<1>5. Shape'
    <2>1. JobFits'
        BY <1>1, <1>3, JobFitsNext DEF Aside, OutcomeFits
    <2>2. TransactionFits'
        BY <1>1 DEF TransactionFits
    <2> QED
        BY <1>1, <1>4, <2>1, <2>2, ShapeKept
<1>6. IdsFit'
    BY <1>1, <1>3, IdsKept DEF History
<1>7. AccountsFit'
    BY <1>1, <1>3, AccountsKept DEF History, HasId, Aside
<1>8. Moves
    BY <1>1, <1>3 DEF Moves, History
<1> QED
    BY <1>5, <1>6, <1>7, <1>8 DEF StoresInv

LEMMA JobStepKeeps ==
    ASSUME StoresInv, JobStep, UNCHANGED baseVars
    PROVE  StoresInv' /\ Moves
BY EnsureTableStep, LoadRowStep, ListIdsStep, ListTypesStep, SaveRowStep, SaveFileStep,
   AllocStep, ReadBackStep, AllocFileStep, WriteCounterStep, WriteFileStep, GiveStep,
   DuplicateStep, BeginTransactionStep, SaveAccountStep, InsertIndexStep, CommitStep,
   RollbackStep DEF JobStep

-----------------------------------------------------------------------------
(* The base's requests                                                       *)

\* A finite set of naturals leaves one out among the first.
LEMMA SomeIsLeftOut ==
    ASSUME NEW S \in SUBSET Nat, IsFiniteSet(S)
    PROVE  \E n \in 1..(Cardinality(S) + 1) : n \notin S
<1> DEFINE c == Cardinality(S)
<1>1. c \in Nat
    BY FS_CardinalityType
<1>2. IsFiniteSet(1..(c + 1)) /\ Cardinality(1..(c + 1)) = c + 1
    <2>1. 1 \in Int /\ c + 1 \in Int /\ ~(1 > c + 1) /\ (c + 1) - 1 + 1 = c + 1
        BY <1>1
    <2> HIDE DEF c
    <2> QED
        BY <2>1, FS_Interval
<1>3. ASSUME 1..(c + 1) \subseteq S
      PROVE  FALSE
    <2>1. Cardinality(1..(c + 1)) <= Cardinality(S)
        BY <1>3, FS_Subset
    <2> QED
        BY <1>1, <1>2, <2>1
<1> QED
    BY <1>3

\* The ids of a queue's messages are finitely many.
LEMMA IdsOfQueue ==
    ASSUME NEW S, NEW q \in Seq(S)
    PROVE  IsFiniteSet({q[k].req : k \in DOMAIN q})
<1> DEFINE f == [k \in DOMAIN q |-> q[k].req]
           T == {q[k].req : k \in DOMAIN q}
<1>1. f \in Surjection(DOMAIN q, T)
    BY DEF Surjection
<1>2. IsFiniteSet(DOMAIN q)
    <2>1. DOMAIN q = 1..Len(q) /\ Len(q) \in Nat
        OBVIOUS
    <2> QED
        BY <2>1, FS_Interval
<1> HIDE DEF f, T
<1>3. IsFiniteSet(T)
    BY <1>1, <1>2, FS_Surjection
<1> QED
    BY <1>3 DEF T

\* The id of a new request is no other's.
LEMMA FreshIdFacts ==
    ASSUME TypeOK
    PROVE  /\ FreshId \in Nat /\ FreshId # 0 /\ FreshId # job.req
           /\ \A k \in 1..Len(requests) : requests[k].req # FreshId
           /\ \A k \in 1..Len(answers) : answers[k].req # FreshId
<1> DEFINE r == {requests[k].req : k \in DOMAIN requests}
           a == {answers[k].req : k \in DOMAIN answers}
           used == r \cup a \cup {job.req}
<1>1. /\ requests \in Seq(Requests) /\ answers \in Seq(Answers) /\ job.req \in Nat
    BY DEF TypeOK, StoreTypes, Jobs
<1>2. r \in SUBSET Nat /\ a \in SUBSET Nat
    <2>1. /\ \A k \in DOMAIN requests : requests[k] \in Requests
          /\ \A k \in DOMAIN answers : answers[k] \in Answers
        BY <1>1
    <2>2. /\ \A m \in Requests : m.req \in Nat
          /\ \A m \in Answers : m.req \in Nat
        BY DEF Requests, Answers
    <2> QED
        BY <2>1, <2>2
<1>3. IsFiniteSet(r) /\ IsFiniteSet(a)
    BY <1>1, IdsOfQueue
<1>4. IsFiniteSet(used) /\ used \in SUBSET Nat
    <2> HIDE DEF r, a
    <2>1. IsFiniteSet(r \cup a)
        BY <1>3, FS_Union
    <2> QED
        BY <1>1, <1>2, <2>1, FS_AddElement
<1>5. PICK n \in 1..(Cardinality(used) + 1) : n \notin used
    <2> HIDE DEF used
    <2> QED
        BY <1>4, SomeIsLeftOut
<1>6. FreshId = CHOOSE m \in 1..(Cardinality(used) + 1) : m \notin used
    BY DEF FreshId
<1>7. FreshId \in 1..(Cardinality(used) + 1) /\ FreshId \notin used
    <2> HIDE DEF used
    <2> QED
        BY <1>5, <1>6
<1>8. Cardinality(used) \in Nat
    BY <1>4, FS_CardinalityType
<1> QED
    BY <1>1, <1>7, <1>8

-----------------------------------------------------------------------------
(* What a step of DBApp's job does to the base's side                        *)

BaseInv == CallFits /\ CallIsLast /\ OutcomeIsSo /\ VersionsFit

LEMMA MovesKeepBase ==
    ASSUME Shape, BaseInv, Moves, StoreTypes'
    PROVE  BaseInv'
<1>1. /\ TypeOK /\ job \in Jobs /\ job' \in Jobs
      /\ UNCHANGED <<requests, answers, baseUp, entities, call, latest, acked>>
      /\ db.avatars \in [Ids -> Nat \cup {Torn}] /\ db'.avatars \in [Ids -> Nat \cup {Torn}]
      /\ entities \in [Ids -> [v : Nat, dirty : BOOLEAN]]
      /\ latest \in [Ids -> Nat] /\ acked \in [Ids -> Nat]
      /\ requests \in Seq(Requests)
    BY DEF Shape, TypeOK, Moves, StoreTypes, Databases, Aside, baseVars
<1>2. CallFits'
    BY <1>1 DEF BaseInv, CallFits, InRegister
<1>3. CallIsLast'
    BY <1>1 DEF BaseInv, CallIsLast, IsCalls, NothingAfter, Moves
<1>4. OutcomeIsSo'
    <2>1. job.op = "save" => job.id \in Ids
        BY DEF Shape, JobFits, RequestFits, NoJob
    <2> QED
        BY <1>1, <2>1 DEF OutcomeIsSo, Moves
<1>5. VersionsFit'
    <2> SUFFICES ASSUME NEW i \in Ids
                 PROVE  VersionFits(i)'
        BY DEF VersionsFit
    <2>1. /\ VersionFits(i)
          /\ db.avatars[i] \in Nat \cup {Torn} /\ db'.avatars[i] \in Nat \cup {Torn}
          /\ entities[i].v \in Nat /\ latest[i] \in Nat /\ acked[i] \in Nat
          /\ job.v \in Nat /\ job'.v = job.v
          /\ \A k \in 1..Len(requests) : requests[k].v \in Nat
        <3>1. \A k \in 1..Len(requests) : requests[k] \in Requests
            BY <1>1
        <3>2. \A m \in Requests : m.v \in Nat
            BY DEF Requests
        <3> QED
            BY <1>1, <3>1, <3>2 DEF BaseInv, VersionsFit, Jobs, Moves
    <2>2. CASE job.op # "save" \/ job.id # i
        <3>1. db'.avatars[i] = db.avatars[i] /\ ~Saves(job, i) /\ ~Saves(job', i)
            BY <1>1, <2>2 DEF Moves, Saves
        <3> QED
            BY <1>1, <2>1, <3>1 DEF VersionFits, InOrder, StoredUpTo, Saving, Moves
    <2>3. CASE job.op = "save" /\ job.id = i
        <3>1. /\ Saving(i) /\ Saves(job, i) /\ Saves(job', i)
              /\ \/ /\ db'.avatars[i] = db.avatars[i]
                    /\ job.at # "write" /\ job'.at # "write"
                 \/ db'.avatars[i] = job.v /\ job'.at = "done"
                 \/ /\ db'.avatars[i] = Torn
                    /\ job'.at = "write" \/ (job'.at = "done" /\ "torn" \in mishap')
            BY <1>1, <2>3 DEF Moves, Saves, Saving
        <3> QED
            BY <1>1, <2>1, <3>1 DEF VersionFits, InOrder, StoredUpTo, Saving, Moves, Torn
    <2> QED
        BY <2>2, <2>3
<1> QED
    BY <1>2, <1>3, <1>4, <1>5 DEF BaseInv

-----------------------------------------------------------------------------
(* DBApp's other steps                                                       *)

\* What is left of a queue, and what was added to it.
LEMMA TailFacts ==
    ASSUME NEW S, NEW q \in Seq(S), q # <<>>
    PROVE  /\ Head(q) = q[1] /\ Head(q) \in S /\ Tail(q) \in Seq(S)
           /\ Len(q) \in Nat /\ Len(q) >= 1 /\ Len(Tail(q)) = Len(q) - 1
           /\ \A k \in 1..Len(Tail(q)) : k+1 \in 1..Len(q) /\ Tail(q)[k] = q[k+1]
OBVIOUS

LEMMA AppendFacts ==
    ASSUME NEW S, NEW q \in Seq(S), NEW x \in S
    PROVE  /\ Append(q, x) \in Seq(S) /\ Len(q) \in Nat /\ Len(Append(q, x)) = Len(q) + 1
           /\ \A k \in 1..Len(q) : Append(q, x)[k] = q[k]
           /\ Append(q, x)[Len(q) + 1] = x
OBVIOUS

\* The base's side and what is stored of ids and accounts when only what is on
\* its way changes.
LEMMA StoresKept ==
    ASSUME StoresInv, UNCHANGED <<backend, autoCreate, up, db, txn, known, link, job>>,
           UNCHANGED <<given, mishap, halved>>,
           troubles' \in Nat,
           requests' \in Seq(Requests), answers' \in Seq(Answers),
           \A k \in 1..Len(requests') : RequestFits(requests'[k]),
           \A k \in 1..Len(answers') : OutcomeFits(answers'[k].op, answers'[k].out),
           baseUp' \in BOOLEAN, served' \in BOOLEAN, path' \in {"good", "dead"},
           call' \in Calls, entities' \in [Ids -> [v : Nat, dirty : BOOLEAN]],
           latest' \in [Ids -> Nat], acked' \in [Ids -> Nat]
    PROVE  StoresInv'
<1>1. Shape'
    <2>1. TypeOK'
        BY DEF StoresInv, Shape, TypeOK, StoreTypes
    <2>2. JobFits' /\ TransactionFits'
        BY DEF StoresInv, Shape, JobFits, TransactionFits, Sql, RequestFits, OutcomeFits
    <2> QED
        BY <2>1, <2>2 DEF Shape, RequestFits, OutcomeFits
<1>2. IdsFit' /\ AccountsFit'
    BY DEF StoresInv, IdsFit, Counter, AccountsFit, Whole, Sql, InTransaction, HasId
<1> QED
    BY <1>1, <1>2 DEF StoresInv

LEMMA HandleStep ==
    ASSUME StoresInv, BaseInv, Handle, UNCHANGED baseVars
    PROVE  StoresInv' /\ BaseInv'
<1> DEFINE r == Head(requests)
           j == [NoJob EXCEPT !.op = r.op, !.id = r.id, !.v = r.v, !.user = r.user, !.req = r.req]
<1>1. /\ Shape /\ TypeOK /\ StoreTypes /\ JobFits /\ TransactionFits /\ IdsFit /\ AccountsFit
      /\ job = NoJob /\ job.at = "done" /\ job.op = "none"
      /\ requests # <<>> /\ requests' = Tail(requests)
      /\ UNCHANGED <<backend, autoCreate, up, db, txn, known, answers, History, baseVars>>
      /\ requests \in Seq(Requests) /\ answers \in Seq(Answers)
    BY InvParts DEF Handle, NoJob, TypeOK
<1>2. /\ r = requests[1] /\ r \in Requests /\ requests' \in Seq(Requests) /\ 1 \in 1..Len(requests)
      /\ Len(requests') = Len(requests) - 1 /\ Len(requests) \in Nat
      /\ \A k \in 1..Len(requests') : k+1 \in 1..Len(requests) /\ requests'[k] = requests[k+1]
    BY <1>1, TailFacts
<1>3. /\ r.op \in Ops /\ r.id \in 0..MaxId /\ r.user \in Names /\ r.req \in Nat /\ r.v \in Nat
      /\ RequestFits(r)
    BY <1>1, <1>2 DEF Requests, Shape
<1>4. PICK c \in Connected :
          Spent(c) /\ job' = [j EXCEPT !.at = IF c.ok THEN Steps(r.op)[1] ELSE "done"]
    BY DEF Handle
<1>5. c.ok \in BOOLEAN /\ link' \in {"up", "lost", "down"} /\ troubles' \in Nat
    BY <1>1, <1>4, ConnectedFacts DEF Spent, Outcomes, StoreTypes
<1>6. PICK at \in Places :
          /\ job' = [j EXCEPT !.at = at]
          /\ \/ at = "done"
             \/ at = "dup" /\ r.op = "create"
             \/ at = "table" /\ r.op = "create" /\ backend = "mysql"
             \/ at = "table" /\ r.op \in {"load", "save", "list"} /\ Sql
             \/ at = r.op /\ r.op \in {"load", "save", "list", "types", "alloc"}
    <2>1. CASE c.ok
        BY <1>1, <1>3, <1>4, <2>1, StepsFacts DEF Ops, Places, TypeOK, Sql
    <2>2. CASE ~c.ok
        BY <1>4, <2>2 DEF Places
    <2> QED
        BY <2>1, <2>2
<1>7. /\ job' \in Jobs /\ job'.at = at /\ job'.out = {}
      /\ job'.op = r.op /\ job'.id = r.id /\ job'.v = r.v /\ job'.user = r.user
      /\ job'.req = r.req
    BY <1>3, <1>6 DEF NoJob, Jobs
<1> HIDE DEF r, j
<1>8. txn = <<>> /\ txn' = <<>>
    BY <1>1 DEF TransactionFits
<1>9. StoresInv'
    <2>1. TypeOK'
        BY <1>1, <1>2, <1>5, <1>7, <1>8 DEF TypeOK, StoreTypes, History, baseVars
    <2>2. JobFits'
        <3>1. up' /\ job'.op # "none" /\ RequestFits(job')
            BY <1>1, <1>3, <1>7 DEF RequestFits, Ops, Handle
        <3> QED
            BY <1>1, <1>3, <1>6, <1>7, <3>1 DEF JobFits, RequestFits, OutcomeFits, Sql
    <2>3. Shape'
        BY <1>1, <1>2, <1>8, <2>1, <2>2 DEF Shape, RequestFits, OutcomeFits, TransactionFits
    <2>4. IdsFit'
        BY <1>1, <1>6, <1>7, IdsKept DEF History
    <2>5. AccountsFit'
        BY <1>1, <1>6, <1>7, <1>8, AccountsKept DEF History, HasId
    <2> QED
        BY <2>3, <2>4, <2>5 DEF StoresInv
<1>10. UNCHANGED <<baseUp, entities, call, latest, acked>>
    BY <1>1 DEF baseVars
<1>11. CallFits'
    BY <1>10 DEF BaseInv, CallFits, InRegister
<1>12. CallIsLast'
    <2> SUFFICES ASSUME call # NoCall
                 PROVE  CallIsLast'
        BY <1>10 DEF CallIsLast
    <2>1. ASSUME NEW k \in 1..Len(requests), NothingAfter(k)
          PROVE  \A l \in k .. Len(requests') : requests'[l].op = "create"
        BY <1>2, <2>1 DEF NothingAfter
    <2>2. ASSUME NEW k \in 1..Len(requests'), requests'[k].req = call.req
          PROVE  IsCalls(requests'[k]) /\ \A l \in k+1 .. Len(requests') : requests'[l].op = "create"
        <3>1. /\ requests'[k] = requests[k+1] /\ k+1 \in 1..Len(requests)
              /\ IsCalls(requests[k+1]) /\ NothingAfter(k+1)
            BY <1>2, <2>2 DEF BaseInv, CallIsLast
        <3> QED
            BY <1>2, <3>1 DEF NothingAfter
    <2>3. ASSUME job'.req = call.req
          PROVE  IsCalls(job') /\ \A l \in 1 .. Len(requests') : requests'[l].op = "create"
        <3>1. IsCalls(requests[1]) /\ NothingAfter(1)
            BY <1>2, <1>7, <2>3 DEF BaseInv, CallIsLast
        <3> QED
            BY <1>2, <1>7, <1>10, <3>1 DEF IsCalls, NothingAfter
    <2>4. ASSUME NEW m \in 1..Len(answers), answers[m].req = call.req
          PROVE  /\ \A l \in 1 .. Len(requests') : requests'[l].op = "create"
                 /\ job'.op = "create"
                 /\ answers[m].out # {} =>
                       /\ call.op = "save" => db.avatars[call.id] \in {entities[call.id].v, Torn}
                       /\ call.op = "load" => answers[m].out = {db.avatars[call.id]}
        <3>1. NothingAfter(0)
            BY <2>4 DEF BaseInv, CallIsLast
        <3>2. requests[1].op = "create"
            BY <1>2, <3>1 DEF NothingAfter
        <3>3. \A l \in 1 .. Len(requests') : requests'[l].op = "create"
            BY <1>2, <3>1 DEF NothingAfter
        <3> QED
            BY <1>2, <1>7, <2>4, <3>2, <3>3 DEF BaseInv, CallIsLast
    <2>5. \A k \in 1..Len(requests') : requests'[k].req = call.req =>
              IsCalls(requests[k])' /\ NothingAfter(k)'
        BY <1>10, <2>2 DEF IsCalls, NothingAfter
    <2>6. job'.req = call.req => IsCalls(job)' /\ NothingAfter(0)'
        BY <1>10, <2>3 DEF IsCalls, NothingAfter
    <2>7. \A m \in 1..Len(answers) : answers[m].req = call.req => NothingAfter(0)'
        BY <2>4 DEF NothingAfter
    <2> QED
        BY <1>1, <1>10, <2>4, <2>5, <2>6, <2>7 DEF CallIsLast
<1>13. OutcomeIsSo'
    BY <1>7 DEF OutcomeIsSo
<1>14. VersionsFit'
    <2> SUFFICES ASSUME NEW i \in Ids
                 PROVE  VersionFits(i)'
        BY DEF VersionsFit
    <2>1. VersionFits(i) /\ ~Saves(job, i) /\ UNCHANGED <<db, mishap>>
        BY <1>1 DEF BaseInv, VersionsFit, Saves, History
    <2>2. StoredUpTo(i, acked[i])'
        BY <1>10, <2>1 DEF VersionFits, StoredUpTo
    <2>3. Saves(job', i) => Saves(requests[1], i) /\ job'.v = requests[1].v
        BY <1>2, <1>7 DEF Saves
    <2>4. ASSUME NEW k \in 1..Len(requests'), Saves(requests'[k], i)
          PROVE  /\ acked[i] <= requests'[k].v /\ db.avatars[i] <= requests'[k].v
                 /\ requests'[k].v <= latest[i]
                 /\ Saves(job', i) => job'.v <= requests'[k].v
                 /\ \A l \in 1..k : Saves(requests'[l], i) => requests'[l].v <= requests'[k].v
                 /\ entities[i].v # 0 => requests'[k].v <= entities[i].v
        <3>1. requests'[k] = requests[k+1] /\ k+1 \in 1..Len(requests) /\ 1 \in 1..k+1
            BY <1>2
        <3>2. \A l \in 1..k : requests'[l] = requests[l+1] /\ l+1 \in 1..k+1
            BY <1>2
        <3> QED
            BY <2>1, <2>3, <2>4, <3>1, <3>2 DEF VersionFits, InOrder
    <2>5. InOrder(i, entities[i].v, latest[i], acked[i], requests)'
        BY <1>2, <1>10, <2>1, <2>3, <2>4 DEF VersionFits, InOrder, Saving
    <2> QED
        BY <2>2, <2>5 DEF VersionFits
<1> QED
    BY <1>9, <1>11, <1>12, <1>13, <1>14 DEF BaseInv

\* The same entities, versions, queue of saves and job.
LEMMA VersionsKept ==
    ASSUME VersionsFit, UNCHANGED <<entities, latest, acked, requests>>,
           db'.avatars = db.avatars, mishap \subseteq mishap',
           \A i \in Ids : Saves(job', i) /\ job'.at # "done" => job' = job,
           \A i \in Ids : Saves(job, i) /\ job.at = "write" => job' = job \/ "torn" \in mishap'
    PROVE  VersionsFit'
<1> SUFFICES ASSUME NEW i \in Ids
             PROVE  VersionFits(i)'
    BY DEF VersionsFit
<1>1. VersionFits(i)
    BY DEF VersionsFit
<1>2. StoredUpTo(i, acked[i])'
    BY <1>1 DEF VersionFits, StoredUpTo
<1>3. InOrder(i, entities[i].v, latest[i], acked[i], requests)'
    BY <1>1 DEF VersionFits, InOrder, Saving, Saves
<1> QED
    BY <1>2, <1>3 DEF VersionFits

LEMMA RespondStep ==
    ASSUME StoresInv, BaseInv, Respond
    PROVE  StoresInv' /\ BaseInv'
<1>1. /\ Shape /\ TypeOK /\ StoreTypes /\ JobFits /\ TransactionFits /\ IdsFit /\ AccountsFit
      /\ job # NoJob /\ job.at = "done" /\ job' = NoJob /\ txn = <<>>
      /\ UNCHANGED <<backend, autoCreate, up, db, txn, known, link, troubles, History,
                     requests, baseVars>>
      /\ answers \in Seq(Answers)
    BY InvParts DEF Respond, TypeOK
<1>2. NoJob \in Jobs /\ NoJob.op = "none" /\ NoJob.at = "done" /\ NoJob.out = {} /\ NoJob.req = 0
    BY NoJobFacts
<1> DEFINE a == [op |-> job.op, req |-> job.req, out |-> job.out]
<1>3. a \in Answers /\ OutcomeFits(a.op, a.out)
    BY <1>1 DEF StoreTypes, Jobs, Answers, JobFits
<1>4. \/ answers' = answers
      \/ answers' = Append(answers, a)
    BY DEF Respond
<1>5. /\ answers' \in Seq(Answers)
      /\ \A m \in 1..Len(answers') :
            answers'[m] = a \/ (m \in 1..Len(answers) /\ answers'[m] = answers[m])
    <2> HIDE DEF a
    <2> QED
        BY <1>1, <1>3, <1>4, AppendFacts
<1>6. UNCHANGED <<baseUp, entities, call, latest, acked, requests, db, mishap>>
    BY <1>1 DEF baseVars, History
<1>7. StoresInv'
    <2>1. TypeOK'
        BY <1>1, <1>2, <1>5 DEF TypeOK, StoreTypes, History, baseVars
    <2>2. JobFits' /\ TransactionFits'
        BY <1>1, <1>2 DEF JobFits, OutcomeFits, TransactionFits
    <2>3. Shape'
        BY <1>1, <1>3, <1>5, <2>1, <2>2 DEF Shape, RequestFits, OutcomeFits
    <2>4. IdsFit'
        BY <1>1, <1>2, IdsKept DEF History
    <2>5. AccountsFit'
        BY <1>1, <1>2, AccountsKept DEF History, HasId
    <2> QED
        BY <2>3, <2>4, <2>5 DEF StoresInv
<1>8. CallFits'
    BY <1>6 DEF BaseInv, CallFits, InRegister
<1>9. CallIsLast'
    <2> SUFFICES ASSUME call # NoCall
                 PROVE  CallIsLast'
        BY <1>6 DEF CallIsLast
    <2>1. call.req # 0
        BY DEF BaseInv, CallFits
    <2>2. \A k \in 1..Len(requests) : requests[k].req = call.req =>
              IsCalls(requests[k])' /\ NothingAfter(k)'
        BY <1>6 DEF BaseInv, CallIsLast, IsCalls, NothingAfter
    <2>3. job'.req # call.req
        BY <1>1, <1>2, <2>1
    <2>4. ASSUME NEW m \in 1..Len(answers'), answers'[m].req = call.req
          PROVE  /\ NothingAfter(0)
                 /\ answers'[m].out # {} =>
                       /\ call.op = "save" => db.avatars[call.id] \in {entities[call.id].v, Torn}
                       /\ call.op = "load" => answers'[m].out = {db.avatars[call.id]}
        <3>1. CASE answers'[m] = a
            <4>1. job.req = call.req /\ answers'[m].out = job.out
                BY <2>4, <3>1
            <4>2. IsCalls(job) /\ NothingAfter(0)
                BY <4>1 DEF BaseInv, CallIsLast
            <4> QED
                BY <1>1, <4>1, <4>2 DEF BaseInv, OutcomeIsSo, IsCalls
        <3>2. CASE m \in 1..Len(answers) /\ answers'[m] = answers[m]
            BY <2>4, <3>2 DEF BaseInv, CallIsLast
        <3> QED
            BY <1>5, <3>1, <3>2
    <2>5. NothingAfter(0) => NothingAfter(0)'
        BY <1>6 DEF NothingAfter
    <2> QED
        BY <1>1, <1>2, <1>6, <2>2, <2>3, <2>4, <2>5 DEF CallIsLast
<1>10. OutcomeIsSo'
    BY <1>1, <1>2 DEF OutcomeIsSo
<1>11. VersionsFit'
    BY <1>1, <1>2, <1>6, VersionsKept DEF BaseInv, Saves
<1> QED
    BY <1>7, <1>8, <1>9, <1>10, <1>11 DEF BaseInv

LEMMA LoseSessionStep ==
    ASSUME StoresInv, BaseInv, LoseSession, UNCHANGED baseVars
    PROVE  StoresInv' /\ BaseInv'
<1>1. /\ Shape /\ TypeOK /\ StoreTypes /\ JobFits /\ TransactionFits /\ IdsFit /\ AccountsFit
      /\ link = "up" /\ link' = "lost" /\ txn' = <<>> /\ troubles' \in Nat /\ Sql
      /\ halved' = IF txn = <<>> \/ backend # "mysql" \/ job.at = "rollback"
                   THEN halved ELSE halved \cup {job.id}
      /\ UNCHANGED <<backend, autoCreate, up, requests, answers, db, known, job, given, mishap>>
    BY InvParts DEF LoseSession, StoreTypes
<1>6. halved \subseteq halved' /\ halved' \in SUBSET Ids
    <2>1. CASE txn = <<>> \/ backend # "mysql" \/ job.at = "rollback"
        BY <1>1, <2>1 DEF StoreTypes
    <2>2. CASE txn # <<>> /\ backend = "mysql" /\ job.at # "rollback"
        <3>1. job.at \in {"row", "index", "commit"}
            BY <1>1, <2>2 DEF TransactionFits
        <3>2. job.id \in Ids
            BY <1>1, <3>1 DEF JobFits
        <3> QED
            BY <1>1, <2>2, <3>2 DEF StoreTypes
    <2> QED
        BY <2>1, <2>2
<1>7. Whole(db, halved')
    BY <1>1, <1>6, WholeGrows DEF AccountsFit
<1>2. UNCHANGED <<baseUp, entities, call, latest, acked>>
    BY DEF baseVars
<1>3. StoresInv'
    <2>1. TypeOK'
        BY <1>1, <1>6 DEF TypeOK, StoreTypes, baseVars
    <2>2. JobFits' /\ TransactionFits'
        BY <1>1 DEF JobFits, OutcomeFits, RequestFits, Sql, TransactionFits
    <2>3. Shape'
        BY <1>1, <2>1, <2>2 DEF Shape, RequestFits, OutcomeFits
    <2>4. IdsFit'
        BY <1>1 DEF IdsFit, Counter
    <2>5. AccountsFit'
        BY <1>1, <1>6, <1>7 DEF AccountsFit, Sql, HasId, InTransaction, TypeOK
    <2> QED
        BY <2>3, <2>4, <2>5 DEF StoresInv
<1>4. CallFits' /\ CallIsLast' /\ OutcomeIsSo'
    BY <1>1, <1>2 DEF BaseInv, CallFits, InRegister, CallIsLast, IsCalls, NothingAfter, OutcomeIsSo
<1>5. VersionsFit'
    BY <1>1, <1>2, VersionsKept DEF BaseInv
<1> QED
    BY <1>3, <1>4, <1>5 DEF BaseInv

LEMMA CrashStep ==
    ASSUME StoresInv, BaseInv, Crash
    PROVE  StoresInv' /\ BaseInv'
<1>1. /\ Shape /\ TypeOK /\ StoreTypes /\ JobFits /\ TransactionFits /\ IdsFit /\ AccountsFit
      /\ up' = FALSE /\ link' = "down" /\ txn' = <<>> /\ known' = {} /\ troubles' \in Nat
      /\ job' = NoJob /\ requests' = <<>> /\ path' = "dead" /\ served' = FALSE
      /\ mishap' = IF job.at \in {"write", "count"} THEN mishap \cup {"torn"} ELSE mishap
      /\ UNCHANGED <<backend, autoCreate, answers, db, given, halved>>
      /\ UNCHANGED <<baseUp, entities, call, latest, acked>>
    BY InvParts DEF Crash, CrashDBApp, StoreTypes
<1>2. NoJob \in Jobs /\ NoJob.op = "none" /\ NoJob.at = "done" /\ NoJob.out = {} /\ NoJob.req = 0
    BY NoJobFacts
<1>3. requests' \in Seq(Requests) /\ Len(requests') = 0
    BY <1>1
<1>4. StoresInv'
    <2>1. TypeOK'
        BY <1>1, <1>2, <1>3 DEF TypeOK, StoreTypes
    <2>2. JobFits' /\ TransactionFits'
        BY <1>1, <1>2 DEF JobFits, OutcomeFits, TransactionFits
    <2>3. Shape'
        BY <1>1, <1>3, <2>1, <2>2 DEF Shape, RequestFits, OutcomeFits
    <2>4. IdsFit'
        BY <1>1, <1>2 DEF IdsFit, Counter
    <2>5. AccountsFit'
        BY <1>1, <1>2, AccountsKept DEF HasId
    <2> QED
        BY <2>3, <2>4, <2>5 DEF StoresInv
<1>5. CallFits'
    BY <1>1 DEF BaseInv, CallFits, InRegister
<1>6. CallIsLast'
    BY <1>1, <1>2, <1>3 DEF BaseInv, CallFits, CallIsLast, IsCalls, NothingAfter
<1>7. OutcomeIsSo'
    BY <1>1, <1>2 DEF OutcomeIsSo
<1>8. VersionsFit'
    <2> SUFFICES ASSUME NEW i \in Ids
                 PROVE  VersionFits(i)'
        BY DEF VersionsFit
    <2>1. VersionFits(i)
        BY DEF BaseInv, VersionsFit
    <2> QED
        BY <1>1, <1>2, <1>3, <2>1 DEF VersionFits, InOrder, StoredUpTo, Saving, Saves
<1> QED
    BY <1>4, <1>5, <1>6, <1>7, <1>8 DEF BaseInv

LEMMA InitDBAppStep ==
    ASSUME StoresInv, BaseInv, InitDBApp, UNCHANGED baseVars
    PROVE  StoresInv' /\ BaseInv'
<1>1. /\ Shape /\ TypeOK /\ StoreTypes /\ JobFits /\ TransactionFits /\ IdsFit /\ AccountsFit
      /\ up' = TRUE /\ link' = "up" /\ db \in Databases
      /\ UNCHANGED <<backend, autoCreate, txn, job, requests, answers, troubles,
                     given, mishap, halved>>
      /\ UNCHANGED <<baseUp, entities, call, latest, acked>>
    BY InvParts DEF InitDBApp, baseVars, History
<1>2. SchemaTables \in SUBSET {"Account", "Avatar"}
    BY DEF SchemaTables
<1>3. /\ db' \in Databases /\ db'.next = db.next /\ db'.avatars = db.avatars
      /\ db'.accounts = db.accounts /\ db'.index = db.index
    BY <1>1, <1>2 DEF InitDBApp, Databases
<1>4. StoresInv'
    <2>1. TypeOK'
        BY <1>1, <1>2, <1>3 DEF TypeOK, StoreTypes, InitDBApp, baseVars
    <2>2. JobFits' /\ TransactionFits'
        BY <1>1, <1>3 DEF JobFits, OutcomeFits, RequestFits, Sql, TransactionFits
    <2>3. Shape'
        BY <1>1, <2>1, <2>2 DEF Shape, RequestFits, OutcomeFits
    <2>4. IdsFit'
        BY <1>1, <1>3 DEF IdsFit, Counter
    <2>5. AccountsFit'
        <3>1. up = FALSE
            BY <1>1 DEF InitDBApp, TypeOK
        <3>2. ~HasId
            BY <1>1, <3>1, NoJobFacts DEF JobFits, HasId
        <3> QED
            BY <1>1, <1>3, <3>2 DEF AccountsFit, Whole, Sql, HasId, InTransaction
    <2> QED
        BY <2>3, <2>4, <2>5 DEF StoresInv
<1>5. CallFits' /\ CallIsLast' /\ OutcomeIsSo'
    BY <1>1, <1>3 DEF BaseInv, CallFits, InRegister, CallIsLast, IsCalls, NothingAfter, OutcomeIsSo
<1>6. VersionsFit'
    BY <1>1, <1>3, VersionsKept DEF BaseInv
<1> QED
    BY <1>4, <1>5, <1>6 DEF BaseInv

-----------------------------------------------------------------------------
(* The base's steps                                                          *)

\* The base's variables keep their types, and no answer is new.
BaseTypes ==
    /\ baseUp \in BOOLEAN /\ served \in BOOLEAN /\ path \in {"good", "dead"}
    /\ entities \in [Ids -> [v : Nat, dirty : BOOLEAN]]
    /\ latest \in [Ids -> Nat] /\ acked \in [Ids -> Nat]
    /\ troubles \in Nat

NoNewAnswer ==
    /\ answers' \in Seq(Answers)
    /\ \A m \in 1..Len(answers') : \E n \in 1..Len(answers) : answers'[m] = answers[n]

\* The new entities, last versions and acknowledged versions are in order with
\* the saves on their way.
NewInOrder ==
    \A i \in Ids :
        /\ InOrder(i, entities'[i].v, latest'[i], acked'[i], requests)
        /\ StoredUpTo(i, acked'[i])

\* A request is sent, or the connection has closed.
NewRequest(op, id, rest) ==
    /\ call' \in Calls /\ call' # NoCall /\ call'.op = op /\ call'.id = id
    /\ call'.rest = rest /\ call'.req = FreshId
    /\ requests' \in Seq(Requests)
    /\ \A k \in 1..Len(requests') : RequestFits(requests'[k])
    /\ Len(requests) \in Nat
    /\ \/ requests' = requests
       \/ /\ Len(requests') = Len(requests) + 1
          /\ \A k \in 1..Len(requests) : requests'[k] = requests[k]
          /\ \E r \in Requests :
                /\ requests'[Len(requests) + 1] = r
                /\ r.op = op /\ r.id = id /\ r.req = FreshId
                /\ op = "save" => r.v = entities[id].v

\* request makes a new request.
LEMMA RequestFacts ==
    ASSUME Shape, NEW op \in Ops \ {"create"}, NEW id \in 0..MaxId, NEW rest \in SUBSET Ids,
           NEW last \in BOOLEAN, op \in {"save", "load"} => id \in Ids,
           Request(op, id, rest, last)
    PROVE  NewRequest(op, id, rest)
<1> DEFINE v == IF op = "save" THEN entities[id].v ELSE 0
           r == [op |-> op, id |-> id, user |-> Nobody, req |-> FreshId, v |-> v]
<1>1. TypeOK /\ requests \in Seq(Requests) /\ \A k \in 1..Len(requests) : RequestFits(requests[k])
    BY DEF Shape, TypeOK
<1>2. FreshId \in Nat /\ FreshId # 0
    BY <1>1, FreshIdFacts
<1>3. call' = [op |-> op, id |-> id, req |-> FreshId, rest |-> rest, last |-> last]
    BY DEF Request
<1>4. call' \in Calls /\ call' # NoCall /\ call'.op = op /\ call'.id = id
      /\ call'.rest = rest /\ call'.req = FreshId
    BY <1>2, <1>3 DEF Calls, NoCall, Ops
<1>5. v \in Nat
    BY <1>1 DEF TypeOK
<1>6. /\ r \in Requests /\ RequestFits(r) /\ r.op = op /\ r.id = id /\ r.req = FreshId
      /\ op = "save" => r.v = entities[id].v
    <2>1. r.v = v /\ (op = "save" => v = entities[id].v)
        OBVIOUS
    <2> HIDE DEF v
    <2> QED
        BY <1>2, <1>5, <2>1 DEF Requests, RequestFits, Names
<1>7. requests' = IF path = "good" THEN Append(requests, r) ELSE requests
    BY DEF Request
<1> HIDE DEF r, v
<1>8. CASE requests' = requests
    BY <1>1, <1>4, <1>8 DEF NewRequest
<1>9. CASE requests' = Append(requests, r)
    <2>1. /\ requests' \in Seq(Requests) /\ Len(requests) \in Nat
          /\ Len(requests') = Len(requests) + 1
          /\ \A k \in 1..Len(requests) : requests'[k] = requests[k]
          /\ requests'[Len(requests) + 1] = r
        BY <1>1, <1>6, <1>9, AppendFacts
    <2>2. \A k \in 1..Len(requests') : RequestFits(requests'[k])
        BY <1>1, <1>6, <2>1
    <2> QED
        BY <1>4, <1>6, <2>1, <2>2 DEF NewRequest
<1> QED
    BY <1>7, <1>8, <1>9

\* A step of the base's that sends a request.
LEMMA WithNewRequest ==
    ASSUME StoresInv, BaseInv, UNCHANGED DBAppSide, BaseTypes', NoNewAnswer, NewInOrder, baseUp',
           NEW op \in Ops \ {"create"}, NEW id \in 0..MaxId, NEW rest \in SUBSET Ids,
           NewRequest(op, id, rest),
           op \in {"save", "load"} => id \in Ids /\ id \notin rest,
           op = "save" => /\ \A i \in rest \cup {id} : entities'[i].v # 0
                          /\ entities'[id].v = entities[id].v
    PROVE  StoresInv' /\ BaseInv'
<1>1. Shape /\ TypeOK
    BY DEF StoresInv, Shape
<1>2. /\ call' \in Calls /\ call' # NoCall /\ call'.op = op /\ call'.id = id
      /\ call'.rest = rest /\ call'.req = FreshId
      /\ requests' \in Seq(Requests)
      /\ \A k \in 1..Len(requests') : RequestFits(requests'[k])
      /\ Len(requests) \in Nat
      /\ \/ requests' = requests
         \/ /\ Len(requests') = Len(requests) + 1
            /\ \A k \in 1..Len(requests) : requests'[k] = requests[k]
            /\ \E r \in Requests :
                  /\ requests'[Len(requests) + 1] = r
                  /\ r.op = op /\ r.id = id /\ r.req = FreshId
                  /\ op = "save" => r.v = entities[id].v
    BY DEF NewRequest
<1>3. /\ FreshId # 0 /\ FreshId # job.req
      /\ \A k \in 1..Len(requests) : requests[k].req # FreshId
      /\ \A k \in 1..Len(answers) : answers[k].req # FreshId
    BY <1>1, FreshIdFacts
<1>4. StoresInv'
    <2>1. \A k \in 1..Len(answers') : OutcomeFits(answers'[k].op, answers'[k].out)
        BY <1>1 DEF NoNewAnswer, Shape
    <2> QED
        BY <1>2, <2>1, StoresKept DEF BaseTypes, NoNewAnswer, DBAppSide, History
<1>5. CallFits'
    BY <1>2, <1>3 DEF CallFits, InRegister, NoCall, Ops
<1>6. CallIsLast'
    <2>1. ASSUME NEW k \in 1..Len(requests'), requests'[k].req = call'.req
          PROVE  IsCalls(requests[k])' /\ NothingAfter(k)'
        <3>1. /\ k = Len(requests) + 1 /\ k = Len(requests')
              /\ requests'[k].op = op /\ requests'[k].id = id
              /\ op = "save" => requests'[k].v = entities[id].v
            BY <1>2, <1>3, <2>1
        <3> QED
            BY <1>2, <3>1 DEF IsCalls, NothingAfter
    <2>2. job'.req # call'.req
        BY <1>2, <1>3 DEF DBAppSide, History
    <2>3. \A m \in 1..Len(answers') : answers'[m].req # call'.req
        BY <1>2, <1>3 DEF NoNewAnswer
    <2> QED
        BY <2>1, <2>2, <2>3 DEF CallIsLast
<1>7. OutcomeIsSo'
    BY DEF BaseInv, OutcomeIsSo, DBAppSide, History
<1>8. VersionsFit'
    <2> SUFFICES ASSUME NEW i \in Ids
                 PROVE  VersionFits(i)'
        BY DEF VersionsFit
    <2>1. /\ InOrder(i, entities'[i].v, latest'[i], acked'[i], requests)
          /\ StoredUpTo(i, acked'[i])
          /\ UNCHANGED <<db, job, mishap>>
        BY DEF NewInOrder, DBAppSide, History
    <2>2. StoredUpTo(i, acked[i])'
        BY <2>1 DEF StoredUpTo
    <2>3. CASE requests' = requests
        BY <2>1, <2>2, <2>3 DEF VersionFits, InOrder, Saving
    <2>4. CASE requests' # requests
        <3>1. PICK r \in Requests :
                  /\ requests'[Len(requests) + 1] = r
                  /\ r.op = op /\ r.id = id
                  /\ op = "save" => r.v = entities[id].v
            BY <1>2, <2>4
        <3>2. /\ Len(requests') = Len(requests) + 1
              /\ \A k \in 1..Len(requests) : requests'[k] = requests[k]
            BY <1>2, <2>4
        <3>3. Saves(r, i) => r.v = entities'[i].v /\ entities'[i].v # 0
            BY <3>1 DEF Saves
        <3>4. entities'[i].v \in Nat
            BY DEF BaseTypes
        <3>5. ASSUME NEW k \in 1..Len(requests'), Saves(requests'[k], i)
              PROVE  /\ acked'[i] <= requests'[k].v /\ db.avatars[i] <= requests'[k].v
                     /\ requests'[k].v <= latest'[i]
                     /\ Saving(i) => job.v <= requests'[k].v
                     /\ \A l \in 1..k : Saves(requests'[l], i) =>
                           requests'[l].v <= requests'[k].v
                     /\ entities'[i].v # 0 => requests'[k].v <= entities'[i].v
            <4>1. CASE k \in 1..Len(requests)
                BY <1>2, <2>1, <3>2, <3>5, <4>1 DEF InOrder
            <4>2. CASE k = Len(requests) + 1
                <5>1. requests'[k] = r /\ r.v = entities'[i].v /\ entities'[i].v # 0
                    BY <3>1, <3>3, <3>5, <4>2
                <5>2. \A l \in 1..k : l = k \/ (l \in 1..Len(requests) /\ requests'[l] = requests[l])
                    BY <1>2, <3>2, <4>2
                <5> QED
                    BY <2>1, <3>4, <5>1, <5>2 DEF InOrder
            <4> QED
                BY <1>2, <3>2, <4>1, <4>2
        <3>6. InOrder(i, entities[i].v, latest[i], acked[i], requests)'
            BY <2>1, <3>5 DEF InOrder, Saving
        <3> QED
            BY <2>2, <3>6 DEF VersionFits
    <2> QED
        BY <2>3, <2>4
<1> QED
    BY <1>4, <1>5, <1>6, <1>7, <1>8 DEF BaseInv

LEMMA WithRequest ==
    ASSUME StoresInv, BaseInv, UNCHANGED DBAppSide, BaseTypes', NoNewAnswer, NewInOrder, baseUp',
           NEW op \in Ops \ {"create"}, NEW id \in 0..MaxId, NEW rest \in SUBSET Ids,
           NEW last \in BOOLEAN, Request(op, id, rest, last),
           op \in {"save", "load"} => id \in Ids /\ id \notin rest,
           op = "save" => /\ \A i \in rest \cup {id} : entities'[i].v # 0
                          /\ entities'[id].v = entities[id].v
    PROVE  StoresInv' /\ BaseInv'
BY RequestFacts, WithNewRequest DEF StoresInv

\* A step of the base's after which it waits for nothing.
LEMMA WithoutRequest ==
    ASSUME StoresInv, BaseInv, UNCHANGED <<DBAppSide, requests>>, BaseTypes', NoNewAnswer,
           NewInOrder, call' = NoCall,
           ~baseUp' => \A i \in Ids : entities'[i].v = 0
    PROVE  StoresInv' /\ BaseInv'
<1>1. Shape /\ TypeOK
    BY DEF StoresInv, Shape
<1>2. StoresInv'
    <2>1. \A k \in 1..Len(answers') : OutcomeFits(answers'[k].op, answers'[k].out)
        BY <1>1 DEF NoNewAnswer, Shape
    <2>2. NoCall \in Calls
        BY StoresAssumption DEF NoCall, Calls
    <2>3. requests' \in Seq(Requests) /\ \A k \in 1..Len(requests') : RequestFits(requests'[k])
        BY <1>1 DEF Shape, TypeOK
    <2> QED
        BY <2>1, <2>2, <2>3, StoresKept DEF BaseTypes, NoNewAnswer, DBAppSide, History
<1>3. CallFits' /\ CallIsLast'
    BY DEF CallFits, CallIsLast, InRegister, NoCall
<1>4. OutcomeIsSo'
    BY DEF BaseInv, OutcomeIsSo, DBAppSide, History
<1>5. VersionsFit'
    <2>1. UNCHANGED <<db, job, mishap, requests>>
        BY DEF DBAppSide, History
    <2> QED
        BY <2>1 DEF NewInOrder, VersionsFit, VersionFits, InOrder, StoredUpTo, Saving
<1> QED
    BY <1>2, <1>3, <1>4, <1>5 DEF BaseInv

\* What the base has stays in order.
LEMMA SameOrder ==
    ASSUME BaseInv, UNCHANGED <<entities, latest, acked>>
    PROVE  NewInOrder
BY DEF BaseInv, VersionsFit, VersionFits, NewInOrder

\* The types of what the base's step leaves alone.
LEMMA BaseParts ==
    ASSUME StoresInv
    PROVE  /\ BaseTypes /\ call \in Calls /\ call.id \in 0..MaxId /\ call.rest \in SUBSET Ids
           /\ call.op \in (Ops \ {"create"}) \cup {"none"}
           /\ requests \in Seq(Requests) /\ answers \in Seq(Answers)
           /\ \A k \in 1..Len(answers) : OutcomeFits(answers[k].op, answers[k].out)
           /\ db.avatars \in [Ids -> Nat \cup {Torn}]
           /\ \A i \in Ids : entities[i].v \in Nat
<1>1. Shape /\ TypeOK /\ StoreTypes /\ call \in Calls /\ db \in Databases
    BY DEF StoresInv, Shape, TypeOK, StoreTypes
<1>2. call.id \in 0..MaxId /\ call.rest \in SUBSET Ids
      /\ call.op \in (Ops \ {"create"}) \cup {"none"}
    BY <1>1 DEF Calls
<1>3. db.avatars \in [Ids -> Nat \cup {Torn}]
    BY <1>1 DEF Databases
<1>4. \A i \in Ids : entities[i].v \in Nat
    BY <1>1 DEF TypeOK
<1> QED
    BY <1>1, <1>2, <1>3, <1>4 DEF BaseTypes, TypeOK, StoreTypes, Shape

\* The queue of answers, without its head or as it was.
LEMMA FewerAnswers ==
    ASSUME StoresInv, answers' = answers \/ (answers # <<>> /\ answers' = Tail(answers))
    PROVE  NoNewAnswer
<1>1. answers \in Seq(Answers)
    BY BaseParts
<1> QED
    BY <1>1, TailFacts DEF NoNewAnswer

\* What comes of an answer, or of its failure to come.
LEMMA FinishStep ==
    ASSUME StoresInv, BaseInv, baseUp, call # NoCall,
           UNCHANGED <<DBAppSide, baseUp, path, served>>, troubles' \in Nat, NoNewAnswer,
           NEW ok \in BOOLEAN, NEW out \in SUBSET Nat, OutcomeFits(call.op, out), ok <=> out # {},
           ok /\ call.op \in {"save", "load"} =>
              /\ NothingAfter(0) /\ job.op \in {"none", "create"}
              /\ call.op = "save" => db.avatars[call.id] \in {entities[call.id].v, Torn}
              /\ call.op = "load" => out = {db.avatars[call.id]},
           Finish(ok, out)
    PROVE  StoresInv' /\ BaseInv'
<1>1. /\ BaseTypes /\ call \in Calls /\ call.id \in 0..MaxId /\ call.rest \in SUBSET Ids
      /\ call.op \in (Ops \ {"create"}) \cup {"none"}
      /\ db.avatars \in [Ids -> Nat \cup {Torn}]
      /\ CallFits /\ VersionsFit
      /\ \A i \in Ids : entities[i].v \in Nat
    BY BaseParts DEF BaseInv
<1>2. \A i \in Ids : VersionFits(i)
    BY <1>1 DEF VersionsFit
<1>3. 0 \in 0..MaxId /\ Ids \subseteq 0..MaxId
    BY StoresAssumption DEF Ids
<1>4. CASE call.op = "alloc"
    <2>1. call' = NoCall /\ UNCHANGED <<requests, acked>>
        BY <1>4 DEF Finish, Created, NoRequest
    <2>2. CASE ~ok
        <3>1. UNCHANGED <<entities, latest>>
            BY <1>4, <2>2 DEF Finish, Created
        <3> QED
            BY <1>1, <2>1, <3>1, SameOrder, WithoutRequest DEF BaseTypes
    <2>3. CASE ok
        <3>1. PICK i \in Ids : out = {i}
            BY <1>4, <2>3 DEF OutcomeFits
        <3>2. CASE InRegister(i)
            <4>1. UNCHANGED <<entities, latest>>
                BY <1>4, <2>3, <3>1, <3>2 DEF Finish, Created
            <4> QED
                BY <1>1, <2>1, <4>1, SameOrder, WithoutRequest DEF BaseTypes
        <3>3. CASE ~InRegister(i)
            <4>1. /\ entities' = [entities EXCEPT ![i] = [v |-> latest[i] + 1, dirty |-> FALSE]]
                  /\ latest' = [latest EXCEPT ![i] = @ + 1]
                BY <1>4, <2>3, <3>1, <3>3 DEF Finish, Created
            <4>2. BaseTypes'
                <5>1. latest[i] \in Nat
                    BY <1>1 DEF BaseTypes
                <5>2. [v |-> latest[i] + 1, dirty |-> FALSE] \in [v : Nat, dirty : BOOLEAN]
                    BY <5>1
                <5>3. entities' \in [Ids -> [v : Nat, dirty : BOOLEAN]]
                    BY <1>1, <4>1, <5>2 DEF BaseTypes
                <5>4. latest' \in [Ids -> Nat]
                    BY <1>1, <4>1, <5>1 DEF BaseTypes
                <5> QED
                    BY <1>1, <2>1, <5>3, <5>4 DEF BaseTypes
            <4>3. NewInOrder
                <5> SUFFICES ASSUME NEW o \in Ids
                             PROVE  /\ InOrder(o, entities'[o].v, latest'[o], acked'[o], requests)
                                    /\ StoredUpTo(o, acked'[o])
                    BY DEF NewInOrder
                <5>1. VersionFits(o)
                    BY <1>2
                <5>2. CASE o # i
                    <6>1. entities'[o] = entities[o] /\ latest'[o] = latest[o]
                        BY <1>1, <4>1, <5>2 DEF BaseTypes
                    <6> QED
                        BY <2>1, <5>1, <6>1 DEF VersionFits
                <5>3. CASE o = i
                    <6>1. /\ entities'[i].v = latest[i] + 1 /\ latest'[i] = latest[i] + 1
                          /\ latest[i] \in Nat /\ acked[i] \in Nat
                          /\ db.avatars[i] \in Nat \cup {Torn}
                        BY <1>1, <4>1 DEF BaseTypes
                    <6>2. /\ \A k \in 1..Len(requests) : requests[k].v \in Nat
                          /\ job.v \in Nat
                        <7>1. requests \in Seq(Requests) /\ job \in Jobs
                            BY BaseParts, InvParts
                        <7>2. \A k \in 1..Len(requests) : requests[k] \in Requests
                            BY <7>1
                        <7> QED
                            BY <7>1, <7>2 DEF Requests, Jobs
                    <6> QED
                        BY <2>1, <5>1, <5>3, <6>1, <6>2 DEF VersionFits, InOrder, Torn
                <5> QED
                    BY <5>2, <5>3
            <4> QED
                BY <1>1, <2>1, <4>2, <4>3, WithoutRequest
        <3> QED
            BY <3>2, <3>3
    <2> QED
        BY <2>2, <2>3
<1>5. CASE call.op \in {"types", "list"}
    <2>1. Listed(ok, out) /\ UNCHANGED <<entities, latest, acked>>
        BY <1>5 DEF Finish, Listed
    <2>2. NewInOrder /\ BaseTypes'
        BY <1>1, <2>1, SameOrder DEF BaseTypes
    <2>3. CASE NoRequest
        BY <1>1, <2>1, <2>2, <2>3, WithoutRequest DEF NoRequest
    <2>4. CASE Request("list", 0, {}, FALSE)
        BY <1>1, <1>3, <2>1, <2>2, <2>4, WithRequest DEF Ops
    <2>5. ASSUME NEW rest \in SUBSET Ids, NEW i \in Ids, i \notin rest,
                 Request("load", i, rest, FALSE)
          PROVE  StoresInv' /\ BaseInv'
        BY <1>1, <1>3, <2>1, <2>2, <2>5, WithRequest DEF Ops
    <2>6. CASE call.op = "types"
        BY <2>1, <2>3, <2>4, <2>6 DEF Listed
    <2>7. CASE call.op = "list"
        <3>1. out \subseteq Ids
            BY <2>7 DEF OutcomeFits
        <3> DEFINE ids == {i \in out : ~InRegister(i)}
        <3>2. NoRequest \/ \E i \in ids : Request("load", i, ids \ {i}, FALSE)
            BY <2>1, <2>7 DEF Listed
        <3>3. ids \in SUBSET Ids
            BY <3>1
        <3> HIDE DEF ids
        <3> QED
            BY <2>3, <2>5, <3>2, <3>3
    <2> QED
        BY <1>5, <2>6, <2>7
<1>6. CASE call.op = "save"
    <2> DEFINE c == call.id
    <2>1. /\ c \in Ids /\ c \notin call.rest
          /\ \A i \in call.rest \cup {c} : entities[i].v # 0
        BY <1>1, <1>6 DEF CallFits, InRegister
    <2>2. /\ Continue /\ latest' = latest
          /\ entities' = [entities EXCEPT ![c] =
                             IF call.last THEN NoEntity
                             ELSE IF ok THEN [@ EXCEPT !.dirty = FALSE] ELSE @]
          /\ acked' = IF ok THEN [acked EXCEPT ![c] = entities[c].v] ELSE acked
        BY <1>6 DEF Finish, Saved
    <2>3. /\ BaseTypes'
          /\ \A i \in Ids : i # c => entities'[i] = entities[i] /\ acked'[i] = acked[i]
          /\ entities'[c].v \in {0, entities[c].v}
          /\ acked'[c] = IF ok THEN entities[c].v ELSE acked[c]
        <3>1. entities[c] \in [v : Nat, dirty : BOOLEAN] /\ NoEntity \in [v : Nat, dirty : BOOLEAN]
              /\ NoEntity.v = 0
            BY <1>1, <2>1 DEF BaseTypes, NoEntity
        <3>2. /\ [entities[c] EXCEPT !.dirty = FALSE] \in [v : Nat, dirty : BOOLEAN]
              /\ [entities[c] EXCEPT !.dirty = FALSE].v = entities[c].v
            BY <3>1
        <3>3. PICK e \in [v : Nat, dirty : BOOLEAN] :
                  entities' = [entities EXCEPT ![c] = e] /\ e.v \in {0, entities[c].v}
            BY <2>2, <3>1, <3>2
        <3>4. acked' \in [Ids -> Nat] /\ acked'[c] = (IF ok THEN entities[c].v ELSE acked[c])
              /\ \A i \in Ids : i # c => acked'[i] = acked[i]
            BY <1>1, <2>1, <2>2, <3>1 DEF BaseTypes
        <3> HIDE DEF c
        <3>5. /\ entities' \in [Ids -> [v : Nat, dirty : BOOLEAN]]
              /\ \A i \in Ids : entities'[i] = IF i = c THEN e ELSE entities[i]
            BY <1>1, <3>3 DEF BaseTypes
        <3>6. BaseTypes'
            BY <1>1, <2>2, <3>4, <3>5 DEF BaseTypes
        <3> QED
            BY <2>1, <3>3, <3>4, <3>5, <3>6
    <2>4. NewInOrder
        <3> SUFFICES ASSUME NEW o \in Ids
                     PROVE  /\ InOrder(o, entities'[o].v, latest'[o], acked'[o], requests)
                            /\ StoredUpTo(o, acked'[o])
            BY DEF NewInOrder
        <3>1. VersionFits(o)
            BY <1>2
        <3>2. CASE o # c
            BY <2>2, <2>3, <3>1, <3>2 DEF VersionFits
        <3>3. CASE o = c
            <4>1. ok => /\ \A l \in 1..Len(requests) : requests[l].op = "create"
                        /\ job.op \in {"none", "create"}
                        /\ db.avatars[c] \in {entities[c].v, Torn}
                BY <1>6 DEF NothingAfter
            <4>2. entities[c].v \in Nat /\ entities[c].v # 0
                BY <1>1, <2>1
            <4> HIDE DEF c
            <4> QED
                BY <2>1, <2>2, <2>3, <3>1, <3>3, <4>1, <4>2
                   DEF VersionFits, InOrder, StoredUpTo, Saving, Saves
        <3> QED
            BY <3>2, <3>3
    <2>5. CASE NoRequest
        BY <1>1, <2>3, <2>4, <2>5, WithoutRequest DEF NoRequest
    <2>6. ASSUME NEW i \in call.rest, Request(call.op, i, call.rest \ {i}, FALSE)
          PROVE  StoresInv' /\ BaseInv'
        <3>1. /\ i \in Ids /\ i \in 0..MaxId /\ call.rest \ {i} \in SUBSET Ids
              /\ \A o \in (call.rest \ {i}) \cup {i} : entities'[o].v # 0
              /\ entities'[i].v = entities[i].v
            BY <1>1, <1>3, <2>1, <2>3
        <3>2. Request("save", i, call.rest \ {i}, FALSE)
            BY <1>6, <2>6
        <3> QED
            BY <2>3, <2>4, <3>1, <3>2, WithRequest DEF Ops
    <2> QED
        BY <2>2, <2>5, <2>6 DEF Continue
<1>7. CASE call.op = "load"
    <2> DEFINE c == call.id
    <2>1. c \in Ids /\ c \notin call.rest
        BY <1>1, <1>7 DEF CallFits
    <2>2. Continue /\ UNCHANGED <<latest, acked>>
        BY <1>7 DEF Finish, Loaded
    <2>3. BaseTypes' /\ NewInOrder
        <3>1. CASE ~ok
            <4>1. UNCHANGED entities
                BY <1>7, <3>1 DEF Finish, Loaded
            <4> QED
                BY <1>1, <2>2, <4>1, SameOrder DEF BaseTypes
        <3>2. CASE ok
            <4>1. /\ out = {db.avatars[c]}
                  /\ \A l \in 1..Len(requests) : requests[l].op = "create"
                  /\ job.op \in {"none", "create"}
                BY <1>7, <3>2 DEF NothingAfter
            <4>2. PICK v \in Nat : v # 0 /\ v = db.avatars[c] /\ out = {v}
                BY <1>7, <3>2, <4>1 DEF OutcomeFits
            <4>3. entities' = [entities EXCEPT ![c] = [v |-> v, dirty |-> FALSE]]
                <5>1. (CHOOSE w \in out : TRUE) = v
                    BY <4>2
                <5> QED
                    BY <1>7, <3>2, <5>1 DEF Finish, Loaded
            <4> HIDE DEF c
            <4>4. BaseTypes'
                BY <1>1, <2>1, <2>2, <4>3 DEF BaseTypes
            <4>5. NewInOrder
                <5> SUFFICES ASSUME NEW o \in Ids
                             PROVE  /\ InOrder(o, entities'[o].v, latest'[o], acked'[o], requests)
                                    /\ StoredUpTo(o, acked'[o])
                    BY DEF NewInOrder
                <5>1. VersionFits(o)
                    BY <1>2
                <5>2. entities'[o].v = IF o = c THEN v ELSE entities[o].v
                    BY <1>1, <4>3 DEF BaseTypes
                <5>3. CASE o # c
                    BY <2>2, <5>1, <5>2, <5>3 DEF VersionFits
                <5>4. CASE o = c
                    <6>1. ~Saving(c) /\ \A k \in 1..Len(requests) : ~Saves(requests[k], c)
                        BY <4>1 DEF Saving, Saves
                    <6>2. /\ acked[c] <= v /\ v <= latest[c]
                          /\ acked[c] <= latest[c] /\ v = db.avatars[c] /\ v # Torn
                        BY <4>2, <5>1, <5>4 DEF VersionFits, InOrder, StoredUpTo, Torn
                    <6>3. entities'[o].v = v /\ latest'[o] = latest[c] /\ acked'[o] = acked[c]
                        BY <2>2, <5>2, <5>4
                    <6> QED
                        BY <4>2, <5>1, <5>4, <6>1, <6>2, <6>3 DEF VersionFits, InOrder, StoredUpTo
                <5> QED
                    BY <5>3, <5>4
            <4> QED
                BY <4>4, <4>5
        <3> QED
            BY <3>1, <3>2
    <2>4. CASE NoRequest
        BY <1>1, <2>3, <2>4, WithoutRequest DEF NoRequest
    <2>5. ASSUME NEW i \in call.rest, Request(call.op, i, call.rest \ {i}, FALSE)
          PROVE  StoresInv' /\ BaseInv'
        <3>1. i \in Ids /\ i \in 0..MaxId /\ call.rest \ {i} \in SUBSET Ids
            BY <1>1, <1>3
        <3>2. Request("load", i, call.rest \ {i}, FALSE)
            BY <1>7, <2>5
        <3> QED
            BY <2>3, <3>1, <3>2, WithRequest DEF Ops
    <2> QED
        BY <2>2, <2>4, <2>5 DEF Continue
<1>8. call.op # "none"
    BY <1>1 DEF CallFits
<1> QED
    BY <1>1, <1>4, <1>5, <1>6, <1>7, <1>8 DEF Ops

\* An answer or a message that nobody waits for.
LEMMA CallKept ==
    ASSUME StoresInv, BaseInv, UNCHANGED <<DBAppSide, troubles, requests, baseVars>>, NoNewAnswer
    PROVE  StoresInv' /\ BaseInv'
<1>1. UNCHANGED <<baseUp, entities, call, path, served, latest, acked, requests, troubles>>
    BY DEF baseVars
<1>2. Shape /\ TypeOK
    BY DEF StoresInv, Shape
<1>3. StoresInv'
    <2>1. /\ \A k \in 1..Len(answers') : OutcomeFits(answers'[k].op, answers'[k].out)
          /\ \A k \in 1..Len(requests') : RequestFits(requests'[k])
          /\ requests' \in Seq(Requests) /\ call' \in Calls
        BY <1>1, <1>2 DEF NoNewAnswer, Shape, TypeOK
    <2>2. BaseTypes'
        BY <1>1, <1>2 DEF BaseTypes, TypeOK, StoreTypes
    <2> QED
        BY <2>1, <2>2, StoresKept DEF BaseTypes, NoNewAnswer, DBAppSide, History
<1>4. CallFits'
    BY <1>1 DEF BaseInv, CallFits, InRegister
<1>5. CallIsLast'
    <2> SUFFICES ASSUME call # NoCall
                 PROVE  CallIsLast'
        BY <1>1 DEF CallIsLast
    <2>1. /\ \A k \in 1..Len(requests) : requests[k].req = call.req =>
                IsCalls(requests[k])' /\ NothingAfter(k)'
          /\ job.req = call.req => IsCalls(job)' /\ NothingAfter(0)'
        BY <1>1 DEF BaseInv, CallIsLast, IsCalls, NothingAfter, DBAppSide, History
    <2>2. ASSUME NEW m \in 1..Len(answers'), answers'[m].req = call.req
          PROVE  /\ NothingAfter(0)' /\ job.op \in {"none", "create"}
                 /\ answers'[m].out # {} =>
                       /\ call.op = "save" => db.avatars[call.id] \in {entities[call.id].v, Torn}
                       /\ call.op = "load" => answers'[m].out = {db.avatars[call.id]}
        <3>1. PICK n \in 1..Len(answers) : answers'[m] = answers[n]
            BY DEF NoNewAnswer
        <3> QED
            BY <1>1, <2>2, <3>1 DEF BaseInv, CallIsLast, NothingAfter
    <2> QED
        BY <1>1, <2>1, <2>2 DEF CallIsLast, DBAppSide, History
<1>6. OutcomeIsSo'
    BY DEF BaseInv, OutcomeIsSo, DBAppSide, History
<1>7. VersionsFit'
    BY <1>1, VersionsKept DEF BaseInv, DBAppSide, History
<1> QED
    BY <1>3, <1>4, <1>5, <1>6, <1>7 DEF BaseInv

LEMMA HearStep ==
    ASSUME StoresInv, BaseInv, Hear
    PROVE  StoresInv' /\ BaseInv'
<1>1. /\ baseUp /\ call # NoCall /\ answers # <<>> /\ answers' = Tail(answers)
      /\ UNCHANGED <<DBAppSide, troubles, baseUp, path, served>>
    BY DEF Hear, Others
<1>2. NoNewAnswer
    BY <1>1, FewerAnswers
<1>3. PICK a \in Answers : a = Head(answers) /\ a = answers[1] /\ 1 \in 1..Len(answers)
    BY <1>1, BaseParts, TailFacts
<1>4. CASE ~IsAnswer(a)
    <2>1. UNCHANGED <<call, requests, entities, latest, acked>>
        BY <1>3, <1>4 DEF Hear
    <2> QED
        BY <1>1, <1>2, <2>1, CallKept DEF baseVars
<1>5. CASE IsAnswer(a)
    <2>1. a.op = call.op /\ a.req = call.req
        BY <1>5 DEF IsAnswer
    <2>2. PICK out \in SUBSET Nat : out = a.out
        BY <1>3 DEF Answers
    <2>3. PICK ok \in BOOLEAN : ok <=> out # {}
        OBVIOUS
    <2>4. Finish(ok, out)
        <3>1. Finish(a.out # {}, a.out)
            BY <1>3, <1>5 DEF Hear
        <3>2. ok = (a.out # {})
            BY <2>2, <2>3
        <3> QED
            BY <2>2, <3>1, <3>2
    <2>5. OutcomeFits(call.op, out)
        BY <1>3, <2>1, <2>2, BaseParts
    <2>6. ok => /\ NothingAfter(0) /\ job.op \in {"none", "create"}
                /\ call.op = "save" => db.avatars[call.id] \in {entities[call.id].v, Torn}
                /\ call.op = "load" => out = {db.avatars[call.id]}
        BY <1>1, <1>3, <2>1, <2>2, <2>3 DEF BaseInv, CallIsLast
    <2>7. troubles' \in Nat
        BY <1>1, BaseParts DEF BaseTypes
    <2> QED
        BY <1>1, <1>2, <2>3, <2>4, <2>5, <2>6, <2>7, FinishStep
<1> QED
    BY <1>4, <1>5

LEMMA TimeOutStep ==
    ASSUME StoresInv, BaseInv, TimeOut
    PROVE  StoresInv' /\ BaseInv'
<1>1. /\ baseUp /\ call # NoCall /\ Finish(FALSE, {})
      /\ troubles' = troubles \/ troubles' = troubles + 1
      /\ UNCHANGED <<DBAppSide, answers, baseUp, path, served>>
    BY DEF TimeOut
<1>2. troubles' \in Nat
    <2>1. troubles \in Nat
        BY BaseParts DEF BaseTypes
    <2> QED
        BY <1>1, <2>1
<1>3. NoNewAnswer
    BY <1>1, FewerAnswers
<1>4. OutcomeFits(call.op, {}) /\ {} \in SUBSET Nat
    BY DEF OutcomeFits
<1>5. PICK ok \in BOOLEAN : ~ok
    OBVIOUS
<1>6. PICK out \in SUBSET Nat : out = {}
    OBVIOUS
<1>7. Finish(ok, out)
    <2>1. ok = FALSE
        BY <1>5
    <2> QED
        BY <1>1, <1>6, <2>1
<1> QED
    BY <1>1, <1>3, <1>4, <1>5, <1>6, <1>7, <1>2, FinishStep

LEMMA ReceiveStep ==
    ASSUME StoresInv, BaseInv, Receive
    PROVE  StoresInv' /\ BaseInv'
BY FewerAnswers, CallKept DEF Receive, Others

LEMMA CreateEntityStep ==
    ASSUME StoresInv, BaseInv, CreateEntity
    PROVE  StoresInv' /\ BaseInv'
<1>1. /\ baseUp' /\ Request("alloc", 0, {}, FALSE)
      /\ UNCHANGED <<DBAppSide, troubles, answers, baseUp, entities, path, served, latest, acked>>
    BY DEF CreateEntity, Idle, Others
<1>2. BaseTypes' /\ NoNewAnswer /\ NewInOrder
    BY <1>1, BaseParts, FewerAnswers, SameOrder DEF BaseTypes
<1>3. 0 \in 0..MaxId
    BY StoresAssumption
<1> QED
    BY <1>1, <1>2, <1>3, WithRequest DEF Ops

LEMMA AutoSaveStep ==
    ASSUME StoresInv, BaseInv, AutoSave
    PROVE  StoresInv' /\ BaseInv'
<1>1. /\ baseUp'
      /\ UNCHANGED <<DBAppSide, troubles, answers, baseUp, entities, path, served, latest, acked>>
    BY DEF AutoSave, Idle, Others
<1>2. BaseTypes' /\ NoNewAnswer /\ NewInOrder
    BY <1>1, BaseParts, FewerAnswers, SameOrder DEF BaseTypes
<1>3. PICK i \in Dirty : Request("save", i, Dirty \ {i}, FALSE)
    BY DEF AutoSave
<1>4. PICK rest \in SUBSET Ids : rest = Dirty \ {i}
    BY DEF Dirty
<1>5. /\ i \in Ids /\ i \in 0..MaxId /\ i \notin rest
      /\ \A o \in rest \cup {i} : entities'[o].v # 0
    BY <1>1, <1>3, <1>4, StoresAssumption DEF Dirty, Ids, InRegister
<1> QED
    BY <1>1, <1>2, <1>3, <1>4, <1>5, WithRequest DEF Ops

LEMMA DestroyStep ==
    ASSUME StoresInv, BaseInv, NEW i \in Ids, Destroy(i)
    PROVE  StoresInv' /\ BaseInv'
<1>1. /\ baseUp' /\ InRegister(i) /\ Request("save", i, {}, TRUE)
      /\ UNCHANGED <<DBAppSide, troubles, answers, baseUp, entities, path, served, latest, acked>>
    BY DEF Destroy, Idle, Others
<1>2. BaseTypes' /\ NoNewAnswer /\ NewInOrder
    BY <1>1, BaseParts, FewerAnswers, SameOrder DEF BaseTypes
<1>3. i \in 0..MaxId /\ \A o \in {} \cup {i} : entities'[o].v # 0
    BY <1>1, StoresAssumption DEF Ids, InRegister
<1> QED
    BY <1>1, <1>2, <1>3, WithRequest DEF Ops

LEMMA ChangeStep ==
    ASSUME StoresInv, BaseInv, NEW i \in Ids, Change(i)
    PROVE  StoresInv' /\ BaseInv'
<1>1. /\ baseUp /\ baseUp' = baseUp /\ call = NoCall /\ call' = NoCall
      /\ latest' = [latest EXCEPT ![i] = @ + 1]
      /\ entities' = [entities EXCEPT ![i] = [v |-> latest[i] + 1, dirty |-> TRUE]]
      /\ UNCHANGED <<DBAppSide, troubles, requests, answers, path, served, acked>>
    BY DEF Change, Idle, Others
<1>2. /\ BaseTypes /\ NoNewAnswer /\ latest[i] \in Nat /\ acked[i] \in Nat
      /\ db.avatars[i] \in Nat \cup {Torn}
    BY <1>1, BaseParts, FewerAnswers DEF BaseTypes
<1>3. BaseTypes'
    <2>1. [v |-> latest[i] + 1, dirty |-> TRUE] \in [v : Nat, dirty : BOOLEAN]
        BY <1>2
    <2>2. entities' \in [Ids -> [v : Nat, dirty : BOOLEAN]] /\ latest' \in [Ids -> Nat]
        BY <1>1, <1>2, <2>1 DEF BaseTypes
    <2> QED
        BY <1>1, <1>2, <2>2 DEF BaseTypes
<1>4. NewInOrder
    <2> SUFFICES ASSUME NEW o \in Ids
                 PROVE  /\ InOrder(o, entities'[o].v, latest'[o], acked'[o], requests)
                        /\ StoredUpTo(o, acked'[o])
        BY DEF NewInOrder
    <2>1. VersionFits(o)
        BY DEF BaseInv, VersionsFit
    <2>2. CASE o # i
        <3>1. entities'[o] = entities[o] /\ latest'[o] = latest[o]
            BY <1>1, <1>2, <2>2 DEF BaseTypes
        <3> QED
            BY <1>1, <2>1, <3>1 DEF VersionFits
    <2>3. CASE o = i
        <3>1. entities'[i].v = latest[i] + 1 /\ latest'[i] = latest[i] + 1
            BY <1>1, <1>2 DEF BaseTypes
        <3>2. (\A k \in 1..Len(requests) : requests[k].v \in Nat) /\ job.v \in Nat
            <4>1. requests \in Seq(Requests) /\ job \in Jobs
                BY BaseParts, InvParts
            <4>2. \A k \in 1..Len(requests) : requests[k] \in Requests
                BY <4>1
            <4> QED
                BY <4>1, <4>2 DEF Requests, Jobs
        <3> QED
            BY <1>1, <1>2, <2>1, <2>3, <3>1, <3>2 DEF VersionFits, InOrder, Torn
    <2> QED
        BY <2>2, <2>3
<1> QED
    BY <1>1, <1>2, <1>3, <1>4, WithoutRequest

LEMMA CrashBaseStep ==
    ASSUME StoresInv, BaseInv, CrashBase
    PROVE  StoresInv' /\ BaseInv'
<1>1. /\ baseUp' = FALSE /\ path' = "dead" /\ call' = NoCall /\ answers' = <<>>
      /\ entities' = [i \in Ids |-> NoEntity] /\ troubles' = troubles + 1
      /\ UNCHANGED <<DBAppSide, requests, served, latest, acked>>
    BY DEF CrashBase
<1>2. NoEntity \in [v : Nat, dirty : BOOLEAN] /\ NoEntity.v = 0
    BY DEF NoEntity
<1>3. BaseTypes' /\ NoNewAnswer
    <2>1. BaseTypes
        BY BaseParts
    <2>2. entities' \in [Ids -> [v : Nat, dirty : BOOLEAN]]
        BY <1>1, <1>2
    <2>3. troubles' \in Nat /\ latest' \in [Ids -> Nat] /\ acked' \in [Ids -> Nat] /\ served' \in BOOLEAN
        BY <1>1, <2>1 DEF BaseTypes
    <2>4. BaseTypes'
        BY <1>1, <2>2, <2>3 DEF BaseTypes
    <2>5. answers' \in Seq(Answers) /\ Len(answers') = 0
        BY <1>1
    <2> QED
        BY <2>4, <2>5 DEF NoNewAnswer
<1>4. \A i \in Ids : entities'[i].v = 0
    BY <1>1, <1>2
<1>5. NewInOrder
    BY <1>1, <1>4 DEF BaseInv, VersionsFit, VersionFits, NewInOrder, InOrder, StoredUpTo
<1> QED
    BY <1>1, <1>3, <1>4, <1>5, WithoutRequest

LEMMA InitBaseStep ==
    ASSUME StoresInv, BaseInv, InitBase
    PROVE  StoresInv' /\ BaseInv'
<1> DEFINE r == [op |-> "types", id |-> 0, user |-> Nobody, req |-> FreshId, v |-> 0]
<1>1. /\ ~baseUp /\ baseUp' = TRUE /\ path' \in {"good", "dead"} /\ served' = TRUE
      /\ call' = [NoCall EXCEPT !.op = "types", !.req = FreshId]
      /\ requests' = Append(requests, r)
      /\ UNCHANGED <<DBAppSide, troubles, answers, entities, latest, acked>>
    BY DEF InitBase, Others
<1>2. /\ TypeOK /\ requests \in Seq(Requests)
      /\ \A k \in 1..Len(requests) : RequestFits(requests[k])
    BY DEF StoresInv, Shape, TypeOK
<1>3. FreshId \in Nat /\ FreshId # 0
    BY <1>2, FreshIdFacts
<1>4. 0 \in 0..MaxId
    BY StoresAssumption
<1>5. /\ call' \in Calls /\ call' # NoCall /\ call'.op = "types" /\ call'.id = 0
      /\ call'.rest = {} /\ call'.req = FreshId
    BY <1>1, <1>3, <1>4 DEF Calls, NoCall, Ops
<1>6. r \in Requests /\ RequestFits(r) /\ r.op = "types" /\ r.id = 0 /\ r.req = FreshId
    BY <1>3, <1>4 DEF Requests, RequestFits, Ops, Names
<1> HIDE DEF r
<1>7. /\ requests' \in Seq(Requests) /\ Len(requests) \in Nat
      /\ Len(requests') = Len(requests) + 1
      /\ \A k \in 1..Len(requests) : requests'[k] = requests[k]
      /\ requests'[Len(requests) + 1] = r
    BY <1>1, <1>2, <1>6, AppendFacts
<1>8. \A k \in 1..Len(requests') : RequestFits(requests'[k])
    BY <1>2, <1>6, <1>7
<1>9. NewRequest("types", 0, {})
    BY <1>5, <1>6, <1>7, <1>8 DEF NewRequest
<1>10. BaseTypes' /\ NoNewAnswer /\ NewInOrder
    BY <1>1, BaseParts, FewerAnswers, SameOrder DEF BaseTypes
<1> QED
    BY <1>1, <1>4, <1>9, <1>10, WithNewRequest DEF Ops

\* LoginApp's request, which the base does not wait for.
LEMMA CreateAccountStep ==
    ASSUME StoresInv, BaseInv, NEW u \in Users, CreateAccount(u), UNCHANGED baseVars
    PROVE  StoresInv' /\ BaseInv'
<1> DEFINE r == [op |-> "create", id |-> 0, v |-> 0, user |-> u, req |-> 0]
<1>1. /\ requests' = Append(requests, r)
      /\ UNCHANGED <<DBAppSide, troubles, answers, baseUp, entities, call, path, served,
                     latest, acked>>
    BY DEF CreateAccount, storeVars, DBAppSide, History, baseVars
<1>2. /\ Shape /\ TypeOK /\ requests \in Seq(Requests) /\ answers \in Seq(Answers)
      /\ \A k \in 1..Len(requests) : RequestFits(requests[k])
    BY DEF StoresInv, Shape, TypeOK
<1>3. r \in Requests /\ RequestFits(r) /\ r.op = "create" /\ r.req = 0
    <2>1. 0 \in 0..MaxId
        BY StoresAssumption
    <2> QED
        BY <2>1 DEF Requests, RequestFits, Ops, Names
<1> HIDE DEF r
<1>4. /\ requests' \in Seq(Requests) /\ Len(requests) \in Nat
      /\ Len(requests') = Len(requests) + 1
      /\ \A k \in 1..Len(requests) : requests'[k] = requests[k]
      /\ requests'[Len(requests) + 1] = r
    BY <1>1, <1>2, <1>3, AppendFacts
<1>5. StoresInv'
    <2>1. /\ \A k \in 1..Len(requests') : RequestFits(requests'[k])
          /\ \A k \in 1..Len(answers') : OutcomeFits(answers'[k].op, answers'[k].out)
        BY <1>1, <1>2, <1>3, <1>4 DEF Shape
    <2>2. BaseTypes' /\ call' \in Calls
        BY <1>1, BaseParts DEF BaseTypes
    <2> QED
        BY <1>1, <1>2, <1>4, <2>1, <2>2, StoresKept DEF BaseTypes, DBAppSide, History
<1>6. CallFits'
    BY <1>1 DEF BaseInv, CallFits, InRegister
<1>7. CallIsLast'
    <2> SUFFICES ASSUME call # NoCall
                 PROVE  CallIsLast'
        BY <1>1 DEF CallIsLast
    <2>1. call.req # 0
        BY DEF BaseInv, CallFits
    <2>2. ASSUME NEW k \in Nat, NothingAfter(k)
          PROVE  NothingAfter(k)'
        BY <1>3, <1>4, <2>2 DEF NothingAfter
    <2>3. ASSUME NEW k \in 1..Len(requests'), requests'[k].req = call.req
          PROVE  IsCalls(requests[k])' /\ NothingAfter(k)'
        <3>1. k \in 1..Len(requests) /\ requests'[k] = requests[k] /\ k \in Nat
            BY <1>3, <1>4, <2>1, <2>3
        <3>2. IsCalls(requests[k]) /\ NothingAfter(k)
            BY <2>3, <3>1 DEF BaseInv, CallIsLast
        <3> QED
            BY <1>1, <2>2, <3>1, <3>2 DEF IsCalls
    <2>4. job.req = call.req => IsCalls(job)' /\ NothingAfter(0)'
        BY <1>1, <2>2 DEF BaseInv, CallIsLast, IsCalls, DBAppSide, History
    <2>5. \A m \in 1..Len(answers) : answers[m].req = call.req => NothingAfter(0)'
        BY <2>2 DEF BaseInv, CallIsLast
    <2> QED
        BY <1>1, <2>3, <2>4, <2>5 DEF BaseInv, CallIsLast, DBAppSide, History
<1>8. OutcomeIsSo'
    BY <1>1 DEF BaseInv, OutcomeIsSo, DBAppSide, History
<1>9. VersionsFit'
    <2> SUFFICES ASSUME NEW i \in Ids
                 PROVE  VersionFits(i)'
        BY DEF VersionsFit
    <2>1. VersionFits(i) /\ UNCHANGED <<db, job, mishap, entities, latest, acked>>
        BY <1>1 DEF BaseInv, VersionsFit, DBAppSide, History
    <2>2. StoredUpTo(i, acked[i])'
        BY <2>1 DEF VersionFits, StoredUpTo
    <2>3. ASSUME NEW k \in 1..Len(requests'), Saves(requests'[k], i)
          PROVE  k \in 1..Len(requests) /\ \A l \in 1..k : requests'[l] = requests[l]
        BY <1>3, <1>4, <2>3 DEF Saves
    <2>4. InOrder(i, entities[i].v, latest[i], acked[i], requests)'
        BY <2>1, <2>3 DEF VersionFits, InOrder, Saving
    <2> QED
        BY <2>2, <2>4 DEF VersionFits
<1> QED
    BY <1>5, <1>6, <1>7, <1>8, <1>9 DEF BaseInv

-----------------------------------------------------------------------------
(* The invariant, and what it says                                           *)

LEMMA InitInv ==
    ASSUME Init
    PROVE  Inv
<1>1. /\ backend \in {"file", "mysql", "postgresql"} /\ autoCreate \in BOOLEAN
      /\ up = TRUE /\ link = "up" /\ txn = <<>> /\ job = NoJob
      /\ requests = <<>> /\ answers = <<>> /\ troubles = 0 /\ mishap = {} /\ halved = {}
      /\ known = SchemaTables /\ given = [i \in Ids |-> 0]
      /\ db = [next |-> 0, avatars |-> [i \in Ids |-> 0],
               accounts |-> [i \in Ids |-> Nobody], index |-> [u \in Users |-> 0],
               tables |-> SchemaTables]
      /\ baseUp = TRUE /\ path = "good" /\ served = TRUE /\ call = NoCall
      /\ entities = [i \in Ids |-> NoEntity]
      /\ latest = [i \in Ids |-> 0] /\ acked = [i \in Ids |-> 0]
    BY DEF Init, StoresInit
<1>2. /\ NoJob \in Jobs /\ NoJob.op = "none" /\ NoJob.at = "done" /\ NoJob.out = {}
      /\ NoJob.req = 0
    BY NoJobFacts
<1>3. SchemaTables \in SUBSET {"Account", "Avatar"} /\ 0 \in 0..MaxId
    BY StoresAssumption DEF SchemaTables
<1>4. db \in Databases
    BY <1>1, <1>3 DEF Databases, Names
<1>5. /\ entities \in [Ids -> [v : Nat, dirty : BOOLEAN]] /\ NoCall \in Calls
      /\ \A i \in Ids : entities[i].v = 0
    BY <1>1, <1>3 DEF NoEntity, NoCall, Calls
<1>6. requests \in Seq(Requests) /\ answers \in Seq(Answers) /\ Len(requests) = 0 /\ Len(answers) = 0
    BY <1>1
<1>7. Shape
    <2>1. TypeOK
        BY <1>1, <1>2, <1>3, <1>4, <1>5, <1>6 DEF TypeOK, StoreTypes
    <2>2. JobFits /\ TransactionFits
        BY <1>1, <1>2 DEF JobFits, OutcomeFits, TransactionFits
    <2> QED
        BY <1>6, <2>1, <2>2 DEF Shape
<1>8. IdsFit
    BY <1>1, <1>2 DEF IdsFit
<1>9. AccountsFit
    BY <1>1, <1>2 DEF AccountsFit, Whole, HasId, InTransaction
<1>10. CallFits /\ CallIsLast /\ OutcomeIsSo
    BY <1>1, <1>2, <1>5 DEF CallFits, CallIsLast, OutcomeIsSo, InRegister, NoCall
<1>11. VersionsFit
    BY <1>1, <1>2, <1>5, <1>6
    DEF VersionsFit, VersionFits, InOrder, StoredUpTo, Saving, Saves, Torn
<1> QED
    BY <1>7, <1>8, <1>9, <1>10, <1>11 DEF Inv

\* Nothing happens.
LEMMA StutterStep ==
    ASSUME StoresInv, BaseInv, UNCHANGED vars
    PROVE  StoresInv' /\ BaseInv'
<1>1. /\ UNCHANGED <<DBAppSide, troubles, requests, baseVars>> /\ answers' = answers
    BY DEF vars, storeVars, DBAppSide, History
<1> QED
    BY <1>1, FewerAnswers, CallKept

LEMMA InvStep ==
    ASSUME Inv, [Next]_vars
    PROVE  Inv'
<1> SUFFICES StoresInv' /\ BaseInv'
    BY DEF Inv, StoresInv, BaseInv
<1>1. StoresInv /\ BaseInv /\ Shape
    BY DEF Inv, StoresInv, BaseInv
<1>2. CASE DBAppStep
    <2>1. CASE Handle /\ UNCHANGED baseVars
        BY <1>1, <2>1, HandleStep
    <2>2. CASE JobStep /\ UNCHANGED baseVars
        <3>1. StoresInv' /\ Moves
            BY <1>1, <2>2, JobStepKeeps
        <3>2. BaseInv'
            BY <1>1, <3>1, MovesKeepBase DEF StoresInv, Shape, TypeOK
        <3> QED
            BY <3>1, <3>2
    <2>3. CASE Respond
        BY <1>1, <2>3, RespondStep
    <2> QED
        BY <1>2, <2>1, <2>2, <2>3 DEF DBAppStep
<1>3. CASE LoseSession /\ UNCHANGED baseVars
    BY <1>1, <1>3, LoseSessionStep
<1>4. CASE InitDBApp /\ UNCHANGED baseVars
    BY <1>1, <1>4, InitDBAppStep
<1>5. CASE (\E u \in Users : CreateAccount(u)) /\ UNCHANGED baseVars
    BY <1>1, <1>5, CreateAccountStep
<1>6. CASE Crash
    BY <1>1, <1>6, CrashStep
<1>7. CASE Hear
    BY <1>1, <1>7, HearStep
<1>8. CASE TimeOut
    BY <1>1, <1>8, TimeOutStep
<1>9. CASE Receive
    BY <1>1, <1>9, ReceiveStep
<1>10. CASE CreateEntity
    BY <1>1, <1>10, CreateEntityStep
<1>11. CASE AutoSave
    BY <1>1, <1>11, AutoSaveStep
<1>12. CASE CrashBase
    BY <1>1, <1>12, CrashBaseStep
<1>13. CASE InitBase
    BY <1>1, <1>13, InitBaseStep
<1>14. CASE \E i \in Ids : Change(i) \/ Destroy(i)
    BY <1>1, <1>14, ChangeStep, DestroyStep
<1>15. CASE UNCHANGED vars
    BY <1>1, <1>15, StutterStep
<1> QED
    BY <1>2, <1>3, <1>4, <1>5, <1>6, <1>7, <1>8, <1>9, <1>10, <1>11, <1>12, <1>13, <1>14,
       <1>15 DEF Next

\* DBApp's jobs, the requests and answers on their way, the stored rows and the
\* base's register keep their kinds, a job is at a step of its own operation, and
\* the base waits for its last request (DBApp's handlers, RemoteEntityStore::request).
THEOREM InvHolds ==
    Spec => []Inv
<1>1. Init => Inv
    BY InitInv
<1>2. Inv /\ [Next]_vars => Inv'
    BY InvStep
<1> QED
    BY <1>1, <1>2, PTL DEF Spec

\* Types.
THEOREM TypeCorrect ==
    Spec => []TypeOK
<1>1. Inv => TypeOK
    BY DEF Inv, Shape
<1> QED
    BY <1>1, InvHolds, PTL

\* No id is given twice, however often DBApp restarts or a read back fails, unless
\* the file store's counter was torn or not written (allocId).
THEOREM IdsStayGivenOnce ==
    Spec => []IdIsGivenOnce
<1>1. Inv => IdIsGivenOnce
    BY DEF Inv, IdsFit, IdIsGivenOnce
<1> QED
    BY <1>1, InvHolds, PTL

\* At every moment an account of the SQL stores has its row and its index row or
\* neither, whatever fails (createAccount), but for the accounts whose own MySQL
\* session was lost in their transaction (MySQLConnection::ensureConnected) and
\* those whose name a failed look-up gave away.
THEOREM AccountsStayWhole ==
    Spec => []AccountsAreWhole
<1>1. Inv => AccountsAreWhole
    BY DEF Inv, AccountsFit, Whole, AccountsAreWhole
<1> QED
    BY <1>1, InvHolds, PTL

\* What a save was told is stored stays stored in that version or a later one,
\* whatever answers come late and whoever crashes, but for a file that a mishap has
\* torn or that is being written (RemoteEntityStore::request, save).
THEOREM AckedStaysStored ==
    Spec => []AckedIsStored
<1>1. Inv => AckedIsStored
    <2> SUFFICES ASSUME Inv, NEW i \in Ids, acked[i] # 0
                 PROVE  db.avatars[i] >= acked[i] \/ IsTorn(i)
        BY DEF AckedIsStored
    <2>1. acked[i] \in Nat /\ db.avatars[i] \in Nat \cup {Torn}
        BY DEF Inv, Shape, TypeOK, StoreTypes, Databases
    <2>2. StoredUpTo(i, acked[i])
        BY DEF Inv, VersionsFit, VersionFits
    <2> QED
        BY <2>1, <2>2 DEF StoredUpTo, IsTorn, Saves
<1> QED
    BY <1>1, InvHolds, PTL
=============================================================================
