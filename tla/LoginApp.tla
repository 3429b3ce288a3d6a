------------------------------ MODULE LoginApp ------------------------------
(***************************************************************************)
(* LoginApp (login/LoginApp.cpp) with its database leg and the DBApp         *)
(* (db/DBApp.cpp) that answers it, over the TransportHub of each side.       *)
(*                                                                         *)
(* Each process is single-threaded and runs one tick after another.  A      *)
(* LoginApp tick drains its inbox, supervises the link (probe, acknowledge,  *)
(* lose, retry) and then serves the clients; a login blocks in dbRequest,    *)
(* which receives one message at a time until the answer or the time-out,    *)
(* so DBApp, the network and crashes act in between.  A DBApp tick handles   *)
(* the messages its hub hands out one by one.                               *)
(*                                                                         *)
(* A connection is a member of Connections with a FIFO queue each way.  It   *)
(* is live while both ends hold it and the network carries it; an end finds  *)
(* out that it is dead when it next reads it (pumpWithResult), or later.     *)
(*                                                                         *)
(* What is abstracted:                                                      *)
(*   - clocks: the acknowledgement window and dbRequestTimeout run out when  *)
(*     no answer can come any more, or early at the cost of one of           *)
(*     MaxTimeouts; the back-off ends at some time;                          *)
(*   - an account's EntityId is its place in the sequence of accounts: ids   *)
(*     are handed out in order and no account is ever removed;               *)
(*   - the machine leg (the same supervision against MachineDaemon), realm   *)
(*     selection and the expiry of session rows are not modelled;            *)
(*   - LoginApp uses the "db" authentication without a rate limit, DBApp the *)
(*     file store;                                                           *)
(*   - a transport in awaitingIdentity_ that is dead and holds no data has   *)
(*     no effect any more and is dropped from the model (the code keeps it). *)
(***************************************************************************)
EXTENDS Naturals, Sequences

CONSTANTS
    Accounts,       \* account names
    Passwords,
    Connections,    \* TCP connections; one is used again once nobody holds it
    NoConnection,   \* no transport held (dbTransport_, the hub's entry)
    NoLogin,        \* no login is being served
    MaxLogins,      \* bound: logins that reach dbRequest
    MaxTimeouts,    \* bound: waits that end although an answer may still come
    MaxCuts,        \* bound: connections the network loses
    MaxCrashes,     \* bound: crashes of DBApp
    MaxRelaunches   \* bound: restarts of LoginApp

ASSUME ConstantsAssumption ==
    /\ NoConnection \notin Connections
    /\ NoLogin \notin [name : Accounts, password : Passwords]
    /\ MaxLogins \in Nat /\ MaxTimeouts \in Nat
    /\ MaxCuts \in Nat /\ MaxCrashes \in Nat /\ MaxRelaunches \in Nat

Logins == [name : Accounts, password : Passwords]

Requests ==
         [type : {"listTypes"}]
    \cup [type : {"queryAccount"}, name : Accounts]
    \cup [type : {"createAccount"}, name : Accounts, password : Passwords]

\* Answers carry the type of the request they answer, never its requestId.
Answers ==
         [type : {"listTypes"}]
    \cup [type : {"queryAccount"}, found : {FALSE}]
    \cup [type : {"queryAccount"}, found : {TRUE}, id : Nat,
          password : Passwords]
    \cup [type : {"createAccount"}, created : {FALSE}]
    \cup [type : {"createAccount"}, created : {TRUE}, id : Nat]

Kinds == {"logins", "timeouts", "cuts", "crashes", "relaunches"}

Budget == [logins  |-> MaxLogins, timeouts |-> MaxTimeouts,
           cuts    |-> MaxCuts,   crashes  |-> MaxCrashes,
           relaunches |-> MaxRelaunches]

VARIABLES
    \* LoginApp
    link,       \* dbLinkState_
    transport,  \* dbTransport_, the same as its hub's peers_[DBApp]
    pc,         \* idle, or the dbRequest that a login waits in
    login,      \* the account and password of that login
    sessions,   \* rows of the session store: account and userId
    \* DBApp
    running,    \* the process is up
    peer,       \* its hub's peers_[LoginApp]
    awaiting,   \* its listener's backlog and its hub's awaitingIdentity_
    accounts,   \* the Account entities of the store, in files
    \* the network
    live,       \* connections that carry messages
    toDB,
    toLogin,
    spent       \* how much of each bound is used

loginVars == <<link, transport, pc, login, sessions>>
dbVars    == <<running, peer, awaiting, accounts>>
netVars   == <<live, toDB, toLogin>>
vars      == <<loginVars, dbVars, netVars, spent>>

Spend(what) ==
    /\ spent[what] < Budget[what]
    /\ spent' = [spent EXCEPT ![what] = @ + 1]

-----------------------------------------------------------------------------
Init ==
    /\ link = "Backoff" /\ transport = NoConnection
    /\ pc = "idle" /\ login = NoLogin
    /\ sessions = {}
    /\ running = TRUE /\ peer = NoConnection /\ awaiting = {}
    /\ accounts = <<>>
    /\ live = {}
    /\ toDB = [c \in Connections |-> <<>>]
    /\ toLogin = [c \in Connections |-> <<>>]
    /\ spent = [what \in Kinds |-> 0]

-----------------------------------------------------------------------------
(* LoginApp: supervision of the database link.                              *)

\* What an arrival from DBApp does to the link: it is the only proof that the
\* connection works, a successful connect or send is none.
Confirmed(state) == IF state = "PendingAck" THEN "Up" ELSE state

\* drainInvocations outside a login: every arrival confirms the link; a probe
\* answer is consumed, any other answer is late and is dropped.
DrainInvocations ==
    /\ pc = "idle"
    /\ transport # NoConnection
    /\ toLogin[transport] # <<>>
    /\ link' = Confirmed(link)
    /\ toLogin' = [toLogin EXCEPT ![transport] = <<>>]
    /\ UNCHANGED <<transport, pc, login, sessions, dbVars, live, toDB, spent>>

\* Connections nobody holds: their ids can be used for a new connection.
Unused == Connections \ (awaiting \cup {transport, peer})

\* attemptDbLink: a new connection takes the place of the peer and carries the
\* probe.  The non-blocking connect and the send succeed whether or not DBApp
\* is there.
AttemptDbLink ==
    /\ pc = "idle"
    /\ link = "Backoff"
    /\ \E c \in Unused :
        /\ transport' = c
        /\ link' = "PendingAck"
        /\ toLogin' = [toLogin EXCEPT ![c] = <<>>]
        /\ IF running
           THEN /\ live' = live \cup {c}
                /\ awaiting' = awaiting \cup {c}
                /\ toDB' = [toDB EXCEPT ![c] = <<[type |-> "listTypes"]>>]
           ELSE /\ toDB' = [toDB EXCEPT ![c] = <<>>]
                /\ UNCHANGED <<live, awaiting>>
    /\ UNCHANGED <<pc, login, sessions, running, peer, accounts, spent>>

\* markDbLinkDown: the peer leaves the hub and the connection is closed.  What
\* LoginApp had sent may still be read by DBApp, or is lost with the reset.
MarkDbLinkDown ==
    /\ link' = "Backoff"
    /\ transport' = NoConnection
    /\ live' = live \ {transport}
    /\ toLogin' = [toLogin EXCEPT ![transport] = <<>>]
    /\ \/ UNCHANGED <<toDB, awaiting>>
       \/ /\ toDB' = [toDB EXCEPT ![transport] = <<>>]
          /\ awaiting' = awaiting \ {transport}

\* Mutant: only the probe is supervised.
SupervisedProbe == {"PendingAck"}

\* The states in which superviseDbLink looks at the transport.
Supervised == {"PendingAck", "Up"}

\* superviseDbLink, "transport-lost".
LoseDbLink ==
    /\ pc = "idle"
    /\ link \in Supervised
    /\ transport \notin live /\ toLogin[transport] = <<>>
    /\ MarkDbLinkDown
    /\ UNCHANGED <<pc, login, sessions, running, peer, accounts, spent>>

\* superviseDbLink, "probe-ack-timeout".
ProbeAckTimeout ==
    /\ pc = "idle"
    /\ link = "PendingAck"
    /\ transport \in live
    /\ Spend("timeouts")
    /\ MarkDbLinkDown
    /\ UNCHANGED <<pc, login, sessions, running, peer, accounts>>

-----------------------------------------------------------------------------
(* LoginApp: a login.                                                       *)

\* send and flush of a request: on a dead connection it is accepted and lost.
Sent(m) == IF transport \in live
           THEN [toDB EXCEPT ![transport] = Append(@, m)]
           ELSE toDB

\* handleLogin up to the wait of its first dbRequest.  Without a transport, or
\* on one that is known to be dead, it answers "database unavailable" at once
\* and changes nothing.
HandleLogin ==
    /\ pc = "idle"
    /\ transport # NoConnection
    /\ Spend("logins")
    /\ \E l \in Logins :
        /\ login' = l
        /\ toDB' = Sent([type |-> "queryAccount", name |-> l.name])
    /\ pc' = "queryAccount"
    /\ UNCHANGED <<link, transport, sessions, dbVars, live, toLogin>>

\* Mutant: the login that ended is not forgotten.
FinishKeepsLogin(rows) ==
    /\ pc' = "idle"
    /\ login' = login
    /\ sessions' = sessions \cup rows

\* The login is answered; a session row is written when it succeeded.
Finish(rows) ==
    /\ pc' = "idle"
    /\ login' = NoLogin
    /\ sessions' = sessions \cup rows

Row(id) == {[account |-> login.name, userId |-> id]}

\* dbRequest receives one message and confirms the link.
Receive ==
    /\ toLogin[transport] # <<>>
    /\ toLogin' = [toLogin EXCEPT ![transport] = Tail(@)]
    /\ link' = Confirmed(link)

\* dbRequest takes a message for its answer by the method alone.
IsAnswer(m) == m.type = pc

\* A message that is not taken for the answer goes to handleInvocation, and
\* the wait goes on.
SkipMessage ==
    /\ pc # "idle"
    /\ Receive
    /\ ~ IsAnswer(Head(toLogin[transport]))
    /\ UNCHANGED <<transport, pc, login, sessions, dbVars, live, toDB, spent>>

\* The answer of queryAccount: a known account is compared with the password;
\* an unknown one is registered, over the same connection.
QueryAnswered ==
    /\ pc = "queryAccount"
    /\ Receive
    /\ LET m == Head(toLogin[transport])
       IN  /\ IsAnswer(m)
           /\ \/ /\ m.found
                 /\ Finish(IF m.password = login.password THEN Row(m.id)
                                                          ELSE {})
                 /\ toDB' = toDB
              \/ /\ ~ m.found
                 /\ toDB' = Sent([type |-> "createAccount", name |-> login.name,
                                  password |-> login.password])
                 /\ pc' = "createAccount"
                 /\ UNCHANGED <<login, sessions>>
              \/ \* the connection is known to be dead: nothing is sent
                 /\ ~ m.found /\ transport \notin live
                 /\ Finish({})
                 /\ toDB' = toDB
    /\ UNCHANGED <<transport, dbVars, live, spent>>

\* The answer of createAccount.
CreateAnswered ==
    /\ pc = "createAccount"
    /\ Receive
    /\ LET m == Head(toLogin[transport])
       IN  IsAnswer(m) /\ Finish(IF m.created THEN Row(m.id) ELSE {})
    /\ UNCHANGED <<transport, dbVars, live, toDB, spent>>

\* Mutant: dbRequest has no deadline.
NothingEverTimesOut == FALSE

\* dbRequest runs into dbRequestTimeout; both callers answer with a failure.
NothingCanArrive == transport \notin live /\ toLogin[transport] = <<>>

GiveUp ==
    /\ pc # "idle"
    /\ NothingCanArrive
    /\ Finish({})
    /\ UNCHANGED <<link, transport, dbVars, netVars, spent>>

GiveUpEarly ==
    /\ pc # "idle"
    /\ ~ NothingCanArrive
    /\ Spend("timeouts")
    /\ Finish({})
    /\ UNCHANGED <<link, transport, dbVars, netVars>>

-----------------------------------------------------------------------------
(* DBApp.                                                                   *)

\* The accounts that listIdsByType lists and the scan finds under a name.
IdsOf(name) == {i \in DOMAIN accounts : accounts[i].name = name}

\* The answers of handleListTypes and handleQueryAccount.  The scan returns the
\* account of that name with the smallest id.
Lookup(m) ==
    IF m.type = "listTypes" THEN [type |-> "listTypes"]
    ELSE IF IdsOf(m.name) = {} THEN [type |-> "queryAccount", found |-> FALSE]
    ELSE LET i == CHOOSE i \in IdsOf(m.name) : \A j \in IdsOf(m.name) : i <= j
         IN  [type |-> "queryAccount", found |-> TRUE, id |-> i,
              password |-> accounts[i].password]

\* Mutant: a new account is saved without the scan.
MayAlwaysCreate(name) == TRUE

\* handleCreateAccount refuses a name that the scan finds.
MayCreate(name) == IdsOf(name) = {}

\* sendResponse through the hub's peer, whichever connection asked.
Respond(queues, to, answer) ==
    IF to \in live THEN [queues EXCEPT ![to] = Append(@, answer)] ELSE queues

\* handleInvocation of m, with the answer going to the peer "to".  The save of
\* a new account may fail.
Handle(m, to) ==
    \/ /\ m.type \in {"listTypes", "queryAccount"}
       /\ toLogin' = Respond(toLogin, to, Lookup(m))
       /\ UNCHANGED accounts
    \/ /\ m.type = "createAccount"
       /\ MayCreate(m.name)
       /\ accounts' = Append(accounts,
                             [name |-> m.name, password |-> m.password])
       /\ toLogin' = Respond(toLogin, to, [type |-> "createAccount",
                             created |-> TRUE, id |-> Len(accounts) + 1])
    \/ /\ m.type = "createAccount"
       /\ toLogin' = Respond(toLogin, to,
                             [type |-> "createAccount", created |-> FALSE])
       /\ UNCHANGED accounts

\* A message of the registered peer.
HandleFromPeer ==
    /\ running
    /\ peer # NoConnection
    /\ toDB[peer] # <<>>
    /\ toDB' = [toDB EXCEPT ![peer] = Tail(@)]
    /\ Handle(Head(toDB[peer]), peer)
    /\ UNCHANGED <<loginVars, running, peer, awaiting, live, spent>>

\* Mutant: the latest connection replaces the registered peer.
PeerReplacedBy(c) == c

\* Whose transport the hub keeps for LoginApp when c names itself: try_emplace
\* leaves the entry that is there, alive or not.
PeerAfter(c) == IF peer = NoConnection THEN c ELSE peer

\* The first message of an accepted connection names its sender.  A transport
\* that is not kept is destroyed, with what it still holds; its message is
\* handled all the same.
HandleFromNew ==
    /\ running
    /\ \E c \in awaiting :
        /\ toDB[c] # <<>>
        /\ peer' = PeerAfter(c)
        /\ awaiting' = awaiting \ {c}
        /\ IF peer' = c
           THEN /\ toDB' = [toDB EXCEPT ![c] = Tail(@)]
                /\ live' = live
           ELSE /\ toDB' = [toDB EXCEPT ![c] = <<>>]
                /\ live' = live \ {c}
        /\ Handle(Head(toDB[c]), peer')
    /\ UNCHANGED <<loginVars, running, spent>>

\* DBApp crashes: its connections and what they carry to it are gone; answers
\* on their way may still arrive.
Crash ==
    /\ running
    /\ Spend("crashes")
    /\ running' = FALSE
    /\ peer' = NoConnection
    /\ awaiting' = {}
    /\ live' = {}
    /\ toDB' = [c \in Connections |-> <<>>]
    /\ \/ UNCHANGED toLogin
       \/ toLogin' = [c \in Connections |-> <<>>]
    /\ UNCHANGED <<loginVars, accounts>>

Restart ==
    /\ ~ running
    /\ running' = TRUE
    /\ UNCHANGED <<loginVars, peer, awaiting, accounts, netVars, spent>>

-----------------------------------------------------------------------------
(* The network loses a connection with everything on it.                    *)
Cut ==
    /\ transport \in live
    /\ Spend("cuts")
    /\ live' = live \ {transport}
    /\ toDB' = [toDB EXCEPT ![transport] = <<>>]
    /\ toLogin' = [toLogin EXCEPT ![transport] = <<>>]
    /\ awaiting' = awaiting \ {transport}
    /\ UNCHANGED <<loginVars, running, peer, accounts>>

\* LoginApp is restarted: it begins as in init; the session store may have
\* been in its memory.
Relaunch ==
    /\ Spend("relaunches")
    /\ IF transport = NoConnection
       THEN UNCHANGED <<link, transport, live, toLogin, toDB, awaiting>>
       ELSE MarkDbLinkDown
    /\ pc' = "idle"
    /\ login' = NoLogin
    /\ sessions' \in {sessions, {}}
    /\ UNCHANGED <<running, peer, accounts>>

Next ==
    \/ DrainInvocations \/ AttemptDbLink \/ LoseDbLink \/ ProbeAckTimeout
    \/ HandleLogin \/ SkipMessage \/ QueryAnswered \/ CreateAnswered
    \/ GiveUp \/ GiveUpEarly
    \/ HandleFromPeer \/ HandleFromNew
    \/ Crash \/ Restart \/ Cut \/ Relaunch

Spec == Init /\ [][Next]_vars

\* Both processes tick for ever: a tick drains the inbox, a wait that nothing
\* can end times out, DBApp handles what arrived.  Supervision runs in every
\* LoginApp tick, but a login may disable it for a while, hence strong
\* fairness.  No time-out is early, no crash, cut or restart has to happen.
Fairness ==
    /\ SF_vars(DrainInvocations)
    /\ SF_vars(AttemptDbLink)
    /\ SF_vars(LoseDbLink)
    /\ WF_vars(SkipMessage \/ QueryAnswered \/ CreateAnswered)
    /\ WF_vars(GiveUp)
    /\ WF_vars(HandleFromPeer)
    /\ WF_vars(HandleFromNew)

FairSpec == Spec /\ Fairness

-----------------------------------------------------------------------------
(* Properties.                                                              *)

\* Types; a link without a transport is the one in back-off, and a login is in
\* progress exactly while dbRequest waits.
TypeOK ==
    /\ link \in {"Backoff", "PendingAck", "Up"}
    /\ transport \in Connections \cup {NoConnection}
    /\ transport = NoConnection <=> link = "Backoff"
    /\ pc \in {"idle", "queryAccount", "createAccount"}
    /\ login \in Logins \cup {NoLogin}
    /\ login = NoLogin <=> pc = "idle"
    /\ pc # "idle" => transport # NoConnection
    /\ sessions \subseteq [account : Accounts, userId : Nat]
    /\ running \in BOOLEAN
    /\ peer \in Connections \cup {NoConnection}
    /\ awaiting \subseteq Connections
    /\ accounts \in Seq(Logins)
    /\ live \subseteq Connections
    /\ toDB \in [Connections -> Seq(Requests)]
    /\ toLogin \in [Connections -> Seq(Answers)]
    /\ spent \in [Kinds -> Nat]

\* No account is registered twice, whatever was retried, lost or answered late
\* (the scan of handleCreateAccount decides).
AccountIsUnique ==
    \A i, j \in DOMAIN accounts : accounts[i].name = accounts[j].name => i = j

\* An Up link that the network carries is the one over which DBApp answers:
\* logins are not sent where nobody replies (confirmDbLinkUp's "the point where
\* the link really works").
UpIsReachable == link = "Up" /\ transport \in live => peer = transport

\* The userId of a session row is the account that the row names: persistSession
\* writes the id of the answer that dbRequest took for its own.  Comments promise
\* it (LoginApp.cpp:525, DBApp.cpp:498: an expired answer is dropped, a late one
\* is not matched to a new request); the code keeps it while no wait ends early.
SessionRowIsTruthful ==
    \A row \in sessions :
        /\ row.userId \in DOMAIN accounts
        /\ accounts[row.userId].name = row.account

\* A login is answered: dbRequest never waits for ever.
LoginEnds == pc # "idle" ~> pc = "idle"

\* DBApp's hub holds a connection that is gone: try_emplace keeps it, so that
\* answers to a new one go nowhere until DBApp restarts.
DeadPeerKept == peer # NoConnection /\ peer \notin live

\* The link heals by itself, without a restart of LoginApp (init's and
\* superviseDbLink's promise): while DBApp is up, a lost link is up again at some
\* time, through early time-outs, cuts and restarts of either process, unless
\* DBApp keeps answering on a connection that is gone.
LinkRecovers ==
    running /\ ~ (link = "Up" /\ transport \in live)
        ~> \/ ~ running
           \/ link = "Up" /\ transport \in live
           \/ DeadPeerKept
=============================================================================
