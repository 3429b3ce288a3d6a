--------------------------- MODULE SessionLinkage ---------------------------
(***************************************************************************)
(* The session plane: the session store (foundation/SessionStore.cpp over    *)
(* RedisProvider.cpp) that LoginApp and MachineDaemon share, the login and    *)
(* realm selection that write it (login/LoginApp.cpp), the operator commands *)
(* that list, revoke and extend sessions (control/machine/MachineDaemon.cpp) *)
(* and the notices that make LoginApp close the connection of a revoked      *)
(* session, over a link that LoginApp supervises.                           *)
(*                                                                         *)
(* Every command of the store is atomic; an operation of SessionStore is     *)
(* several of them, and the two processes interleave between any two.  Each  *)
(* process itself is sequential: step is where the LoginApp stands in a      *)
(* store operation, command where the daemon stands in an operator command.  *)
(*                                                                         *)
(* What is abstracted:                                                      *)
(*   - the clock: a row may expire at any time, so a refresh changes nothing *)
(*     that shows; TTLs are positive (the configured ones are);              *)
(*   - zrange returns the index by time of saving; a scan takes its members  *)
(*     in any order;                                                        *)
(*   - whether a source may give a command is decided in MachineDaemon.tla;  *)
(*   - a link whose acknowledgement window runs out while the daemon is       *)
(*     alive is a link that was cut.                                        *)
(***************************************************************************)
EXTENDS Naturals, Sequences

CONSTANTS
    Clients,      \* connections of players
    Accounts, Realms, Tokens,
    NoRealm,      \* "" : a login that has not selected a realm
    NoAccount,    \* a token that has not been issued
    None,         \* no row, no binding, no step, no command, no link
    Links,        \* TCP connections from LoginApp to the daemon
    Scopes,       \* the selectors that operators give
    MaxLeaves, MaxSelects, MaxCommands, MaxExpiries, MaxCuts,
    MaxCrashes,   \* bounds
    MaxTroubles   \* bound of leaves, expiries, cuts and crashes together

Sessions == [account : Accounts, realm : Realms \cup {NoRealm}]
Bindings == [account : Accounts, realm : Realms \cup {NoRealm}, token : Tokens]
Views    == [account : Accounts, realm : Realms \cup {NoRealm}, token : Tokens]

\* parseSessionScope: all, one account or one realm.
AllScopes ==
         [by : {"all"}]
    \cup [by : {"account"}, value : Accounts]
    \cup [by : {"realm"}, value : Realms]

\* Where a store operation of LoginApp stands: before the load of a selection,
\* before the set or the zadd of a save.
Steps ==
         [at : {"load"}, client : Clients, token : Tokens, realm : Realms]
    \cup [at : {"set", "zadd"}, login : BOOLEAN, client : Clients, token : Tokens,
          session : Sessions]

\* Where an operator command stands: in its listing, before the next of the rows
\* it chose, before the del or the zrem of a revocation.
Commands ==
         [at : {"scan"}, do : {"list", "kickAll", "extend"}, scope : AllScopes,
          todo : SUBSET Tokens, views : SUBSET Views, stale : Tokens \cup {None}]
    \cup [at : {"next"}, do : {"kick", "kickAll", "extend"}, todo : SUBSET Views]
    \cup [at : {"del", "zrem"}, do : {"kick", "kickAll"}, todo : SUBSET Views,
          view : Views]

\* What the daemon sends: the answer to a probe, and notices.
Messages ==
         [kind : {"snapshotOk"}]
    \cup [kind : {"notice"}, account : Accounts, realm : Realms \cup {NoRealm}]

ASSUME ConstantsAssumption ==
    /\ NoRealm \notin Realms /\ NoAccount \notin Accounts
    /\ Clients \subseteq Nat /\ Tokens \subseteq Nat /\ Links \subseteq Nat
    /\ Links # {} /\ Scopes \subseteq AllScopes
    /\ None \notin Links \cup Tokens
    /\ None \notin Sessions /\ None \notin Bindings
    /\ None \notin Steps /\ None \notin Commands
    /\ {MaxLeaves, MaxSelects, MaxCommands, MaxExpiries, MaxCuts, MaxCrashes, MaxTroubles}
           \subseteq Nat

Matches(scope, view) ==
    CASE scope.by = "all"     -> TRUE
      [] scope.by = "account" -> view.account = scope.value
      [] scope.by = "realm"   -> view.realm = scope.value

Budget == [leaves |-> MaxLeaves, selects |-> MaxSelects, commands |-> MaxCommands,
           expiries |-> MaxExpiries, cuts |-> MaxCuts, crashes |-> MaxCrashes]

VARIABLES
    \* the store: the keys session:<token> and the zset sessions:index
    row, index,
    \* LoginApp
    open,       \* clients that are connected
    binding,    \* bindings_
    step,       \* the next command of the store operation under way
    link,       \* machineLinkState_
    transport,  \* machineTransport_, the same as its hub's peer
    \* MachineDaemon
    command,    \* the operator command under way
    peer,       \* its hub's peers_[LoginApp]
    \* the network between them
    live, toDaemon, toLogin,
    \* history
    owner,      \* the account a token was issued to
    selected,   \* tokens that had a row when a realm was selected for them
    revoked,    \* tokens a revoke was answered TRUE for
    spent

storeVars == <<row, index>>
loginVars == <<open, binding, step>>
linkVars  == <<link, transport, peer, live, toDaemon, toLogin>>
pastVars  == <<owner, selected, revoked>>
vars == <<storeVars, loginVars, linkVars, command, pastVars, spent>>

Troubles == spent.leaves + spent.expiries + spent.cuts + spent.crashes

Spend(what) ==
    /\ spent[what] < Budget[what]
    /\ what \in {"selects", "commands"} \/ Troubles < MaxTroubles
    /\ spent' = [spent EXCEPT ![what] = @ + 1]

Lowest(S) == CHOOSE n \in S : \A m \in S : n <= m

\* Both processes are up and the first probe is on its way.
Init ==
    /\ row = [t \in Tokens |-> None] /\ index = {}
    /\ open = {} /\ binding = [c \in Clients |-> None] /\ step = None
    /\ link = "PendingAck" /\ transport = Lowest(Links)
    /\ command = None /\ peer = None
    /\ live = {transport} /\ toDaemon = live /\ toLogin = [n \in Links |-> <<>>]
    /\ owner = [t \in Tokens |-> NoAccount] /\ selected = {} /\ revoked = {}
    /\ spent = [what \in DOMAIN Budget |-> 0]

-----------------------------------------------------------------------------
(* The store's commands.                                                     *)
Set(t, s)  == row' = [row EXCEPT ![t] = s]
Del(t)     == row' = [row EXCEPT ![t] = None]
Zadd(t)    == index' = index \cup {t}
Zrem(t)    == index' = index \ {t}

Expire(t) ==
    /\ row[t] # None
    /\ Spend("expiries")
    /\ Del(t)
    /\ UNCHANGED <<index, loginVars, linkVars, command, pastVars>>

-----------------------------------------------------------------------------
(* LoginApp: clients, login and realm selection.                             *)
Fresh == {t \in Tokens : owner[t] = NoAccount}

Slots == {c \in Clients \ open : binding[c] = None}

Connect ==
    /\ step = None /\ Slots # {} /\ Fresh # {}
    /\ open' = open \cup {Lowest(Slots)}
    /\ UNCHANGED <<storeVars, binding, step, linkVars, command, pastVars, spent>>

Disconnect(c) ==
    /\ c \in open
    /\ Spend("leaves")
    /\ open' = open \ {c}
    /\ UNCHANGED <<storeVars, binding, step, linkVars, command, pastVars>>

CleanupDisconnected ==
    /\ step = None
    /\ \E c \in Clients \ open : binding[c] # None
    /\ binding' = [c \in Clients |-> IF c \in open THEN binding[c] ELSE None]
    /\ UNCHANGED <<storeVars, open, step, linkVars, command, pastVars, spent>>

\* A successful login issues a token, saves its row (set, then zadd) and binds
\* the connection to it; an earlier binding of the connection is overwritten.
HandleLogin(c, a) ==
    /\ step = None /\ c \in open /\ Fresh # {}
    /\ owner' = [owner EXCEPT ![Lowest(Fresh)] = a]
    /\ step' = [at |-> "set", login |-> TRUE, client |-> c,
                token |-> Lowest(Fresh),
                session |-> [account |-> a, realm |-> NoRealm]]
    /\ UNCHANGED <<storeVars, open, binding, linkVars, command,
                   selected, revoked, spent>>

\* The binding gets the realm at once, the row after a load and a save.
HandleSelectRealm(c, r) ==
    /\ step = None /\ c \in open /\ binding[c] # None
    /\ Spend("selects")
    /\ binding' = [binding EXCEPT ![c].realm = r]
    /\ selected' = IF row[binding[c].token] = None THEN selected
                   ELSE selected \cup {binding[c].token}
    /\ step' = [at |-> "load", client |-> c, token |-> binding[c].token,
                realm |-> r]
    /\ UNCHANGED <<storeVars, open, linkVars, command, owner, revoked>>

PatchWithoutLoad ==
    /\ step # None /\ step.at = "load"
    /\ step' = [at |-> "set", login |-> FALSE, client |-> step.client,
                token |-> step.token,
                session |-> [account |-> owner[step.token], realm |-> step.realm]]
    /\ UNCHANGED <<storeVars, open, binding, linkVars, command, pastVars, spent>>

LoadBeforeSave ==
    /\ step # None /\ step.at = "load"
    /\ step' = IF row[step.token] = None THEN None
               ELSE [at |-> "set", login |-> FALSE, client |-> step.client,
                     token |-> step.token, session |-> row[step.token]]
    /\ UNCHANGED <<storeVars, open, binding, linkVars, command, pastVars, spent>>

LoadBeforePatch ==
    /\ step # None /\ step.at = "load"
    /\ step' = IF row[step.token] = None THEN None
               ELSE [at |-> "set", login |-> FALSE, client |-> step.client,
                     token |-> step.token, session |-> [row[step.token] EXCEPT !.realm = step.realm]]
    /\ UNCHANGED <<storeVars, open, binding, linkVars, command, pastVars, spent>>

\* SessionStore::save: the row, then its index entry.
SaveFirst ==
    /\ step # None /\ step.at = "set"
    /\ Set(step.token, step.session) /\ UNCHANGED index
    /\ step' = [step EXCEPT !.at = "zadd"]
    /\ UNCHANGED <<open, binding, linkVars, command, pastVars, spent>>

SaveSecond ==
    /\ step # None /\ step.at = "zadd"
    /\ Zadd(step.token) /\ UNCHANGED row
    /\ binding' = IF step.login
                  THEN [binding EXCEPT ![step.client] =
                           [account |-> step.session.account,
                            realm |-> NoRealm, token |-> step.token]]
                  ELSE binding
    /\ step' = None
    /\ UNCHANGED <<open, linkVars, command, pastVars, spent>>

ClosedByInRealm(notice) ==
    {c \in open : /\ binding[c] # None
                  /\ binding[c].account = notice.account
                  /\ binding[c].realm = notice.realm /\ notice.realm \in Realms}

\* handleSessionRevoked: every connected client bound to exactly this pair.
ClosedBy(notice) ==
    {c \in open : /\ binding[c] # None
                  /\ binding[c].account = notice.account
                  /\ binding[c].realm = notice.realm}

-----------------------------------------------------------------------------
(* The link between the two: the probe that registers LoginApp in the        *)
(* daemon's hub, its supervision, and what it carries.                       *)
Unused == Links \ (live \cup {peer})

AttemptMachineLink ==
    /\ step = None /\ link = "Backoff" /\ Unused # {}
    /\ link' = "PendingAck" /\ transport' = Lowest(Unused)
    /\ live' = live \cup {transport'} /\ toDaemon' = toDaemon \cup {transport'}
    /\ toLogin' = [toLogin EXCEPT ![transport'] = <<>>]
    /\ UNCHANGED <<storeVars, loginVars, command, peer, pastVars, spent>>

MarkUpLinkDown ==
    /\ step = None /\ link = "Up" /\ transport \notin live
    /\ link' = "Backoff" /\ transport' = None
    /\ UNCHANGED <<storeVars, loginVars, command, peer, live, toDaemon, toLogin,
                   pastVars, spent>>

MarkMachineLinkDown ==
    /\ step = None /\ link # "Backoff" /\ transport \notin live
    /\ link' = "Backoff" /\ transport' = None
    /\ UNCHANGED <<storeVars, loginVars, command, peer, live, toDaemon, toLogin,
                   pastVars, spent>>

\* The hub keeps the peer it has: a second transport under the same id is
\* destroyed once its first message is taken, and the answer goes to the first.
Registered(n) == IF peer = None THEN n ELSE peer

HandleProbe(n) ==
    /\ command = None /\ n \in toDaemon /\ n \in live
    /\ peer' = Registered(n)
    /\ toDaemon' = toDaemon \ {n}
    /\ live' = IF Registered(n) = n THEN live ELSE live \ {n}
    /\ toLogin' = [toLogin EXCEPT ![Registered(n)] =
                       IF Registered(n) \in live THEN Append(@, [kind |-> "snapshotOk"])
                       ELSE @]
    /\ UNCHANGED <<storeVars, loginVars, command, link, transport, pastVars, spent>>

DrainInvocations ==
    /\ step = None /\ transport # None /\ toLogin[transport] # <<>>
    /\ link' = IF link = "PendingAck" THEN "Up" ELSE link
    /\ LET m == Head(toLogin[transport])
       IN open' = IF m.kind = "notice" THEN open \ ClosedBy(m) ELSE open
    /\ toLogin' = [toLogin EXCEPT ![transport] = Tail(@)]
    /\ UNCHANGED <<storeVars, binding, step, command, transport, peer, live,
                   toDaemon, pastVars, spent>>

Cut(n) ==
    /\ n \in live
    /\ Spend("cuts")
    /\ live' = live \ {n} /\ toDaemon' = toDaemon \ {n}
    /\ UNCHANGED <<storeVars, loginVars, command, link, transport, peer, toLogin,
                   pastVars>>

\* The daemon crashes and is started again: its hub and the command it was
\* carrying out are gone.
DaemonRestart ==
    /\ Spend("crashes")
    /\ command' = None /\ peer' = None /\ live' = {} /\ toDaemon' = {}
    /\ UNCHANGED <<storeVars, loginVars, link, transport, toLogin, pastVars>>

-----------------------------------------------------------------------------
(* MachineDaemon: the commands on sessions.                                  *)

\* notifySessionRevoked: best effort, dropped when the peer is not connected.
Notify(view) ==
    toLogin' = IF peer # None /\ peer \in live
               THEN [toLogin EXCEPT ![peer] = Append(@,
                        [kind |-> "notice", account |-> view.account,
                         realm |-> view.realm])]
               ELSE toLogin

\* kick-session: the row is loaded for the notice, then revoked.
HandleKickSession(t) ==
    /\ command = None /\ row[t] # None
    /\ Spend("commands")
    /\ command' = [at |-> "del", do |-> "kick", todo |-> {},
                   view |-> [account |-> row[t].account, realm |-> row[t].realm,
                             token |-> t]]
    /\ UNCHANGED <<storeVars, loginVars, linkVars, pastVars>>

\* list-sessions, kick-sessions and extend-sessions begin with a listing.
HandleBatch(do, scope) ==
    /\ command = None /\ index # {}
    /\ Spend("commands")
    /\ command' = [at |-> "scan", do |-> do, scope |-> scope,
                   todo |-> index, views |-> {}, stale |-> None]
    /\ UNCHANGED <<storeVars, loginVars, linkVars, pastVars>>

\* listSessions: a get per member of the index as it was.
ScanNext ==
    /\ command # None /\ command.at = "scan" /\ command.stale = None
    /\ \E t \in command.todo :
        command' = IF row[t] = None
                   THEN [command EXCEPT !.todo = @ \ {t}, !.stale = t]
                   ELSE [command EXCEPT !.todo = @ \ {t},
                             !.views = @ \cup {[account |-> row[t].account,
                                 realm |-> row[t].realm, token |-> t]}]
    /\ UNCHANGED <<storeVars, loginVars, linkVars, pastVars, spent>>

\* A member that had no row is removed from the index.
Heal ==
    /\ command # None /\ command.at = "scan" /\ command.stale # None
    /\ Zrem(command.stale)
    /\ command' = [command EXCEPT !.stale = None]
    /\ UNCHANGED <<row, loginVars, linkVars, pastVars, spent>>

\* The listing is complete: it is the answer, or the matching rows are taken
\* one by one.
ListingDone ==
    /\ command # None /\ command.at = "scan"
    /\ command.todo = {} /\ command.stale = None
    /\ LET chosen == {v \in command.views : Matches(command.scope, v)}
       IN command' =
            IF command.do = "list" \/ chosen = {} THEN None
            ELSE [at |-> "next", do |-> command.do, todo |-> chosen]
    /\ UNCHANGED <<storeVars, loginVars, linkVars, pastVars, spent>>

KickNext ==
    /\ command # None /\ command.at = "next" /\ command.do = "kickAll"
    /\ \E v \in command.todo :
        command' = [at |-> "del", do |-> "kickAll", view |-> v,
                    todo |-> command.todo \ {v}]
    /\ UNCHANGED <<storeVars, loginVars, linkVars, pastVars, spent>>

\* What follows the revocation of one row: the next row, or the answer.
Rest == IF command.todo = {} THEN None
        ELSE [at |-> "next", do |-> command.do, todo |-> command.todo]

RevokeRowBlindly ==
    /\ command # None /\ command.at = "del"
    /\ LET t == command.view.token
       IN /\ Del(t)
          /\ revoked' = IF row[t] = None THEN revoked ELSE revoked \cup {t}
          /\ command' = [command EXCEPT !.at = "zrem"]
    /\ UNCHANGED <<index, loginVars, linkVars, owner, selected, spent>>

\* SessionStore::revoke, first the row: FALSE when it is gone already.
RevokeRow ==
    /\ command # None /\ command.at = "del"
    /\ LET t == command.view.token
       IN IF row[t] = None
          THEN command' = Rest /\ UNCHANGED <<row, revoked>>
          ELSE /\ Del(t)
               /\ revoked' = revoked \cup {t}
               /\ command' = [command EXCEPT !.at = "zrem"]
    /\ UNCHANGED <<index, loginVars, linkVars, owner, selected, spent>>

\* then its index entry, and the notice with the account and realm that were
\* read before.
RevokeIndex ==
    /\ command # None /\ command.at = "zrem"
    /\ Zrem(command.view.token)
    /\ Notify(command.view)
    /\ command' = Rest
    /\ UNCHANGED <<row, loginVars, link, transport, peer, live, toDaemon,
                   pastVars, spent>>

\* extend-sessions: expire on the key, which does nothing to a row that is gone.
ExtendNext ==
    /\ command # None /\ command.at = "next" /\ command.do = "extend"
    /\ \E v \in command.todo :
        LET rest == command.todo \ {v}
        IN command' = IF rest = {} THEN None ELSE [command EXCEPT !.todo = rest]
    /\ UNCHANGED <<storeVars, loginVars, linkVars, pastVars, spent>>

-----------------------------------------------------------------------------
LoginSteps ==
    \/ CleanupDisconnected \/ LoadBeforePatch \/ SaveFirst \/ SaveSecond
    \/ MarkMachineLinkDown \/ DrainInvocations \/ AttemptMachineLink

DaemonSteps ==
    \/ ScanNext \/ Heal \/ ListingDone \/ KickNext \/ RevokeRow \/ RevokeIndex
    \/ ExtendNext
    \/ \E n \in Links : HandleProbe(n)

Next ==
    \/ LoginSteps \/ DaemonSteps
    \/ Connect \/ \E c \in Clients : Disconnect(c)
    \/ \E c \in Clients, a \in Accounts : HandleLogin(c, a)
    \/ \E c \in Clients, r \in Realms : HandleSelectRealm(c, r)
    \/ \E t \in Tokens : HandleKickSession(t) \/ Expire(t)
    \/ \E s \in Scopes : HandleBatch("kickAll", s) \/ HandleBatch("extend", s)
    \/ HandleBatch("list", [by |-> "all"])
    \/ \E n \in Links : Cut(n)
    \/ DaemonRestart

\* Each process runs one tick after another.
Fairness ==
    /\ WF_vars(CleanupDisconnected)
    /\ WF_vars(LoadBeforePatch) /\ WF_vars(SaveFirst) /\ WF_vars(SaveSecond)
    /\ WF_vars(MarkMachineLinkDown)
    /\ WF_vars(AttemptMachineLink)
    /\ SF_vars(DrainInvocations)
    /\ WF_vars(DaemonSteps /\ command # None)
    /\ SF_vars(\E n \in Links : HandleProbe(n))

Spec == Init /\ [][Next]_vars /\ Fairness

-----------------------------------------------------------------------------
Saving(t) == step # None /\ step.token = t

\* Each variable is of the type the source gives it.
TypeOK ==
    /\ row \in [Tokens -> Sessions \cup {None}] /\ index \subseteq Tokens
    /\ open \subseteq Clients
    /\ binding \in [Clients -> Bindings \cup {None}]
    /\ step \in Steps \cup {None}
    /\ link \in {"Backoff", "PendingAck", "Up"}
    /\ transport \in Links \cup {None} /\ peer \in Links \cup {None}
    /\ command \in Commands \cup {None}
    /\ live \subseteq Links /\ toDaemon \subseteq live
    /\ toLogin \in [Links -> Seq(Messages)]
    /\ owner \in [Tokens -> Accounts \cup {NoAccount}]
    /\ selected \subseteq Tokens /\ revoked \subseteq Tokens

\* What a notice is matched by: while no selection of it is under way, the row
\* of a connection's token names the account and the realm the connection is
\* bound to (handleSelectRealm, "the key to the pairing").
RowMatchesBinding ==
    \A c \in Clients :
        \/ binding[c] = None
        \/ row[binding[c].token] = None
        \/ Saving(binding[c].token)
        \/ row[binding[c].token] =
               [account |-> binding[c].account, realm |-> binding[c].realm]

\* A revoked session does not come back: not by a login in progress, not by
\* the rest of a batch, and by the selection of a realm only if the selection
\* began before the row was gone.
RevokedIsGone == \A t \in revoked : row[t] # None => t \in selected

\* A session that can be used can be listed: whatever the order of a save, a
\* listing that heals the index and a revocation, a row has its index entry,
\* a realm selection again excepted.
RowIsIndexed ==
    \A t \in Tokens : row[t] # None => t \in index \/ t \in selected \/ Saving(t)

\* The store's rows and index and LoginApp's bindings stay in step (SessionStore.cpp:44,
\* LoginApp.cpp:751-771).
RowsAreSound == TypeOK /\ RowMatchesBinding /\ RowIsIndexed

\* LoginApp closes connections for a notice only if a session of the same
\* account was revoked (handleSessionRevoked).
ClosedWasKicked ==
    [][toLogin' # toLogin =>
          \A c \in open \ open' :
              \E t \in revoked : owner[t] = binding[c].account]_vars

\* A connection whose session is revoked while the daemon's hub holds a live
\* connection to LoginApp is closed (or gone, or bound otherwise by then), if
\* it is bound to the realm that the daemon has read and nothing is lost.
KickedLoginEnds ==
    \A c \in Clients, x \in Realms \cup {NoRealm} :
        (/\ command # None /\ command.at = "zrem" /\ command.view.realm = x
         /\ peer # None /\ peer \in live
         /\ c \in open /\ binding[c] # None /\ binding[c].realm = x
         /\ binding[c].token = command.view.token)
        ~> \/ c \notin open \/ binding[c] = None \/ binding[c].realm # x
           \/ binding[c].token \notin revoked
           \/ spent.cuts > 0 \/ spent.crashes > 0

\* The notice link comes back after every restart of the daemon.
NoticeLinkRecovers ==
    link # "Up" ~> link = "Up" \/ spent.cuts > 0

=============================================================================
