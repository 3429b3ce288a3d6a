----------------------- MODULE SessionLinkage_proofs -----------------------
(***************************************************************************)
(* Proofs about SessionLinkage, for all sets of clients, accounts, realms,    *)
(* tokens and links and all values of the bounds: the rows of the store, its  *)
(* index and LoginApp's bindings stay in step, a revoked session does not     *)
(* come back, and LoginApp closes a connection for a notice only when a       *)
(* session of that account was revoked.                                      *)
(***************************************************************************)
EXTENDS SessionLinkage, WellFoundedInduction, FiniteSetTheorems, TLAPS

\* A token whose login has written its row, and will not write it again: what
\* is saved from now on is a realm selection.
Written(t) ==
    /\ owner[t] # NoAccount
    /\ ~ (step # None /\ step.at = "set" /\ step.login /\ step.token = t)

\* A row, an index entry and a revocation are of a token that was issued to the
\* account the row names, and was written.
RowsFit ==
    /\ \A t \in Tokens : row[t] # None => row[t].account = owner[t]
    /\ \A t \in Tokens : row[t] # None \/ t \in index \/ t \in revoked => Written(t)

\* Connections are bound to tokens of their own, written and issued to the
\* account they are bound to.
BindingsFit ==
    /\ \A c \in Clients : binding[c] # None =>
          Written(binding[c].token) /\ binding[c].account = owner[binding[c].token]
    /\ \A c, d \in Clients :
          binding[c] # None /\ binding[d] # None /\ binding[c].token = binding[d].token
             => c = d

\* A selection under way is of the token its connection is bound to, and carries
\* what the connection is bound to.
SelectionFits ==
    LET b == binding[step.client]
    IN /\ b # None /\ b.token = step.token
       /\ step.at = "load" => b.realm = step.realm
       /\ step.at = "load" /\ row[step.token] # None => step.token \in selected
       /\ step.at # "load" =>
             /\ step.token \in selected
             /\ step.session = [account |-> b.account, realm |-> b.realm]

\* A login under way is of a token that no connection is bound to.
LoginFits ==
    /\ step.session = [account |-> owner[step.token], realm |-> NoRealm]
    /\ \A c \in Clients : binding[c] # None => binding[c].token # step.token

StepFits ==
    step # None =>
       /\ owner[step.token] # NoAccount
       /\ IF step.at # "load" /\ step.login THEN LoginFits ELSE SelectionFits
       /\ step.at = "zadd" /\ row[step.token] # None => row[step.token] = step.session

\* What a command has read of a token is of its account; a row it found missing
\* or took away can be back by a selection only.
Seen(view) == Written(view.token) /\ view.account = owner[view.token]

CommandFits ==
    command # None =>
       /\ command.at = "scan" =>
             /\ \A t \in command.todo : Written(t)
             /\ \A v \in command.views : Seen(v)
             /\ command.stale # None =>
                   /\ Written(command.stale)
                   /\ row[command.stale] # None => command.stale \in selected
       /\ command.at # "scan" => \A v \in command.todo : Seen(v)
       /\ command.at \in {"del", "zrem"} => Seen(command.view)
       /\ command.at = "zrem" => command.view.token \in revoked

\* A notice under way is about an account of which a session was revoked.
Kicked(m) == m.kind = "notice" => \E t \in revoked : owner[t] = m.account

NoticesFit ==
    \A n \in Links : \A i \in 1 .. Len(toLogin[n]) : Kicked(toLogin[n][i])

Inv ==
    /\ TypeOK
    /\ RowsFit /\ BindingsFit /\ StepFits /\ CommandFits /\ NoticesFit
    /\ RowMatchesBinding /\ RowIsIndexed /\ RevokedIsGone


-----------------------------------------------------------------------------
(* What the constants and the types give *)

\* A non-empty set of naturals has a least element.
LEMMA LeastNatural ==
    ASSUME NEW T \in SUBSET Nat, T # {}
    PROVE  \E n \in T : \A m \in T : n <= m
<1> DEFINE Downs == {1 .. n : n \in T}
<1>1. Downs \subseteq FiniteSubsetsOf(Nat) /\ Downs # {}
    <2>1. \A n \in T : IsFiniteSet(1 .. n) /\ 1 .. n \in SUBSET Nat
        BY FS_Interval
    <2> QED
        BY <2>1 DEF FiniteSubsetsOf
<1>2. PICK low \in Downs : \A d \in Downs : <<d, low>> \notin StrictSubsetOrdering(Nat)
    <2> HIDE DEF Downs
    <2> QED
        BY <1>1, FS_StrictSubsetOrderingWellFounded, WFMin
<1>3. PICK n \in T : low = 1 .. n
    OBVIOUS
<1>4. ASSUME NEW m \in T, m < n PROVE FALSE
    <2>1. 1 .. m \in Downs /\ n \in 1 .. n /\ n \notin 1 .. m
        BY <1>4
    <2>2. 1 .. m \subseteq 1 .. n /\ 1 .. m \subseteq Nat /\ 1 .. n \subseteq Nat
        BY <1>4
    <2> QED
        BY <1>2, <1>3, <2>1, <2>2 DEF StrictSubsetOrdering
<1> QED
    BY <1>4

\* The lowest member of a set of naturals is one of its members.
LEMMA LowestIsMember ==
    ASSUME NEW S \in SUBSET Nat, S # {}
    PROVE  Lowest(S) \in S
<1>1. \E n \in S : \A m \in S : n <= m
    BY LeastNatural
<1> QED
    BY <1>1 DEF Lowest

\* The fields of a step.
LEMMA StepFields ==
    ASSUME TypeOK, step # None
    PROVE  /\ step \in Steps
           /\ step.client \in Clients /\ step.token \in Tokens
           /\ step.at \in {"load", "set", "zadd"}
           /\ step.at = "load" => step.realm \in Realms
           /\ step.at # "load" =>
                 /\ step.login \in BOOLEAN /\ step.session \in Sessions
                 /\ [step EXCEPT !.at = "zadd"] \in Steps
                 /\ [step EXCEPT !.at = "zadd"].at = "zadd"
                 /\ [step EXCEPT !.at = "zadd"].login = step.login
                 /\ [step EXCEPT !.at = "zadd"].client = step.client
                 /\ [step EXCEPT !.at = "zadd"].token = step.token
                 /\ [step EXCEPT !.at = "zadd"].session = step.session
<1>1. step \in Steps
    BY DEF TypeOK
<1>2. CASE step \in [at : {"load"}, client : Clients, token : Tokens, realm : Realms]
    BY <1>1, <1>2
<1>3. CASE step \in [at : {"set", "zadd"}, login : BOOLEAN, client : Clients,
                     token : Tokens, session : Sessions]
    <2>1. [step EXCEPT !.at = "zadd"]
              \in [at : {"set", "zadd"}, login : BOOLEAN, client : Clients,
                   token : Tokens, session : Sessions]
        BY <1>3
    <2> QED
        BY <1>1, <1>3, <2>1 DEF Steps
<1> QED
    BY <1>1, <1>2, <1>3 DEF Steps

\* The fields of a command.
LEMMA CommandFields ==
    ASSUME TypeOK, command # None
    PROVE  /\ command \in Commands
           /\ command.at \in {"scan", "next", "del", "zrem"}
           /\ command.at = "scan" =>
                 command \in [at : {"scan"}, do : {"list", "kickAll", "extend"},
                              scope : AllScopes, todo : SUBSET Tokens,
                              views : SUBSET Views, stale : Tokens \cup {None}]
           /\ command.at = "next" =>
                 command \in [at : {"next"}, do : {"kick", "kickAll", "extend"},
                              todo : SUBSET Views]
           /\ command.at \in {"del", "zrem"} =>
                 command \in [at : {"del", "zrem"}, do : {"kick", "kickAll"},
                              todo : SUBSET Views, view : Views]
BY DEF TypeOK, Commands

-----------------------------------------------------------------------------
(* Frames: what a step that leaves some variables alone preserves *)

LEMMA DataKept ==
    ASSUME Inv, UNCHANGED <<row, index, owner, selected, revoked, step, binding>>
    PROVE  /\ RowsFit' /\ BindingsFit' /\ StepFits'
           /\ RowMatchesBinding' /\ RowIsIndexed' /\ RevokedIsGone'
BY DEF Inv, RowsFit, BindingsFit, StepFits, LoginFits, SelectionFits, Written,
       RowMatchesBinding, RowIsIndexed, RevokedIsGone, Saving

LEMMA CommandKept ==
    ASSUME Inv, UNCHANGED <<row, owner, selected, revoked, step, command>>
    PROVE  CommandFits'
BY DEF Inv, CommandFits, Seen, Written

LEMMA NoticesKept ==
    ASSUME Inv, UNCHANGED toLogin, UNCHANGED owner, revoked \subseteq revoked'
    PROVE  NoticesFit'
BY DEF Inv, NoticesFit, Kicked

-----------------------------------------------------------------------------
(* The steps of LoginApp on the store *)

LEMMA LoginStep ==
    ASSUME Inv, NEW c \in Clients, NEW a \in Accounts, HandleLogin(c, a)
    PROVE  Inv'
<1> DEFINE t == Lowest(Fresh)
<1>1. TypeOK
    BY DEF Inv
<1>2. t \in Tokens /\ owner[t] = NoAccount /\ step = None
    <2>1. Fresh \in SUBSET Nat /\ Fresh # {}
        BY ConstantsAssumption DEF Fresh, HandleLogin
    <2>2. t \in Fresh
        BY <2>1, LowestIsMember
    <2> QED
        BY <2>2 DEF Fresh, HandleLogin
<1> DEFINE s == [account |-> a, realm |-> NoRealm]
           new == [at |-> "set", login |-> TRUE, client |-> c, token |-> t, session |-> s]
<1>3. owner' = [owner EXCEPT ![t] = a] /\ step' = new
    BY DEF HandleLogin
<1> HIDE DEF t
<1>4. s \in Sessions /\ new \in Steps
    BY <1>2 DEF Sessions, Steps
<1>5. TypeOK'
    BY <1>1, <1>2, <1>3, <1>4 DEF TypeOK, HandleLogin, storeVars, linkVars
<1>6. \A u \in Tokens : Written(u) => u # t /\ owner'[u] = owner[u] /\ Written(u)'
    BY <1>1, <1>2, <1>3, ConstantsAssumption DEF Written, TypeOK
<1>7. RowsFit'
    BY <1>6 DEF Inv, RowsFit, HandleLogin, storeVars
<1>8. BindingsFit'
    <2>1. \A d \in Clients : binding[d] # None => binding[d].token \in Tokens
        BY <1>1, ConstantsAssumption DEF TypeOK, Bindings
    <2> QED
        BY <1>6, <2>1 DEF Inv, BindingsFit, HandleLogin
<1>9. StepFits'
    <2>1. \A d \in Clients : binding[d] # None => binding[d].token # t
        BY <1>2 DEF Inv, BindingsFit, Written
    <2>2. owner'[t] = a /\ a # NoAccount
        BY <1>1, <1>2, <1>3, ConstantsAssumption DEF TypeOK
    <2>3. new.at = "set" /\ new.login /\ new.token = t /\ new.session = s
        OBVIOUS
    <2> HIDE DEF new
    <2> QED
        BY <1>3, <2>1, <2>2, <2>3 DEF StepFits, LoginFits, HandleLogin
<1>10. CommandFits'
    <2> QED
        BY <1>1, <1>6, CommandFields, ConstantsAssumption
        DEF Inv, CommandFits, Seen, HandleLogin, Views, storeVars
<1>11. NoticesFit'
    BY <1>1, <1>6 DEF Inv, NoticesFit, Kicked, HandleLogin, linkVars, TypeOK, RowsFit
<1>12. RowMatchesBinding' /\ RowIsIndexed' /\ RevokedIsGone'
    BY <1>2 DEF Inv, RowMatchesBinding, RowIsIndexed, RevokedIsGone, Saving,
        HandleLogin, storeVars
<1> QED
    BY <1>5, <1>7, <1>8, <1>9, <1>10, <1>11, <1>12 DEF Inv

LEMMA SelectStep ==
    ASSUME Inv, NEW c \in Clients, NEW r \in Realms, HandleSelectRealm(c, r)
    PROVE  Inv'
<1> DEFINE b == binding[c]
           new == [at |-> "load", client |-> c, token |-> b.token, realm |-> r]
<1>1. TypeOK
    BY DEF Inv
<1>2. step = None /\ b # None /\ b \in Bindings
    BY <1>1 DEF HandleSelectRealm, TypeOK
<1>3. b.token \in Tokens /\ b.account \in Accounts /\ [b EXCEPT !.realm = r] \in Bindings
    BY <1>2 DEF Bindings
<1>4. /\ binding' = [binding EXCEPT ![c] = [b EXCEPT !.realm = r]]
      /\ step' = new
      /\ selected \subseteq selected' /\ selected' \subseteq selected \cup {b.token}
      /\ row[b.token] # None => b.token \in selected'
    BY <1>3 DEF HandleSelectRealm
<1>5. /\ new \in Steps /\ new # None /\ new.at = "load" /\ new.client = c
      /\ new.token = b.token /\ new.realm = r
    BY <1>3, ConstantsAssumption DEF Steps
<1>6. /\ binding'[c] # None /\ binding'[c].token = b.token
      /\ binding'[c].realm = r /\ binding'[c].account = b.account
      /\ \A d \in Clients : d # c => binding'[d] = binding[d]
    BY <1>1, <1>2, <1>3, <1>4, ConstantsAssumption DEF TypeOK, Bindings
<1>7. UNCHANGED <<row, index, open, link, transport, peer, live, toDaemon, toLogin,
                  command, owner, revoked>>
    BY DEF HandleSelectRealm, storeVars, linkVars
<1>8. TypeOK'
    BY <1>1, <1>3, <1>4, <1>5, <1>7 DEF TypeOK
<1> HIDE DEF b, new
<1>9. \A t : Written(t)' = Written(t)
    BY <1>2, <1>4, <1>5, <1>7 DEF Written
<1>10. RowsFit'
    BY <1>7, <1>9 DEF Inv, RowsFit
<1>11. BindingsFit'
    BY <1>2, <1>6, <1>7, <1>9 DEF Inv, BindingsFit, b
<1>12. StepFits'
    BY <1>2, <1>4, <1>5, <1>6, <1>7 DEF Inv, StepFits, SelectionFits, BindingsFit, Written, b
<1>13. CommandFits'
    BY <1>4, <1>7, <1>9 DEF Inv, CommandFits, Seen
<1>14. NoticesFit'
    BY <1>7, NoticesKept
<1>15. RowMatchesBinding'
    BY <1>2, <1>4, <1>5, <1>6, <1>7 DEF Inv, RowMatchesBinding, Saving
<1>16. RowIsIndexed' /\ RevokedIsGone'
    BY <1>2, <1>4, <1>7 DEF Inv, RowIsIndexed, RevokedIsGone, Saving
<1> QED
    BY <1>8, <1>10, <1>11, <1>12, <1>13, <1>14, <1>15, <1>16 DEF Inv

LEMMA LoadStep == ASSUME Inv, LoadBeforePatch PROVE Inv'
<1> DEFINE t == step.token
           b == binding[step.client]
           s == [row[t] EXCEPT !.realm = step.realm]
           new == [at |-> "set", login |-> FALSE, client |-> step.client,
                   token |-> t, session |-> s]
<1>1. TypeOK
    BY DEF Inv
<1>2. /\ step # None /\ step.at = "load" /\ t \in Tokens /\ step.client \in Clients
      /\ step.realm \in Realms
      /\ step' = IF row[t] = None THEN None ELSE new
      /\ UNCHANGED <<row, index, open, binding, link, transport, peer, live, toDaemon,
                     toLogin, command, owner, selected, revoked>>
    BY <1>1, StepFields DEF LoadBeforePatch, storeVars, linkVars, pastVars
<1>3. /\ b # None /\ b.token = t /\ b.realm = step.realm /\ b.account = owner[t]
      /\ row[t] # None => t \in selected /\ row[t].account = owner[t]
      /\ owner[t] # NoAccount
    BY <1>2 DEF Inv, StepFits, SelectionFits, BindingsFit, RowsFit
<1>4. row[t] # None => /\ s = [account |-> b.account, realm |-> b.realm]
                       /\ s \in Sessions /\ new \in Steps
    <2> SUFFICES ASSUME row[t] # None
                 PROVE  /\ s = [account |-> b.account, realm |-> b.realm]
                        /\ s \in Sessions /\ new \in Steps
        OBVIOUS
    <2>1. row[t] \in Sessions
        BY <1>1, <1>2 DEF TypeOK
    <2>2. s = [account |-> b.account, realm |-> b.realm] /\ s \in Sessions
        BY <1>2, <1>3, <2>1 DEF Sessions
    <2> HIDE DEF s
    <2> QED
        BY <1>2, <2>2 DEF Steps
<1>5. /\ new.at = "set" /\ ~ new.login /\ new.client = step.client
      /\ new.token = t /\ new.session = s
    OBVIOUS
<1> HIDE DEF s, new
<1>6. TypeOK'
    BY <1>1, <1>2, <1>4 DEF TypeOK
<1>7. \A u : Written(u)' = Written(u)
    BY <1>2, <1>5 DEF Written
<1>8. RowsFit' /\ BindingsFit'
    BY <1>2, <1>7 DEF Inv, RowsFit, BindingsFit
<1>9. StepFits'
    BY <1>2, <1>3, <1>4, <1>5 DEF StepFits, SelectionFits
<1>10. CommandFits'
    BY <1>2, <1>7 DEF Inv, CommandFits, Seen
<1>11. NoticesFit'
    BY <1>2, NoticesKept
<1>12. RowMatchesBinding' /\ RowIsIndexed' /\ RevokedIsGone'
    <2>1. \A u : Saving(u) => Saving(u)' \/ row[u] = None
        BY <1>2, <1>4, <1>5, ConstantsAssumption DEF Saving
    <2> QED
        BY <1>2, <2>1 DEF Inv, RowMatchesBinding, RowIsIndexed, RevokedIsGone
<1> QED
    BY <1>6, <1>8, <1>9, <1>10, <1>11, <1>12 DEF Inv

LEMMA SaveFirstStep == ASSUME Inv, SaveFirst PROVE Inv'
<1> DEFINE t == step.token
<1>1. TypeOK
    BY DEF Inv
<1>2. /\ step # None /\ step.at = "set" /\ t \in Tokens
      /\ step.session \in Sessions /\ step.session # None
      /\ row' = [row EXCEPT ![t] = step.session]
      /\ UNCHANGED <<index, open, binding, link, transport, peer, live, toDaemon,
                     toLogin, command, owner, selected, revoked>>
    BY <1>1, StepFields, ConstantsAssumption
    DEF SaveFirst, Set, linkVars, pastVars
<1>3. /\ step' \in Steps /\ step' # None /\ step'.at = "zadd"
      /\ step'.login = step.login /\ step'.client = step.client
      /\ step'.token = t /\ step'.session = step.session
    BY <1>1, <1>2, StepFields, ConstantsAssumption DEF SaveFirst
<1>4. owner[t] # NoAccount /\ step.session.account = owner[t]
    <2>1. CASE step.login
        BY <1>2, <2>1 DEF Inv, StepFits, LoginFits
    <2>2. CASE ~ step.login
        <3>1. SelectionFits /\ owner[t] # NoAccount /\ step.client \in Clients
            BY <1>1, <1>2, <2>2, StepFields DEF Inv, StepFits
        <3>2. step.session.account = binding[step.client].account
            BY <1>2, <3>1 DEF SelectionFits
        <3>3. binding[step.client].account = owner[t]
            BY <3>1 DEF Inv, BindingsFit, SelectionFits
        <3> QED
            BY <3>1, <3>2, <3>3
    <2> QED
        BY <2>1, <2>2
<1>5. ~ step.login => t \in selected
    BY <1>2 DEF Inv, StepFits, SelectionFits
<1>6. row'[t] = step.session /\ \A u \in Tokens : u # t => row'[u] = row[u]
    BY <1>1, <1>2 DEF TypeOK
<1>7. TypeOK'
    <2>1. row' \in [Tokens -> Sessions \cup {None}]
        BY <1>1, <1>2 DEF TypeOK
    <2> QED
        BY <1>1, <1>2, <1>3, <2>1 DEF TypeOK
<1>8. /\ \A u : Written(u) \/ u = t => Written(u)'
      /\ \A u : Written(u)' => Written(u) \/ u = t
      /\ step.login => ~ Written(t)
    BY <1>2, <1>3, <1>4 DEF Written
<1>9. RowsFit'
    <2>1. ASSUME NEW u \in Tokens, row'[u] # None
          PROVE  row'[u].account = owner'[u] /\ Written(u)'
        <3>1. owner' = owner
            BY <1>2
        <3>2. CASE u = t
            BY <1>4, <1>6, <1>8, <3>1, <3>2
        <3>3. CASE u # t
            BY <1>6, <1>8, <2>1, <3>1, <3>3 DEF Inv, RowsFit
        <3> QED
            BY <3>2, <3>3
    <2>2. \A u \in Tokens : u \in index' \/ u \in revoked' => Written(u)'
        BY <1>2, <1>8 DEF Inv, RowsFit
    <2> QED
        BY <2>1, <2>2 DEF RowsFit
<1>10. BindingsFit'
    BY <1>2, <1>8 DEF Inv, BindingsFit
<1>11. StepFits'
    BY <1>2, <1>3, <1>4, <1>6 DEF Inv, StepFits, LoginFits, SelectionFits
<1>12. CommandFits'
    BY <1>1, <1>2, <1>5, <1>6, <1>8, CommandFields DEF Inv, CommandFits, Seen
<1>13. NoticesFit'
    BY <1>2, NoticesKept
<1>14. RowMatchesBinding'
    <2>1. \A c \in Clients : binding[c] # None => binding[c].token \in Tokens
        BY <1>1, ConstantsAssumption DEF TypeOK, Bindings
    <2> QED
        BY <1>2, <1>3, <1>6, <2>1 DEF Inv, RowMatchesBinding, Saving
<1>15. RowIsIndexed'
    BY <1>2, <1>3, <1>6 DEF Inv, RowIsIndexed, Saving
<1>16. RevokedIsGone'
    BY <1>1, <1>2, <1>5, <1>6, <1>8 DEF Inv, RevokedIsGone, RowsFit, TypeOK
<1> QED
    BY <1>7, <1>9, <1>10, <1>11, <1>12, <1>13, <1>14, <1>15, <1>16 DEF Inv

LEMMA SaveSecondStep == ASSUME Inv, SaveSecond PROVE Inv'
<1> DEFINE t == step.token
           c == step.client
           bound == [account |-> step.session.account, realm |-> NoRealm, token |-> t]
<1>1. TypeOK
    BY DEF Inv
<1>2. /\ step # None /\ step.at = "zadd" /\ t \in Tokens /\ c \in Clients
      /\ step.session \in Sessions /\ step.login \in BOOLEAN
      /\ index' = index \cup {t} /\ step' = None
      /\ binding' = IF step.login THEN [binding EXCEPT ![c] = bound] ELSE binding
      /\ UNCHANGED <<row, open, link, transport, peer, live, toDaemon,
                     toLogin, command, owner, selected, revoked>>
    BY <1>1, StepFields DEF SaveSecond, Zadd, linkVars, pastVars
<1>3. bound \in Bindings /\ bound # None
    BY <1>2, ConstantsAssumption DEF Bindings, Sessions
<1>4. step.login => LoginFits
    BY <1>2 DEF Inv, StepFits
<1>5. /\ bound.token = t /\ bound.realm = NoRealm
      /\ bound.account = step.session.account
    OBVIOUS
<1>6. row[t] # None => row[t] = step.session
    BY <1>2 DEF Inv, StepFits
<1>7. \A u : Written(u)' <=> Written(u)
    BY <1>2 DEF Written
<1>8. Written(t)
    BY <1>2 DEF Inv, StepFits, Written
<1> HIDE DEF bound
<1>9. TypeOK'
    <2>1. binding' \in [Clients -> Bindings \cup {None}]
        BY <1>1, <1>2, <1>3 DEF TypeOK
    <2> QED
        BY <1>1, <1>2, <2>1 DEF TypeOK
<1>10. RowsFit'
    BY <1>2, <1>7, <1>8 DEF Inv, RowsFit
<1>11. \A d \in Clients : binding'[d] =
            IF step.login /\ d = c THEN bound ELSE binding[d]
    BY <1>1, <1>2 DEF TypeOK
<1>12. BindingsFit'
    BY <1>2, <1>3, <1>4, <1>5, <1>7, <1>8, <1>11 DEF Inv, BindingsFit, LoginFits
<1>13. StepFits'
    BY <1>2 DEF StepFits
<1>14. CommandFits'
    BY <1>2, <1>7 DEF Inv, CommandFits, Seen
<1>15. NoticesFit'
    BY <1>2, NoticesKept
<1>16. RowMatchesBinding'
    <2> SUFFICES ASSUME NEW d \in Clients, binding'[d] # None,
                        row[binding'[d].token] # None
                 PROVE  row[binding'[d].token] =
                            [account |-> binding'[d].account, realm |-> binding'[d].realm]
        BY <1>2 DEF RowMatchesBinding
    <2>1. CASE step.login /\ d = c
        BY <1>4, <1>5, <1>6, <1>11, <2>1 DEF LoginFits
    <2>2. CASE ~ (step.login /\ d = c) /\ binding[d].token # t
        BY <1>11, <2>2 DEF Inv, RowMatchesBinding, Saving
    <2>3. CASE ~ (step.login /\ d = c) /\ binding[d].token = t
        <3>1. ~ step.login
            BY <1>4, <1>11, <2>3 DEF LoginFits
        <3>2. SelectionFits
            BY <1>2, <3>1 DEF Inv, StepFits
        <3>3. d = c
            BY <1>2, <1>11, <2>3, <3>2 DEF Inv, BindingsFit, SelectionFits
        <3> QED
            BY <1>2, <1>6, <1>11, <2>3, <3>1, <3>2, <3>3 DEF SelectionFits
    <2> QED
        BY <2>1, <2>2, <2>3
<1>17. RowIsIndexed' /\ RevokedIsGone'
    BY <1>2 DEF Inv, RowIsIndexed, RevokedIsGone, Saving
<1> QED
    BY <1>9, <1>10, <1>12, <1>13, <1>14, <1>15, <1>16, <1>17 DEF Inv

LEMMA CleanupStep == ASSUME Inv, CleanupDisconnected PROVE Inv'
<1>1. TypeOK
    BY DEF Inv
<1>2. /\ step = None
      /\ \A c \in Clients : binding'[c] = binding[c] \/ binding'[c] = None
      /\ binding' \in [Clients -> Bindings \cup {None}]
      /\ UNCHANGED <<row, index, open, step, link, transport, peer, live, toDaemon,
                     toLogin, command, owner, selected, revoked>>
    BY <1>1 DEF CleanupDisconnected, TypeOK, storeVars, linkVars, pastVars
<1>3. TypeOK'
    BY <1>1, <1>2 DEF TypeOK
<1>4. RowsFit' /\ RowIsIndexed' /\ RevokedIsGone'
    BY <1>2 DEF Inv, RowsFit, RowIsIndexed, RevokedIsGone, Written, Saving
<1>5. BindingsFit' /\ StepFits' /\ RowMatchesBinding'
    BY <1>2 DEF Inv, BindingsFit, StepFits, RowMatchesBinding, Written, Saving
<1>6. CommandFits' /\ NoticesFit'
    BY <1>2, CommandKept, NoticesKept
<1> QED
    BY <1>3, <1>4, <1>5, <1>6 DEF Inv

\* A row that goes away, by expiry or by revocation, disturbs nothing that is
\* said of the rows that are there.
LEMMA RowGoes ==
    ASSUME Inv, NEW t \in Tokens, Del(t), revoked' \subseteq revoked \cup {t},
           revoked \subseteq revoked', row[t] # None \/ revoked' = revoked,
           UNCHANGED <<index, binding, step, owner, selected>>
    PROVE  /\ row' \in [Tokens -> Sessions \cup {None}] /\ row'[t] = None
           /\ \A u \in Tokens : row'[u] # None => row'[u] = row[u]
           /\ RowsFit' /\ BindingsFit' /\ StepFits'
           /\ RowMatchesBinding' /\ RowIsIndexed' /\ RevokedIsGone'
<1>1. TypeOK
    BY DEF Inv
<1>2. /\ row' \in [Tokens -> Sessions \cup {None}] /\ row'[t] = None
      /\ \A u \in Tokens : u # t => row'[u] = row[u]
    BY <1>1 DEF Del, TypeOK
<1>3. RowsFit' /\ BindingsFit' /\ RowIsIndexed'
    BY <1>2 DEF Inv, RowsFit, BindingsFit, RowIsIndexed, Written, Saving
<1>4. RevokedIsGone'
    BY <1>1, <1>2 DEF Inv, RevokedIsGone, TypeOK
<1>5. StepFits'
    <2>1. step # None => step.token \in Tokens
        BY <1>1, StepFields
    <2> QED
        BY <1>2, <2>1 DEF Inv, StepFits, LoginFits, SelectionFits
<1>6. RowMatchesBinding'
    <2>1. \A c \in Clients : binding[c] # None => binding[c].token \in Tokens
        BY <1>1, ConstantsAssumption DEF TypeOK, Bindings
    <2> QED
        BY <1>2, <2>1 DEF Inv, RowMatchesBinding, Saving
<1> QED
    BY <1>2, <1>3, <1>4, <1>5, <1>6

LEMMA ExpireStep == ASSUME Inv, NEW t \in Tokens, Expire(t) PROVE Inv'
<1>1. TypeOK
    BY DEF Inv
<1>2. /\ Del(t)
      /\ UNCHANGED <<index, open, binding, step, link, transport, peer, live, toDaemon,
                     toLogin, command, owner, selected, revoked>>
    BY DEF Expire, loginVars, linkVars, pastVars
<1>3. /\ row' \in [Tokens -> Sessions \cup {None}] /\ row'[t] = None
      /\ \A u \in Tokens : row'[u] # None => row'[u] = row[u]
      /\ RowsFit' /\ BindingsFit' /\ StepFits'
      /\ RowMatchesBinding' /\ RowIsIndexed' /\ RevokedIsGone'
    BY <1>2, RowGoes
<1>4. TypeOK'
    BY <1>1, <1>2, <1>3 DEF TypeOK
<1>5. CommandFits'
    BY <1>1, <1>2, <1>3, CommandFields DEF Inv, CommandFits, Seen, Written
<1>6. NoticesFit'
    BY <1>2, NoticesKept
<1> QED
    BY <1>3, <1>4, <1>5, <1>6 DEF Inv

-----------------------------------------------------------------------------
(* The steps of the daemon *)

\* A command that reads and decides, and changes nothing but itself.
LEMMA ReadingStep ==
    ASSUME Inv, command' \in Commands \cup {None}, CommandFits',
           UNCHANGED <<row, index, open, binding, step, link, transport, peer, live,
                       toDaemon, toLogin, owner, selected, revoked>>
    PROVE  Inv'
<1>1. TypeOK'
    BY DEF Inv, TypeOK
<1> QED
    BY <1>1, DataKept, NoticesKept DEF Inv

LEMMA KickSessionStep == ASSUME Inv, NEW t \in Tokens, HandleKickSession(t) PROVE Inv'
<1>1. TypeOK
    BY DEF Inv
<1>2. PICK v \in Views :
          /\ v = [account |-> row[t].account, realm |-> row[t].realm, token |-> t]
          /\ v.token = t /\ v.account = owner[t]
    BY <1>1 DEF HandleKickSession, TypeOK, Sessions, Views, Inv, RowsFit
<1>3. UNCHANGED <<row, index, open, binding, step, link, transport, peer, live,
                  toDaemon, toLogin, owner, selected, revoked>>
    BY DEF HandleKickSession, storeVars, loginVars, linkVars, pastVars
<1>4. Written(t)
    BY DEF HandleKickSession, Inv, RowsFit
<1>5. Seen(v)'
    BY <1>2, <1>3, <1>4 DEF Seen, Written
<1>6. command' = [at |-> "del", do |-> "kick", todo |-> {}, view |-> v]
    BY <1>2 DEF HandleKickSession
<1>7. /\ command' \in Commands /\ command'.at = "del"
      /\ command'.view = v /\ command'.todo = {}
    BY <1>2, <1>6 DEF Commands
<1>8. CommandFits'
    BY <1>5, <1>7 DEF CommandFits
<1> QED
    BY <1>3, <1>7, <1>8, ReadingStep

LEMMA BatchStep ==
    ASSUME Inv, NEW do \in {"list", "kickAll", "extend"}, NEW s \in AllScopes,
           HandleBatch(do, s)
    PROVE  Inv'
<1> DEFINE new == [at |-> "scan", do |-> do, scope |-> s,
                   todo |-> index, views |-> {}, stale |-> None]
<1>1. new \in Commands
    BY DEF Inv, TypeOK, Commands
<1>2. /\ new.at = "scan" /\ new.todo = index /\ new.views = {} /\ new.stale = None
      /\ command' = new
    BY DEF HandleBatch
<1> HIDE DEF new
<1>3. UNCHANGED <<row, index, open, binding, step, link, transport, peer, live,
                  toDaemon, toLogin, owner, selected, revoked>>
    BY DEF HandleBatch, storeVars, loginVars, linkVars, pastVars
<1>4. \A t \in index : Written(t)'
    BY <1>3 DEF Inv, RowsFit, Written, TypeOK
<1>5. CommandFits'
    BY <1>2, <1>4 DEF CommandFits
<1> QED
    BY <1>1, <1>2, <1>3, <1>5, ReadingStep

LEMMA ScanStep == ASSUME Inv, ScanNext PROVE Inv'
<1>1. TypeOK
    BY DEF Inv
<1>2. /\ command # None /\ command.at = "scan" /\ command.stale = None
      /\ command \in [at : {"scan"}, do : {"list", "kickAll", "extend"},
                      scope : AllScopes, todo : SUBSET Tokens,
                      views : SUBSET Views, stale : Tokens \cup {None}]
    BY <1>1, CommandFields DEF ScanNext
<1>3. UNCHANGED <<row, index, open, binding, step, link, transport, peer, live,
                  toDaemon, toLogin, owner, selected, revoked>>
    BY DEF ScanNext, storeVars, loginVars, linkVars, pastVars
<1>4. PICK t \in command.todo :
          command' = IF row[t] = None
                     THEN [command EXCEPT !.todo = @ \ {t}, !.stale = t]
                     ELSE [command EXCEPT !.todo = @ \ {t},
                               !.views = @ \cup {[account |-> row[t].account,
                                   realm |-> row[t].realm, token |-> t]}]
    BY DEF ScanNext
<1>5. t \in Tokens /\ Written(t)
    BY <1>2 DEF Inv, CommandFits
<1>6. /\ \A u : Written(u)' <=> Written(u)
      /\ \A v : Seen(v)' <=> Seen(v)
    BY <1>3 DEF Seen, Written
<1>7. CASE row[t] = None
    <2> DEFINE new == [command EXCEPT !.todo = @ \ {t}, !.stale = t]
    <2>1. /\ new \in [at : {"scan"}, do : {"list", "kickAll", "extend"},
                      scope : AllScopes, todo : SUBSET Tokens,
                      views : SUBSET Views, stale : Tokens \cup {None}]
          /\ new.at = "scan" /\ new.todo = command.todo \ {t}
          /\ new.views = command.views /\ new.stale = t
        BY <1>2, <1>5
    <2>2. command' = new
        BY <1>4, <1>7
    <2> HIDE DEF new
    <2>3. command' \in Commands
        BY <2>1, <2>2 DEF Commands
    <2>4. CommandFits'
        BY <1>2, <1>3, <1>5, <1>6, <1>7, <2>1, <2>2 DEF Inv, CommandFits
    <2> QED
        BY <1>3, <2>3, <2>4, ReadingStep
<1>8. CASE row[t] # None
    <2> DEFINE v == [account |-> row[t].account, realm |-> row[t].realm, token |-> t]
               new == [command EXCEPT !.todo = @ \ {t}, !.views = @ \cup {v}]
    <2>1. v \in Views /\ Seen(v)
        BY <1>1, <1>5, <1>8 DEF TypeOK, Sessions, Views, Seen, Inv, RowsFit
    <2>2. command' = new
        BY <1>4, <1>8
    <2> HIDE DEF v
    <2>3. /\ new \in [at : {"scan"}, do : {"list", "kickAll", "extend"},
                      scope : AllScopes, todo : SUBSET Tokens,
                      views : SUBSET Views, stale : Tokens \cup {None}]
          /\ new.at = "scan" /\ new.todo = command.todo \ {t}
          /\ new.views = command.views \cup {v} /\ new.stale = None
        BY <1>2, <1>5, <2>1
    <2> HIDE DEF new
    <2>4. command' \in Commands
        BY <2>2, <2>3 DEF Commands
    <2>5. CommandFits'
        BY <1>2, <1>3, <1>6, <2>1, <2>2, <2>3 DEF Inv, CommandFits
    <2> QED
        BY <1>3, <2>4, <2>5, ReadingStep
<1> QED
    BY <1>7, <1>8

LEMMA ListingStep == ASSUME Inv, ListingDone PROVE Inv'
<1> DEFINE chosen == {v \in command.views : Matches(command.scope, v)}
           new == [at |-> "next", do |-> command.do, todo |-> chosen]
<1>1. TypeOK
    BY DEF Inv
<1>2. /\ command # None /\ command.at = "scan"
      /\ command.do \in {"list", "kickAll", "extend"}
      /\ command.views \subseteq Views
    BY <1>1, CommandFields DEF ListingDone
<1>3. UNCHANGED <<row, index, open, binding, step, link, transport, peer, live,
                  toDaemon, toLogin, owner, selected, revoked>>
    BY DEF ListingDone, storeVars, loginVars, linkVars, pastVars
<1>4. chosen \subseteq Views /\ \A v \in chosen : Seen(v)
    BY <1>2 DEF Inv, CommandFits
<1>5. \/ command' = None
      \/ command' = new /\ command.do \in {"kickAll", "extend"}
    BY <1>2 DEF ListingDone
<1> HIDE DEF chosen
<1>6. new.at = "next" /\ new.todo = chosen
    OBVIOUS
<1>7. command' \in Commands \cup {None}
    BY <1>4, <1>5 DEF Commands
<1> HIDE DEF new
<1>8. \A v : Seen(v)' <=> Seen(v)
    BY <1>3 DEF Seen, Written
<1>9. CommandFits'
    BY <1>4, <1>5, <1>6, <1>8 DEF CommandFits
<1> QED
    BY <1>3, <1>7, <1>9, ReadingStep

LEMMA KickNextStep == ASSUME Inv, KickNext PROVE Inv'
<1>1. TypeOK
    BY DEF Inv
<1>2. /\ command # None /\ command.at = "next" /\ command.todo \subseteq Views
      /\ \A v \in command.todo : Seen(v)
    BY <1>1, CommandFields DEF KickNext, Inv, CommandFits
<1>3. UNCHANGED <<row, index, open, binding, step, link, transport, peer, live,
                  toDaemon, toLogin, owner, selected, revoked>>
    BY DEF KickNext, storeVars, loginVars, linkVars, pastVars
<1>4. PICK v \in command.todo :
          command' = [at |-> "del", do |-> "kickAll", view |-> v,
                      todo |-> command.todo \ {v}]
    BY DEF KickNext
<1>5. /\ command' \in Commands /\ command'.at = "del"
      /\ command'.view = v /\ command'.todo = command.todo \ {v}
    BY <1>2, <1>4 DEF Commands
<1>6. \A w : Seen(w)' <=> Seen(w)
    BY <1>3 DEF Seen, Written
<1>7. Seen(v)' /\ \A w \in command'.todo : Seen(w)'
    BY <1>2, <1>5, <1>6
<1>8. CommandFits'
    BY <1>5, <1>7 DEF CommandFits
<1> QED
    BY <1>3, <1>5, <1>8, ReadingStep

LEMMA ExtendStep == ASSUME Inv, ExtendNext PROVE Inv'
<1>1. TypeOK
    BY DEF Inv
<1>2. /\ command # None /\ command.at = "next"
      /\ command \in [at : {"next"}, do : {"kick", "kickAll", "extend"},
                      todo : SUBSET Views]
      /\ \A v \in command.todo : Seen(v)
    BY <1>1, CommandFields DEF ExtendNext, Inv, CommandFits
<1>3. UNCHANGED <<row, index, open, binding, step, link, transport, peer, live,
                  toDaemon, toLogin, owner, selected, revoked>>
    BY DEF ExtendNext, storeVars, loginVars, linkVars, pastVars
<1>4. PICK v \in command.todo :
          \/ command' = None
          \/ command' = [command EXCEPT !.todo = command.todo \ {v}]
    BY DEF ExtendNext
<1>5. /\ [command EXCEPT !.todo = command.todo \ {v}]
             \in [at : {"next"}, do : {"kick", "kickAll", "extend"}, todo : SUBSET Views]
      /\ [command EXCEPT !.todo = command.todo \ {v}].at = "next"
      /\ [command EXCEPT !.todo = command.todo \ {v}].todo = command.todo \ {v}
    BY <1>2
<1>6. /\ command' \in Commands \cup {None}
      /\ command' # None => command'.at = "next" /\ command'.todo \subseteq command.todo
    BY <1>4, <1>5 DEF Commands
<1>7. \A w : Seen(w)' <=> Seen(w)
    BY <1>3 DEF Seen, Written
<1>8. CommandFits'
    BY <1>2, <1>6, <1>7 DEF CommandFits
<1> QED
    BY <1>3, <1>6, <1>8, ReadingStep

\* An index entry is taken away of a token that has no row, or has one again by a
\* selection: nothing that can be listed is lost.
LEMMA EntryGoes ==
    ASSUME Inv, NEW t \in Tokens, Zrem(t), row[t] # None => t \in selected,
           UNCHANGED <<row, binding, step, owner, selected, revoked>>
    PROVE  /\ index' \subseteq Tokens
           /\ RowsFit' /\ BindingsFit' /\ StepFits'
           /\ RowMatchesBinding' /\ RowIsIndexed' /\ RevokedIsGone'
BY DEF Inv, TypeOK, Zrem, RowsFit, BindingsFit, StepFits, LoginFits, SelectionFits,
       Written, RowMatchesBinding, RowIsIndexed, RevokedIsGone, Saving

LEMMA HealStep == ASSUME Inv, Heal PROVE Inv'
<1>1. TypeOK
    BY DEF Inv
<1>2. /\ command # None /\ command.at = "scan" /\ command.stale # None
      /\ command \in [at : {"scan"}, do : {"list", "kickAll", "extend"},
                      scope : AllScopes, todo : SUBSET Tokens,
                      views : SUBSET Views, stale : Tokens \cup {None}]
    BY <1>1, CommandFields DEF Heal
<1>3. /\ Zrem(command.stale) /\ command' = [command EXCEPT !.stale = None]
      /\ UNCHANGED <<row, open, binding, step, link, transport, peer, live,
                     toDaemon, toLogin, owner, selected, revoked>>
    BY DEF Heal, loginVars, linkVars, pastVars
<1>4. /\ command.stale \in Tokens
      /\ row[command.stale] # None => command.stale \in selected
    BY <1>2 DEF Inv, CommandFits
<1>5. /\ index' \subseteq Tokens
      /\ RowsFit' /\ BindingsFit' /\ StepFits'
      /\ RowMatchesBinding' /\ RowIsIndexed' /\ RevokedIsGone'
    BY <1>3, <1>4, EntryGoes
<1>6. /\ command' \in [at : {"scan"}, do : {"list", "kickAll", "extend"},
                       scope : AllScopes, todo : SUBSET Tokens,
                       views : SUBSET Views, stale : Tokens \cup {None}]
      /\ command'.at = "scan" /\ command'.stale = None
      /\ command'.todo = command.todo /\ command'.views = command.views
    BY <1>2, <1>3
<1>7. command' \in Commands
    BY <1>6 DEF Commands
<1>8. TypeOK'
    BY <1>1, <1>3, <1>5, <1>7 DEF TypeOK
<1>9. CommandFits'
    BY <1>2, <1>3, <1>6 DEF Inv, CommandFits, Seen, Written
<1> QED
    BY <1>3, <1>5, <1>8, <1>9, NoticesKept DEF Inv

\* What is left of a batch after one of its rows.
LEMMA RestFacts ==
    ASSUME Inv, command # None, command.at \in {"del", "zrem"}
    PROVE  /\ Rest \in Commands \cup {None}
           /\ Rest # None => Rest.at = "next" /\ Rest.todo = command.todo
           /\ \A v \in command.todo : Seen(v)
<1>1. /\ command.do \in {"kick", "kickAll"} /\ command.todo \subseteq Views
      /\ \A v \in command.todo : Seen(v)
    BY CommandFields DEF Inv, CommandFits
<1> QED
    BY <1>1 DEF Rest, Commands

LEMMA RevokeRowStep == ASSUME Inv, RevokeRow PROVE Inv'
<1> DEFINE t == command.view.token
<1>1. TypeOK
    BY DEF Inv
<1>2. /\ command # None /\ command.at = "del"
      /\ command \in [at : {"del", "zrem"}, do : {"kick", "kickAll"},
                      todo : SUBSET Views, view : Views]
    BY <1>1, CommandFields DEF RevokeRow
<1>3. UNCHANGED <<index, open, binding, step, link, transport, peer, live, toDaemon,
                  toLogin, owner, selected>>
    BY DEF RevokeRow, loginVars, linkVars
<1>4. t \in Tokens /\ Seen(command.view) /\ \A v \in command.todo : Seen(v)
    BY <1>2 DEF Inv, CommandFits, Views
<1>5. \A v : Seen(v)' <=> Seen(v)
    BY <1>3 DEF Seen, Written
<1>6. CASE row[t] = None
    <2>1. command' = Rest /\ UNCHANGED <<row, revoked>>
        BY <1>6 DEF RevokeRow
    <2>2. /\ command' \in Commands \cup {None}
          /\ command' # None => command'.at = "next" /\ command'.todo = command.todo
        BY <1>2, <2>1, RestFacts
    <2>3. CommandFits'
        BY <1>4, <1>5, <2>2 DEF CommandFits
    <2> QED
        BY <1>3, <2>1, <2>2, <2>3, ReadingStep
<1>7. CASE row[t] # None
    <2>1. /\ Del(t) /\ revoked' = revoked \cup {t}
          /\ command' = [command EXCEPT !.at = "zrem"]
        BY <1>7 DEF RevokeRow
    <2>2. /\ row' \in [Tokens -> Sessions \cup {None}]
          /\ RowsFit' /\ BindingsFit' /\ StepFits'
          /\ RowMatchesBinding' /\ RowIsIndexed' /\ RevokedIsGone'
        BY <1>3, <1>4, <1>7, <2>1, RowGoes
    <2>3. /\ command' \in [at : {"del", "zrem"}, do : {"kick", "kickAll"},
                           todo : SUBSET Views, view : Views]
          /\ command'.at = "zrem" /\ command'.view = command.view
          /\ command'.todo = command.todo
        BY <1>2, <2>1
    <2>4. command' \in Commands
        BY <2>3 DEF Commands
    <2>5. TypeOK'
        BY <1>1, <1>3, <1>4, <2>1, <2>2, <2>4 DEF TypeOK
    <2>6. CommandFits'
        BY <1>3, <1>4, <2>1, <2>3 DEF CommandFits, Seen, Written
    <2>7. NoticesFit'
        BY <1>3, <2>1, NoticesKept
    <2> QED
        BY <2>2, <2>5, <2>6, <2>7 DEF Inv
<1> QED
    BY <1>6, <1>7

\* What a message at the end of a queue, or the first one taken off, means for
\* the notices under way.
LEMMA MessageAdded ==
    ASSUME Inv, NEW n \in Links, NEW m \in Messages, Kicked(m),
           toLogin' = [toLogin EXCEPT ![n] = Append(@, m)],
           UNCHANGED <<owner, revoked>>
    PROVE  toLogin' \in [Links -> Seq(Messages)] /\ NoticesFit'
<1>1. toLogin \in [Links -> Seq(Messages)]
    BY DEF Inv, TypeOK
<1>2. Append(toLogin[n], m) \in Seq(Messages)
    BY <1>1
<1>3. toLogin' \in [Links -> Seq(Messages)]
    BY <1>1, <1>2
<1>4. \A x : Kicked(x)' <=> Kicked(x)
    BY DEF Kicked
<1>5. ASSUME NEW k \in Links, NEW i \in 1 .. Len(toLogin'[k])
      PROVE  Kicked(toLogin[k][i])'
    <2>1. CASE k = n
        <3>1. toLogin'[k] = Append(toLogin[n], m)
            BY <1>1, <2>1
        <3>2. CASE i \in 1 .. Len(toLogin[n])
            <4>1. toLogin'[k][i] = toLogin[n][i]
                BY <1>1, <3>1, <3>2
            <4>2. Kicked(toLogin[n][i])
                BY <3>2 DEF Inv, NoticesFit
            <4> QED
                BY <4>1, <4>2 DEF Kicked
        <3>3. CASE i = Len(toLogin[n]) + 1
            <4>1. toLogin'[k][i] = m
                BY <1>1, <3>1, <3>3
            <4> QED
                BY <4>1 DEF Kicked
        <3> QED
            BY <1>1, <1>5, <3>1, <3>2, <3>3
    <2>2. CASE k # n
        <3>1. toLogin'[k] = toLogin[k]
            BY <1>1, <2>2
        <3>2. Kicked(toLogin[k][i])
            BY <1>5, <3>1 DEF Inv, NoticesFit
        <3> QED
            BY <3>1, <3>2 DEF Kicked
    <2> QED
        BY <2>1, <2>2
<1> QED
    BY <1>3, <1>5 DEF NoticesFit

LEMMA RevokeIndexStep == ASSUME Inv, RevokeIndex PROVE Inv'
<1> DEFINE v == command.view
<1>1. TypeOK
    BY DEF Inv
<1>2. /\ command # None /\ command.at = "zrem" /\ v \in Views
      /\ Seen(v) /\ v.token \in revoked
    BY <1>1, CommandFields DEF RevokeIndex, Inv, CommandFits
<1>3. /\ Zrem(v.token) /\ Notify(v) /\ command' = Rest
      /\ UNCHANGED <<row, open, binding, step, link, transport, peer, live, toDaemon,
                     owner, selected, revoked>>
    BY DEF RevokeIndex, loginVars, pastVars
<1>4. v.token \in Tokens /\ (row[v.token] # None => v.token \in selected)
    BY <1>2 DEF Views, Inv, RevokedIsGone
<1>5. /\ index' \subseteq Tokens
      /\ RowsFit' /\ BindingsFit' /\ StepFits'
      /\ RowMatchesBinding' /\ RowIsIndexed' /\ RevokedIsGone'
    BY <1>3, <1>4, EntryGoes
<1>6. toLogin' \in [Links -> Seq(Messages)] /\ NoticesFit'
    <2>1. CASE peer # None /\ peer \in live
        <3> DEFINE m == [kind |-> "notice", account |-> v.account, realm |-> v.realm]
        <3>1. m \in Messages /\ Kicked(m) /\ peer \in Links
            BY <1>1, <1>2, <2>1 DEF Messages, Views, Kicked, Seen, TypeOK
        <3>2. toLogin' = [toLogin EXCEPT ![peer] = Append(@, m)]
            BY <1>3, <2>1 DEF Notify
        <3> HIDE DEF m
        <3> QED
            BY <1>3, <3>1, <3>2, MessageAdded
    <2>2. CASE ~ (peer # None /\ peer \in live)
        <3>1. toLogin' = toLogin
            BY <1>3, <2>2 DEF Notify
        <3> QED
            BY <1>1, <1>3, <3>1, NoticesKept DEF TypeOK
    <2> QED
        BY <2>1, <2>2
<1>7. /\ command' \in Commands \cup {None}
      /\ command' # None => command'.at = "next" /\ command'.todo = command.todo
      /\ \A w \in command.todo : Seen(w)
    BY <1>2, <1>3, RestFacts
<1>8. TypeOK'
    BY <1>1, <1>3, <1>5, <1>6, <1>7 DEF TypeOK
<1>9. \A w : Seen(w)' <=> Seen(w)
    BY <1>3 DEF Seen, Written
<1>10. CommandFits'
    BY <1>7, <1>9 DEF CommandFits
<1> QED
    BY <1>5, <1>6, <1>8, <1>10 DEF Inv

-----------------------------------------------------------------------------
(* Connections, and the link between the two *)

\* A step that leaves the store, the bindings and the command alone.
LEMMA NetworkStep ==
    ASSUME Inv, TypeOK', NoticesFit',
           UNCHANGED <<row, index, binding, step, command, owner, selected, revoked>>
    PROVE  Inv'
BY DataKept, CommandKept DEF Inv

LEMMA ConnectionStep ==
    ASSUME Inv, Connect \/ \E c \in Clients : Disconnect(c)
    PROVE  Inv'
<1>1. CASE Connect
    <2>1. Lowest(Slots) \in Clients
        <3>1. Slots \in SUBSET Nat /\ Slots # {}
            BY <1>1, ConstantsAssumption DEF Connect, Slots
        <3> QED
            BY <3>1, LowestIsMember DEF Slots
    <2>2. TypeOK'
        BY <1>1, <2>1 DEF Inv, TypeOK, Connect, storeVars, linkVars, pastVars
    <2>3. NoticesFit'
        BY <1>1, NoticesKept DEF Connect, linkVars, pastVars
    <2> QED
        BY <1>1, <2>2, <2>3, NetworkStep DEF Connect, storeVars, linkVars, pastVars
<1>2. ASSUME NEW c \in Clients, Disconnect(c)
      PROVE  Inv'
    <2>1. TypeOK'
        BY <1>2 DEF Inv, TypeOK, Disconnect, storeVars, linkVars, pastVars
    <2>2. NoticesFit'
        BY <1>2, NoticesKept DEF Disconnect, linkVars, pastVars
    <2> QED
        BY <1>2, <2>1, <2>2, NetworkStep DEF Disconnect, storeVars, linkVars, pastVars
<1> QED
    BY <1>1, <1>2

LEMMA LinkDownStep == ASSUME Inv, MarkMachineLinkDown PROVE Inv'
<1>1. TypeOK'
    BY DEF Inv, TypeOK, MarkMachineLinkDown, storeVars, loginVars, pastVars
<1>2. NoticesFit'
    BY NoticesKept DEF MarkMachineLinkDown, pastVars
<1> QED
    BY <1>1, <1>2, NetworkStep DEF MarkMachineLinkDown, storeVars, loginVars, pastVars

LEMMA AttemptStep == ASSUME Inv, AttemptMachineLink PROVE Inv'
<1>1. TypeOK
    BY DEF Inv
<1>2. PICK n \in Links : n = Lowest(Unused)
    <2>1. Unused \in SUBSET Nat /\ Unused # {}
        BY ConstantsAssumption DEF AttemptMachineLink, Unused
    <2> QED
        BY <2>1, LowestIsMember DEF Unused
<1>3. /\ link' = "PendingAck" /\ transport' = n
      /\ live' = live \cup {n} /\ toDaemon' = toDaemon \cup {n}
      /\ toLogin' = [toLogin EXCEPT ![n] = <<>>]
      /\ UNCHANGED <<row, index, open, binding, step, command, peer, owner, selected,
                     revoked>>
    BY <1>2 DEF AttemptMachineLink, storeVars, loginVars, pastVars
<1>4. toLogin' \in [Links -> Seq(Messages)]
    <2>1. <<>> \in Seq(Messages)
        OBVIOUS
    <2> QED
        BY <1>1, <1>3, <2>1 DEF TypeOK
<1>5. TypeOK'
    BY <1>1, <1>3, <1>4 DEF TypeOK
<1>6. NoticesFit'
    <2>1. \A k \in Links : toLogin'[k] = toLogin[k] \/ toLogin'[k] = <<>>
        BY <1>1, <1>3 DEF TypeOK
    <2>2. \A k \in Links : \A i \in 1 .. Len(toLogin'[k]) :
              i \in 1 .. Len(toLogin[k]) /\ toLogin'[k][i] = toLogin[k][i]
        BY <2>1
    <2> QED
        BY <1>3, <2>2 DEF Inv, NoticesFit, Kicked
<1> QED
    BY <1>3, <1>5, <1>6, NetworkStep

LEMMA ProbeStep == ASSUME Inv, NEW n \in Links, HandleProbe(n) PROVE Inv'
<1> DEFINE p == Registered(n)
           m == [kind |-> "snapshotOk"]
<1>1. TypeOK
    BY DEF Inv
<1>2. p \in Links
    BY <1>1 DEF Registered, TypeOK
<1>3. m \in Messages /\ Kicked(m)
    BY DEF Messages, Kicked
<1>4. /\ peer' = p /\ toDaemon' = toDaemon \ {n}
      /\ live' = IF p = n THEN live ELSE live \ {n}
      /\ toLogin' = [toLogin EXCEPT ![p] = IF p \in live THEN Append(@, m) ELSE @]
      /\ UNCHANGED <<row, index, open, binding, step, link, transport, command, owner,
                     selected, revoked>>
    BY DEF HandleProbe, storeVars, loginVars, pastVars
<1> HIDE DEF p, m
<1>5. toLogin' \in [Links -> Seq(Messages)] /\ NoticesFit'
    <2>1. CASE p \in live
        <3>1. toLogin' = [toLogin EXCEPT ![p] = Append(@, m)]
            BY <1>4, <2>1
        <3> QED
            BY <1>2, <1>3, <1>4, <3>1, MessageAdded
    <2>2. CASE p \notin live
        <3>1. toLogin' = toLogin
            BY <1>1, <1>2, <1>4, <2>2 DEF TypeOK
        <3> QED
            BY <1>1, <1>4, <3>1, NoticesKept DEF TypeOK
    <2> QED
        BY <2>1, <2>2
<1>6. TypeOK'
    BY <1>1, <1>2, <1>4, <1>5 DEF TypeOK
<1> QED
    BY <1>4, <1>5, <1>6, NetworkStep

LEMMA DrainStep == ASSUME Inv, DrainInvocations PROVE Inv'
<1>1. TypeOK
    BY DEF Inv
<1>2. /\ transport \in Links /\ toLogin[transport] # <<>>
      /\ toLogin' = [toLogin EXCEPT ![transport] = Tail(@)]
      /\ link' \in {"Backoff", "PendingAck", "Up"}
      /\ open' \subseteq Clients
      /\ UNCHANGED <<row, index, binding, step, command, transport, peer, live,
                     toDaemon, owner, selected, revoked>>
    BY <1>1 DEF DrainInvocations, TypeOK, storeVars, pastVars
<1> DEFINE q == toLogin[transport]
<1>3. q \in Seq(Messages) /\ q # <<>>
    BY <1>1, <1>2 DEF TypeOK
<1>4. /\ Tail(q) \in Seq(Messages) /\ Len(Tail(q)) = Len(q) - 1
      /\ \A i \in 1 .. Len(Tail(q)) : i + 1 \in 1 .. Len(q) /\ Tail(q)[i] = q[i + 1]
    <2> HIDE DEF q
    <2> QED
        BY <1>3
<1>5. toLogin' \in [Links -> Seq(Messages)]
    BY <1>1, <1>2, <1>4 DEF TypeOK
<1>6. NoticesFit'
    <2>1. \A k \in Links : toLogin'[k] = IF k = transport THEN Tail(q) ELSE toLogin[k]
        BY <1>1, <1>2 DEF TypeOK
    <2>2. ASSUME NEW k \in Links, NEW i \in 1 .. Len(toLogin'[k])
          PROVE  Kicked(toLogin[k][i])'
        <3>1. PICK j : j \in 1 .. Len(toLogin[k]) /\ toLogin'[k][i] = toLogin[k][j]
            BY <1>4, <2>1, <2>2
        <3>2. Kicked(toLogin[k][j])
            BY <3>1 DEF Inv, NoticesFit
        <3> QED
            BY <1>2, <3>1, <3>2 DEF Kicked
    <2> QED
        BY <2>2 DEF NoticesFit
<1>7. TypeOK'
    BY <1>1, <1>2, <1>5 DEF TypeOK
<1> QED
    BY <1>2, <1>6, <1>7, NetworkStep

LEMMA CutStep == ASSUME Inv, NEW n \in Links, Cut(n) PROVE Inv'
<1>1. TypeOK'
    BY DEF Inv, TypeOK, Cut, storeVars, loginVars, pastVars
<1>2. NoticesFit'
    BY NoticesKept DEF Cut, pastVars
<1> QED
    BY <1>1, <1>2, NetworkStep DEF Cut, storeVars, loginVars, pastVars

LEMMA RestartStep == ASSUME Inv, DaemonRestart PROVE Inv'
<1>1. TypeOK'
    BY DEF Inv, TypeOK, DaemonRestart, storeVars, loginVars, pastVars
<1>2. CommandFits'
    BY DEF CommandFits, DaemonRestart
<1> QED
    BY <1>1, <1>2, DataKept, NoticesKept
    DEF Inv, DaemonRestart, storeVars, loginVars, pastVars

-----------------------------------------------------------------------------
(* The invariant *)

LEMMA InvInit == Init => Inv
<1> SUFFICES ASSUME Init PROVE Inv
    OBVIOUS
<1>1. Lowest(Links) \in Links
    BY LowestIsMember, ConstantsAssumption
<1>2. toLogin = [n \in Links |-> <<>>] /\ toLogin \in [Links -> Seq(Messages)]
    <2>1. <<>> \in Seq(Messages)
        OBVIOUS
    <2> QED
        BY <2>1 DEF Init
<1>3. TypeOK
    BY <1>1, <1>2 DEF Init, TypeOK
<1>4. NoticesFit
    BY <1>2 DEF NoticesFit
<1> QED
    BY <1>3, <1>4
    DEF Init, Inv, RowsFit, BindingsFit, StepFits, CommandFits,
        RowMatchesBinding, RowIsIndexed, RevokedIsGone

LEMMA InvStep == Inv /\ [Next]_vars => Inv'
<1> SUFFICES ASSUME Inv, [Next]_vars PROVE Inv'
    OBVIOUS
<1>1. CASE LoginSteps
    BY <1>1, CleanupStep, LoadStep, SaveFirstStep, SaveSecondStep, LinkDownStep,
       DrainStep, AttemptStep
    DEF LoginSteps
<1>2. CASE DaemonSteps
    BY <1>2, ScanStep, HealStep, ListingStep, KickNextStep, RevokeRowStep,
       RevokeIndexStep, ExtendStep, ProbeStep
    DEF DaemonSteps
<1>3. CASE Connect \/ \E c \in Clients : Disconnect(c)
    BY <1>3, ConnectionStep
<1>4. CASE \E c \in Clients, a \in Accounts : HandleLogin(c, a)
    BY <1>4, LoginStep
<1>5. CASE \E c \in Clients, r \in Realms : HandleSelectRealm(c, r)
    BY <1>5, SelectStep
<1>6. CASE \E t \in Tokens : HandleKickSession(t) \/ Expire(t)
    BY <1>6, KickSessionStep, ExpireStep
<1>7. CASE \E s \in Scopes : HandleBatch("kickAll", s) \/ HandleBatch("extend", s)
    BY <1>7, BatchStep, ConstantsAssumption
<1>8. CASE HandleBatch("list", [by |-> "all"])
    <2>1. [by |-> "all"] \in AllScopes
        BY DEF AllScopes
    <2> QED
        BY <1>8, <2>1, BatchStep
<1>9. CASE \E n \in Links : Cut(n)
    BY <1>9, CutStep
<1>10. CASE DaemonRestart
    BY <1>10, RestartStep
<1>11. CASE UNCHANGED vars
    <2>1. TypeOK'
        BY <1>11 DEF Inv, TypeOK, vars, storeVars, loginVars, linkVars, pastVars
    <2> QED
        BY <1>11, <2>1, NoticesKept, NetworkStep
        DEF vars, storeVars, loginVars, linkVars, pastVars
<1> QED
    BY <1>1, <1>2, <1>3, <1>4, <1>5, <1>6, <1>7, <1>8, <1>9, <1>10, <1>11 DEF Next

LEMMA Invariance == Spec => []Inv
BY InvInit, InvStep, PTL DEF Spec

-----------------------------------------------------------------------------
(* The theorems *)

\* The rows of the store, its index and the bindings of LoginApp tell of the
\* same sessions, between any two commands of the store: a row matches the
\* connection it is bound to (so that a notice finds it) and has its index entry
\* (so that an operator finds it).
THEOREM RowsStaySound == Spec => []RowsAreSound
<1>1. Inv => RowsAreSound
    BY DEF Inv, RowsAreSound
<1> QED
    BY <1>1, Invariance, PTL

\* A session that was revoked does not come back, but by a selection of a realm
\* that was under way.
THEOREM RevokedStaysGone == Spec => []RevokedIsGone
<1>1. Inv => RevokedIsGone
    BY DEF Inv
<1> QED
    BY <1>1, Invariance, PTL

\* The connections that a message closes are those of an account of which a
\* session was revoked.
LEMMA DrainCloses ==
    ASSUME Inv, DrainInvocations, NEW c \in open \ open'
    PROVE  \E t \in revoked : owner[t] = binding[c].account
<1> DEFINE q == toLogin[transport]
<1>1. /\ transport \in Links /\ q # <<>> /\ q \in Seq(Messages)
      /\ Head(q).kind = "notice" /\ c \in ClosedBy(Head(q))
    BY DEF Inv, TypeOK, DrainInvocations
<1>2. 1 \in 1 .. Len(q) /\ Head(q) = q[1]
    BY <1>1
<1>3. Kicked(q[1])
    BY <1>1, <1>2 DEF Inv, NoticesFit
<1> QED
    BY <1>1, <1>2, <1>3 DEF Kicked, ClosedBy

\* LoginApp closes connections while it handles a notice only for an account of
\* which a session was revoked, whatever is under way on the link.
THEOREM ClosedAreKicked == Spec => ClosedWasKicked
<1>1. ASSUME Inv, [Next]_vars, toLogin' # toLogin, NEW c \in open \ open'
      PROVE  \E t \in revoked : owner[t] = binding[c].account
    <2>1. CASE DrainInvocations
        BY <1>1, <2>1, DrainCloses
    <2>2. CASE ~ DrainInvocations
        BY <1>1, <2>2
        DEF Next, LoginSteps, DaemonSteps, CleanupDisconnected, LoadBeforePatch,
            SaveFirst, SaveSecond, MarkMachineLinkDown, AttemptMachineLink, ScanNext,
            Heal, ListingDone, KickNext, RevokeRow, RevokeIndex, ExtendNext,
            HandleProbe, Connect, Disconnect, HandleLogin, HandleSelectRealm,
            HandleKickSession, Expire, HandleBatch, Cut, DaemonRestart, vars,
            storeVars, loginVars, linkVars, pastVars
    <2> QED
        BY <2>1, <2>2
<1>2. Inv /\ [Next]_vars =>
         [toLogin' # toLogin =>
             \A c \in open \ open' : \E t \in revoked : owner[t] = binding[c].account]_vars
    BY <1>1
<1> QED
    BY <1>2, Invariance, PTL DEF Spec, ClosedWasKicked
=============================================================================
