------------------------------ MODULE Sessions ------------------------------
(***************************************************************************)
(* Who a connection speaks for: registration, login, logout and deposits   *)
(* (include/Handler.hpp) over the accounts table (UserRepositoryImpl.cpp)  *)
(* and the accounts in memory (UserManager.hpp).                           *)
(*                                                                         *)
(* A handler runs under the mutex of its session, so a connection has one  *)
(* handler at a time; handlers of different connections interleave between *)
(* any two operations on the table or on the accounts that another handler *)
(* can tell apart.  The table gives each name its own row and id: the name *)
(* stands for its id, and NoId is the 0 that getUserId and getId return    *)
(* when they find nothing.  A refused request changes nothing.             *)
(***************************************************************************)
EXTENDS Integers, FiniteSets, Functions

CONSTANTS
    Connections,      \* sessions of open connections
    Names,            \* user names, each with the id its row will have
    Preloaded,        \* names with a row when the server starts
    NoName,           \* the empty user name
    NoId,             \* 0
    DepositAmounts,   \* amounts a deposit may carry
    MaxDeposited,     \* bound on the sum of the deposits
    IdQueryMayFail    \* the query of getUserId may fail

ASSUME SessionsAssumption ==
    /\ IsFiniteSet(Connections)
    /\ Preloaded \subseteq Names
    /\ NoName \notin Names /\ NoId \notin Names
    /\ DepositAmounts \subseteq Nat \ {0} /\ MaxDeposited \in Nat
    /\ IdQueryMayFail \in BOOLEAN

VARIABLES
    row,       \* the accounts table: the balance of each registered name
    account,   \* account_: the name and balance of each id in memory
    session,   \* the username and user_id of each session
    handler,   \* per connection, where its handler is
    deposited  \* the sum of the deposits

sessionVars == <<row, account, session, handler, deposited>>

Idle == [at |-> "idle"]

LoggedOut == [username |-> NoName, user_id |-> NoId]

SInit ==
    /\ row = [n \in Preloaded |-> 0]
    /\ account = [n \in Preloaded |-> [username |-> n, balance |-> 0]]
    /\ session = [c \in Connections |-> LoggedOut]
    /\ handler = [c \in Connections |-> Idle]
    /\ deposited = 0

isLoggedIn(c) == session[c].username # NoName

\* find_account_: the id under which a name is known in memory.
getId(n) ==
    IF \E i \in DOMAIN account : account[i].username = n
    THEN CHOOSE i \in DOMAIN account : account[i].username = n
    ELSE NoId

\* A plausible slip: the account is made anew when it is there already.
createUserAccountAnew(i, n) ==
    [j \in DOMAIN account \cup {i} |->
        IF j = i THEN [username |-> n, balance |-> 0] ELSE account[j]]

\* An id that is known already keeps its account.
createUserAccount(i, n) ==
    [j \in DOMAIN account \cup {i} |->
        IF j \in DOMAIN account THEN account[j] ELSE [username |-> n, balance |-> 0]]

\* What getUserId may return for a registered name.
getUserId(n) == {n} \cup (IF IdQueryMayFail THEN {NoId} ELSE {})

-----------------------------------------------------------------------------
\* registerUser inserts the row; a name that has one is refused.
RegisterUser(c, n) ==
    /\ handler[c] = Idle
    /\ n \notin DOMAIN row
    /\ row' = [m \in DOMAIN row \cup {n} |-> IF m = n THEN 0 ELSE row[m]]
    /\ handler' = [handler EXCEPT ![c] = [at |-> "registered", name |-> n]]
    /\ UNCHANGED <<account, session, deposited>>

\* A plausible slip: the session's id is used before it is set.
RegisterAccountStaleId(c) ==
    /\ handler[c].at = "registered"
    /\ \E i \in getUserId(handler[c].name) :
          /\ account' = createUserAccount(session[c].user_id, handler[c].name)
          /\ session' = [session EXCEPT ![c] =
                            [username |-> handler[c].name, user_id |-> i]]
    /\ handler' = [handler EXCEPT ![c] = Idle]
    /\ UNCHANGED <<row, deposited>>

\* The id is looked up and, whatever it is, becomes an account and the session's
\* identity.
RegisterAccount(c) ==
    /\ handler[c].at = "registered"
    /\ \E i \in getUserId(handler[c].name) :
          /\ account' = createUserAccount(i, handler[c].name)
          /\ session' = [session EXCEPT ![c] =
                            [username |-> handler[c].name, user_id |-> i]]
    /\ handler' = [handler EXCEPT ![c] = Idle]
    /\ UNCHANGED <<row, deposited>>

\* checkLogin succeeds: the name is bound to the session.
CheckLogin(c, n) ==
    /\ handler[c] = Idle
    /\ n \in DOMAIN row
    /\ session' = [session EXCEPT ![c].username = n]
    /\ handler' = [handler EXCEPT ![c] = [at |-> "checked", name |-> n]]
    /\ UNCHANGED <<row, account, deposited>>

\* The id is in memory ...
LoginKnown(c) ==
    /\ handler[c].at = "checked"
    /\ getId(handler[c].name) # NoId
    /\ session' = [session EXCEPT ![c].user_id = getId(handler[c].name)]
    /\ handler' = [handler EXCEPT ![c] = Idle]
    /\ UNCHANGED <<row, account, deposited>>

\* ... or it is not, and is asked for.
LoginUnknown(c) ==
    /\ handler[c].at = "checked"
    /\ getId(handler[c].name) = NoId
    /\ handler' = [handler EXCEPT ![c].at = "unknown"]
    /\ UNCHANGED <<row, account, session, deposited>>

LoginAccount(c) ==
    /\ handler[c].at = "unknown"
    /\ \E i \in getUserId(handler[c].name) :
          /\ account' = IF i # NoId THEN createUserAccount(i, handler[c].name)
                        ELSE account
          /\ session' = [session EXCEPT ![c].user_id = i]
    /\ handler' = [handler EXCEPT ![c] = Idle]
    /\ UNCHANGED <<row, deposited>>

\* A plausible slip: the id is cleared and the name stays.
ExitKeepingName(c) ==
    /\ handler[c] = Idle
    /\ isLoggedIn(c)
    /\ session' = [session EXCEPT ![c].user_id = NoId]
    /\ UNCHANGED <<row, account, handler, deposited>>

\* ExitHandler; the user_id stays in the session.
Exit(c) ==
    /\ handler[c] = Idle
    /\ isLoggedIn(c)
    /\ session' = [session EXCEPT ![c].username = NoName]
    /\ UNCHANGED <<row, account, handler, deposited>>

\* DepositHandler: the table by name ...
DepositByName(c, a) ==
    /\ handler[c] = Idle
    /\ isLoggedIn(c)
    /\ deposited + a =< MaxDeposited
    /\ row' = [row EXCEPT ![session[c].username] = @ + a]
    /\ deposited' = deposited + a
    /\ handler' = [handler EXCEPT ![c] = [at |-> "deposit", amount |-> a]]
    /\ UNCHANGED <<account, session>>

\* ... then memory by id, where an unknown id is passed over.
DepositById(c) ==
    /\ handler[c].at = "deposit"
    /\ account' = [i \in DOMAIN account |->
          IF i = session[c].user_id
          THEN [account[i] EXCEPT !.balance = @ + handler[c].amount]
          ELSE account[i]]
    /\ handler' = [handler EXCEPT ![c] = Idle]
    /\ UNCHANGED <<row, session, deposited>>

\* The connection is closed and its place taken by a new one.
Reconnect(c) ==
    /\ handler[c] = Idle
    /\ session' = [session EXCEPT ![c] = LoggedOut]
    /\ UNCHANGED <<row, account, handler, deposited>>

SNext ==
    \E c \in Connections :
        \/ \E n \in Names : RegisterUser(c, n) \/ CheckLogin(c, n)
        \/ RegisterAccount(c) \/ LoginKnown(c) \/ LoginUnknown(c) \/ LoginAccount(c)
        \/ Exit(c) \/ Reconnect(c)
        \/ \E a \in DepositAmounts : DepositByName(c, a)
        \/ DepositById(c)

SSpec == SInit /\ [][SNext]_sessionVars

-----------------------------------------------------------------------------
\* Between requests the two halves of a session's identity belong together: the
\* account its user_id leads to in memory is the one of its username, which is what
\* trades, queries and deposits rely on after any mix of logins and logouts.
SessionsBound ==
    \A c \in Connections :
        isLoggedIn(c) /\ handler[c].at \in {"idle", "deposit"} =>
            /\ session[c].user_id \in DOMAIN account
            /\ account[session[c].user_id].username = session[c].username

\* The names and ids in memory map to each other both ways
\* ("双向内存映射缓存", UserManager.hpp:34), each name to the id of its row.
MappedBothWays ==
    \A i \in DOMAIN account : account[i].username = i

\* The deposits that are in a name's row and not yet in its account.
UnderWay(n) ==
    [c \in Connections |->
        IF handler[c].at = "deposit" /\ session[c].username = n
        THEN handler[c].amount ELSE 0]

\* A row and its account differ exactly by the deposits under way for it,
\* however registrations, logins and deposits of one name interleave.
RowMatchesAccount ==
    \A i \in DOMAIN account \cap DOMAIN row :
        row[i] = account[i].balance + SumFunctionOnSet(UnderWay(i), Connections)

\* No step takes an account, its name or its money away: a second registration or
\* login of a name finds the account the first one made.
AccountsStay ==
    [][\A i \in DOMAIN account :
          /\ i \in DOMAIN account'
          /\ account'[i].username = account[i].username
          /\ account'[i].balance >= account[i].balance]_sessionVars

=============================================================================
