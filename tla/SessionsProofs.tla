--------------------------- MODULE SessionsProofs ---------------------------
(***************************************************************************)
(* Proofs about Sessions: whatever the number of connections and names,    *)
(* and however registrations, logins, logouts and deposits interleave, a   *)
(* session leads to its own account, and a name's row and account differ   *)
(* by the deposits under way.  The theorems that need it assume that the   *)
(* query of getUserId does not fail; AccountsStay holds without.           *)
(***************************************************************************)
EXTENDS Sessions, SumLemmas

\* Where a handler is and what it holds.
Handlers ==
    {Idle} \cup [at : {"registered", "checked", "unknown"}, name : Names]
           \cup [at : {"deposit"}, amount : Nat]

STypes ==
    /\ DOMAIN row \subseteq Names
    /\ row \in [DOMAIN row -> Nat]
    /\ DOMAIN account \subseteq Names \cup {NoId}
    /\ account \in [DOMAIN account -> [username : Names, balance : Nat]]
    /\ session \in [Connections -> [username : Names \cup {NoName},
                                    user_id : Names \cup {NoId}]]
    /\ handler \in [Connections -> Handlers]

\* What a handler has established before it gives up the table or the accounts.
HandlersBound ==
    \A c \in Connections :
        /\ handler[c].at \in {"registered", "checked", "unknown"} =>
              handler[c].name \in DOMAIN row
        /\ handler[c].at \in {"checked", "unknown"} =>
              session[c].username = handler[c].name
        /\ handler[c].at = "deposit" => isLoggedIn(c)

\* Every account has a row, and a row without an account has seen no deposit.
RowsFirst ==
    /\ DOMAIN account \subseteq DOMAIN row
    /\ \A n \in DOMAIN row \ DOMAIN account : row[n] = 0

\* The inductive invariant.
SInv ==
    STypes /\ HandlersBound /\ RowsFirst /\ MappedBothWays /\ SessionsBound
    /\ RowMatchesAccount

-----------------------------------------------------------------------------
\* The deposits under way are natural numbers, and so is their sum.
LEMMA UnderWayNat ==
    ASSUME STypes, NEW n
    PROVE  /\ UnderWay(n) \in [Connections -> Nat]
           /\ SumFunctionOnSet(UnderWay(n), Connections) \in Nat
<1>1. UnderWay(n) \in [Connections -> Nat]
  BY DEF UnderWay, STypes, Handlers, Idle
<1> QED BY <1>1, SumType, SessionsAssumption

LEMMA InitSInv == SInit => SInv
<1> SUFFICES ASSUME SInit PROVE SInv
  OBVIOUS
<1> USE SessionsAssumption DEF SInit, Idle, LoggedOut
<1>1. STypes
  BY DEF STypes, Handlers
<1>2. HandlersBound /\ RowsFirst /\ MappedBothWays /\ SessionsBound
  BY DEF HandlersBound, RowsFirst, MappedBothWays, SessionsBound, isLoggedIn
<1>3. RowMatchesAccount
  <2> SUFFICES ASSUME NEW i \in DOMAIN account \cap DOMAIN row
               PROVE  row[i] = account[i].balance + SumFunctionOnSet(UnderWay(i), Connections)
    BY DEF RowMatchesAccount
  <2>1. \A c \in Connections : UnderWay(i)[c] = 0
    BY DEF UnderWay
  <2>2. SumFunctionOnSet(UnderWay(i), Connections) = 0
    BY <2>1, SumZero
  <2> QED BY <2>2
<1> QED BY <1>1, <1>2, <1>3 DEF SInv

\* What a connection's session and handler may be, spelled out for the provers.
LEMMA OneHandler ==
    ASSUME STypes, NEW c \in Connections
    PROVE  /\ session[c] = [username |-> session[c].username, user_id |-> session[c].user_id]
           /\ session[c].username \in Names \cup {NoName}
           /\ session[c].user_id \in Names \cup {NoId}
           /\ handler[c].at \in {"idle", "registered", "checked", "unknown", "deposit"}
           /\ handler[c].at = "idle" => handler[c] = Idle
           /\ handler[c].at \in {"registered", "checked", "unknown"} =>
                 /\ handler[c] = [at |-> handler[c].at, name |-> handler[c].name]
                 /\ handler[c].name \in Names
           /\ handler[c].at = "deposit" =>
                 /\ handler[c] = [at |-> "deposit", amount |-> handler[c].amount]
                 /\ handler[c].amount \in Nat
BY DEF STypes, Handlers, Idle

\* The types are preserved, whether or not getUserId fails.
LEMMA TypesStep ==
    ASSUME STypes, [SNext]_sessionVars
    PROVE  STypes'
<1> USE SessionsAssumption DEF STypes, Handlers
<1>0. CASE UNCHANGED sessionVars
  BY <1>0 DEF sessionVars
<1> SUFFICES ASSUME NEW c \in Connections,
                    \/ \E n \in Names : RegisterUser(c, n) \/ CheckLogin(c, n)
                    \/ RegisterAccount(c) \/ LoginKnown(c) \/ LoginUnknown(c)
                    \/ LoginAccount(c) \/ Exit(c) \/ Reconnect(c)
                    \/ \E a \in DepositAmounts : DepositByName(c, a)
                    \/ DepositById(c)
             PROVE  STypes'
  BY <1>0 DEF SNext
<1>1. CASE \E n \in Names : RegisterUser(c, n)
  BY <1>1 DEF RegisterUser, Idle
<1>2. CASE \E n \in Names : CheckLogin(c, n)
  BY <1>2, OneHandler DEF CheckLogin
<1>3. CASE RegisterAccount(c)
  BY <1>3, OneHandler DEF RegisterAccount, createUserAccount, getUserId
<1>4. CASE LoginKnown(c)
  BY <1>4, OneHandler DEF LoginKnown, getId
<1>5. CASE LoginUnknown(c)
  BY <1>5, OneHandler DEF LoginUnknown
<1>6. CASE LoginAccount(c)
  BY <1>6, OneHandler DEF LoginAccount, createUserAccount, getUserId
<1>7. CASE Exit(c)
  BY <1>7, OneHandler DEF Exit
<1>8. CASE Reconnect(c)
  BY <1>8 DEF Reconnect, LoggedOut
<1>9. CASE \E a \in DepositAmounts : DepositByName(c, a)
  <2>1. PICK a \in DepositAmounts : DepositByName(c, a)
    BY <1>9
  <2>2. a \in Nat
    OBVIOUS
  <2>3. row' \in [DOMAIN row -> Nat] /\ DOMAIN row' = DOMAIN row
    <3> DEFINE D == DOMAIN row
    <3>1. row \in [D -> Nat] /\ row' = [row EXCEPT ![session[c].username] = @ + a]
      BY <2>1 DEF DepositByName
    <3> HIDE DEF D
    <3>2. \A x \in D : row[x] \in Nat
      BY <3>1
    <3>3. \A x \in D : row'[x] = IF x = session[c].username THEN row[x] + a ELSE row[x]
      BY <3>1
    <3>4. \A x \in D : row'[x] \in Nat
      BY <2>2, <3>2, <3>3
    <3>5. row' = [x \in D |-> row'[x]]
      BY <3>1
    <3> QED BY <3>4, <3>5 DEF D
  <2>4. handler' \in [Connections -> Handlers]
    BY <2>1, <2>2 DEF DepositByName
  <2> QED BY <2>1, <2>3, <2>4 DEF DepositByName
<1>10. CASE DepositById(c)
  BY <1>10, OneHandler DEF DepositById
<1> QED BY <1>1, <1>2, <1>3, <1>4, <1>5, <1>6, <1>7, <1>8, <1>9, <1>10

-----------------------------------------------------------------------------
\* The id of a name in memory, when the names and ids map to each other.
LEMMA KnownId ==
    ASSUME STypes, MappedBothWays, NEW n \in Names
    PROVE  getId(n) = IF n \in DOMAIN account THEN n ELSE NoId
BY DEF STypes, MappedBothWays, getId

\* Which parts of the state an action leaves to the other connections.
LEMMA OthersStep ==
    ASSUME STypes, NEW c \in Connections,
           \/ \E n \in Names : RegisterUser(c, n) \/ CheckLogin(c, n)
           \/ RegisterAccount(c) \/ LoginKnown(c) \/ LoginUnknown(c)
           \/ LoginAccount(c) \/ Exit(c) \/ Reconnect(c)
           \/ \E a \in DepositAmounts : DepositByName(c, a)
           \/ DepositById(c)
    PROVE  /\ \A d \in Connections \ {c} : session'[d] = session[d] /\ handler'[d] = handler[d]
           /\ DOMAIN row \subseteq DOMAIN row'
           /\ DOMAIN account \subseteq DOMAIN account'
           /\ \A i \in DOMAIN account : account'[i].username = account[i].username
<1> USE DEF STypes
<1>1. CASE \E n \in Names : RegisterUser(c, n) \/ CheckLogin(c, n)
  BY <1>1 DEF RegisterUser, CheckLogin
<1>2. CASE RegisterAccount(c)
  BY <1>2 DEF RegisterAccount, createUserAccount
<1>3. CASE LoginKnown(c) \/ LoginUnknown(c) \/ Exit(c) \/ Reconnect(c)
  BY <1>3 DEF LoginKnown, LoginUnknown, Exit, Reconnect
<1>4. CASE LoginAccount(c)
  BY <1>4 DEF LoginAccount, createUserAccount
<1>5. CASE \E a \in DepositAmounts : DepositByName(c, a)
  BY <1>5 DEF DepositByName
<1>6. CASE DepositById(c)
  BY <1>6 DEF DepositById
<1> QED BY <1>1, <1>2, <1>3, <1>4, <1>5, <1>6

\* The step of one connection.
Step(c) ==
    \/ \E n \in Names : RegisterUser(c, n) \/ CheckLogin(c, n)
    \/ RegisterAccount(c) \/ LoginKnown(c) \/ LoginUnknown(c)
    \/ LoginAccount(c) \/ Exit(c) \/ Reconnect(c)
    \/ \E a \in DepositAmounts : DepositByName(c, a)
    \/ DepositById(c)

\* Sessions, handlers and the maps of memory, when getUserId does not fail.
LEMMA BoundStep ==
    ASSUME SInv, ~IdQueryMayFail, NEW c \in Connections, Step(c), STypes'
    PROVE  HandlersBound' /\ RowsFirst' /\ MappedBothWays' /\ SessionsBound'
<1> USE SessionsAssumption DEF SInv
<1>0. /\ \A d \in Connections \ {c} : session'[d] = session[d] /\ handler'[d] = handler[d]
      /\ DOMAIN row \subseteq DOMAIN row'
      /\ DOMAIN account \subseteq DOMAIN account'
      /\ \A i \in DOMAIN account : account'[i].username = account[i].username
  BY OthersStep DEF Step
<1>1. CASE \E n \in Names : RegisterUser(c, n)
  <2>1. PICK n \in Names : RegisterUser(c, n)
    BY <1>1
  <2>2. RowsFirst' /\ MappedBothWays'
    BY <2>1 DEF RegisterUser, RowsFirst, MappedBothWays
  <2>3. HandlersBound'
    BY <1>0, <2>1 DEF RegisterUser, HandlersBound, STypes, isLoggedIn
  <2>4. SessionsBound'
    BY <1>0, <2>1 DEF RegisterUser, SessionsBound, STypes, isLoggedIn
  <2> QED BY <2>2, <2>3, <2>4
<1>2. CASE \E n \in Names : CheckLogin(c, n)
  <2>1. PICK n \in Names : CheckLogin(c, n)
    BY <1>2
  <2>2. RowsFirst' /\ MappedBothWays'
    BY <2>1 DEF CheckLogin, RowsFirst, MappedBothWays
  <2>3. HandlersBound'
    BY <1>0, <2>1 DEF CheckLogin, HandlersBound, STypes, isLoggedIn
  <2>4. SessionsBound'
    BY <1>0, <2>1 DEF CheckLogin, SessionsBound, STypes, isLoggedIn
  <2> QED BY <2>2, <2>3, <2>4
<1>3. CASE RegisterAccount(c) \/ LoginAccount(c)
  <2> DEFINE n == handler[c].name
  <2>1. n \in DOMAIN row /\ n \in Names
    BY <1>3, OneHandler DEF RegisterAccount, LoginAccount, HandlersBound
  <2>2. /\ account' = createUserAccount(n, n)
        /\ session'[c].user_id = n
        /\ session'[c].username = n
        /\ handler'[c] = Idle
        /\ row' = row
    BY <1>3, <2>1, OneHandler
       DEF RegisterAccount, LoginAccount, getUserId, HandlersBound, STypes
  <2>3. RowsFirst' /\ MappedBothWays'
    BY <2>1, <2>2 DEF createUserAccount, RowsFirst, MappedBothWays
  <2>4. HandlersBound'
    BY <1>0, <2>2 DEF HandlersBound, Idle, isLoggedIn
  <2>5. SessionsBound'
    BY <1>0, <2>2, <2>3 DEF SessionsBound, MappedBothWays, createUserAccount, isLoggedIn
  <2> QED BY <2>3, <2>4, <2>5
<1>4. CASE LoginKnown(c)
  <2> DEFINE n == handler[c].name
  <2>1. n \in Names /\ session[c].username = n /\ getId(n) # NoId
    BY <1>4, OneHandler DEF LoginKnown, HandlersBound
  <2>2. n \in DOMAIN account /\ getId(n) = n
    BY <2>1, KnownId
  <2>3. session'[c].user_id = n /\ session'[c].username = n /\ handler'[c] = Idle
    BY <1>4, <2>1, <2>2, OneHandler DEF LoginKnown, STypes
  <2>4. RowsFirst' /\ MappedBothWays'
    BY <1>4 DEF LoginKnown, RowsFirst, MappedBothWays
  <2>5. HandlersBound'
    BY <1>0, <1>4, <2>3 DEF LoginKnown, HandlersBound, Idle, isLoggedIn
  <2>6. SessionsBound'
    BY <1>0, <1>4, <2>2, <2>3 DEF LoginKnown, SessionsBound, MappedBothWays, isLoggedIn
  <2> QED BY <2>4, <2>5, <2>6
<1>5. CASE LoginUnknown(c)
  <2>1. RowsFirst' /\ MappedBothWays'
    BY <1>5 DEF LoginUnknown, RowsFirst, MappedBothWays
  <2>2. handler'[c] = [at |-> "unknown", name |-> handler[c].name]
    BY <1>5, OneHandler DEF LoginUnknown, STypes
  <2>3. HandlersBound'
    BY <1>0, <1>5, <2>2 DEF LoginUnknown, HandlersBound, isLoggedIn
  <2>4. SessionsBound'
    BY <1>0, <1>5, <2>2 DEF LoginUnknown, SessionsBound, isLoggedIn
  <2> QED BY <2>1, <2>3, <2>4
<1>6. CASE Exit(c) \/ Reconnect(c)
  <2>1. RowsFirst' /\ MappedBothWays'
    BY <1>6 DEF Exit, Reconnect, RowsFirst, MappedBothWays
  <2>2. session'[c].username = NoName /\ handler'[c] = Idle
    BY <1>6, OneHandler DEF Exit, Reconnect, LoggedOut, STypes
  <2>3. HandlersBound'
    BY <1>0, <1>6, <2>2 DEF Exit, Reconnect, HandlersBound, Idle, isLoggedIn
  <2>4. SessionsBound'
    BY <1>0, <1>6, <2>2 DEF Exit, Reconnect, SessionsBound, isLoggedIn
  <2> QED BY <2>1, <2>3, <2>4
<1>7. CASE \E a \in DepositAmounts : DepositByName(c, a)
  <2>1. PICK a \in DepositAmounts : DepositByName(c, a)
    BY <1>7
  <2>2. session[c].username \in DOMAIN account
    BY <2>1 DEF DepositByName, SessionsBound, MappedBothWays, Idle
  <2>3. RowsFirst' /\ MappedBothWays'
    BY <2>1, <2>2 DEF DepositByName, RowsFirst, MappedBothWays, STypes
  <2>4. handler'[c] = [at |-> "deposit", amount |-> a]
    BY <2>1 DEF DepositByName, STypes
  <2>5. HandlersBound'
    BY <1>0, <2>1, <2>4 DEF DepositByName, HandlersBound, isLoggedIn
  <2>6. SessionsBound'
    BY <1>0, <2>1, <2>4 DEF DepositByName, SessionsBound, Idle, isLoggedIn
  <2> QED BY <2>3, <2>5, <2>6
<1>8. CASE DepositById(c)
  <2>1. DOMAIN account' = DOMAIN account /\ UNCHANGED <<row, session>> /\ handler'[c] = Idle
    BY <1>8 DEF DepositById, STypes
  <2>2. RowsFirst' /\ MappedBothWays'
    BY <1>0, <2>1 DEF RowsFirst, MappedBothWays
  <2>3. HandlersBound'
    BY <1>0, <2>1 DEF HandlersBound, Idle, isLoggedIn
  <2>4. SessionsBound'
    BY <1>0, <1>8, <2>1 DEF DepositById, SessionsBound, Idle, isLoggedIn
  <2> QED BY <2>2, <2>3, <2>4
<1> QED BY <1>1, <1>2, <1>3, <1>4, <1>5, <1>6, <1>7, <1>8 DEF Step

\* A step that moves no deposit leaves what is under way as it is.
LEMMA UnderWaySame ==
    ASSUME STypes, STypes', NEW n,
           \A c \in Connections : handler'[c].at = "deposit" <=> handler[c].at = "deposit",
           \A c \in Connections : handler[c].at = "deposit" =>
               handler'[c] = handler[c] /\ session'[c].username = session[c].username
    PROVE  UnderWay(n)' = UnderWay(n)
BY DEF UnderWay

LEMMA MatchStep ==
    ASSUME SInv, ~IdQueryMayFail, NEW c \in Connections, Step(c), STypes'
    PROVE  RowMatchesAccount'
<1> USE SessionsAssumption DEF SInv
<1>0. \A d \in Connections \ {c} : session'[d] = session[d] /\ handler'[d] = handler[d]
  BY OthersStep DEF Step
<1> SUFFICES ASSUME NEW i \in DOMAIN account' \cap DOMAIN row'
             PROVE  row'[i] = account'[i].balance
                              + SumFunctionOnSet(UnderWay(i)', Connections)
  BY DEF RowMatchesAccount
<1>N. /\ UnderWay(i) \in [Connections -> Nat]
      /\ UnderWay(i)' \in [Connections -> Nat]
      /\ SumFunctionOnSet(UnderWay(i), Connections) \in Nat
      /\ i \in Names
  <2>1. UnderWay(i)' \in [Connections -> Nat]
    BY DEF UnderWay, STypes, Handlers, Idle
  <2> QED BY <2>1, UnderWayNat DEF STypes
<1>R. CASE \/ \E n \in Names : RegisterUser(c, n) \/ CheckLogin(c, n)
           \/ LoginKnown(c) \/ LoginUnknown(c) \/ Exit(c) \/ Reconnect(c)
  <2>1. UNCHANGED account /\ \A n \in DOMAIN row : row'[n] = row[n]
    BY <1>R DEF RegisterUser, CheckLogin, LoginKnown, LoginUnknown, Exit, Reconnect
  <2>2. handler[c].at # "deposit" /\ handler'[c].at # "deposit"
    <3>1. CASE LoginUnknown(c)
      BY <3>1, OneHandler DEF LoginUnknown, STypes
    <3>2. CASE LoginKnown(c) \/ Exit(c) \/ Reconnect(c)
      BY <3>2 DEF LoginKnown, Exit, Reconnect, Idle, STypes
    <3>3. CASE \E n \in Names : RegisterUser(c, n) \/ CheckLogin(c, n)
      BY <3>3 DEF RegisterUser, CheckLogin, Idle, STypes
    <3> QED BY <1>R, <3>1, <3>2, <3>3
  <2>3. UnderWay(i)' = UnderWay(i)
    BY <1>0, <2>2, UnderWaySame
  <2>4. i \in DOMAIN account \cap DOMAIN row
    BY <2>1 DEF RowsFirst
  <2> QED BY <2>1, <2>3, <2>4 DEF RowMatchesAccount
<1>A. CASE RegisterAccount(c) \/ LoginAccount(c)
  <2> DEFINE n == handler[c].name
  <2>1. n \in DOMAIN row /\ n \in Names
    BY <1>A, OneHandler DEF RegisterAccount, LoginAccount, HandlersBound
  <2>2. account' = createUserAccount(n, n) /\ row' = row
    BY <1>A, <2>1 DEF RegisterAccount, LoginAccount, getUserId
  <2>3. handler[c].at # "deposit" /\ handler'[c].at # "deposit"
    BY <1>A DEF RegisterAccount, LoginAccount, Idle, STypes
  <2>4. UnderWay(i)' = UnderWay(i)
    BY <1>0, <2>3, UnderWaySame
  <2>5. CASE i \in DOMAIN account
    BY <2>2, <2>4, <2>5 DEF createUserAccount, RowMatchesAccount
  <2>6. CASE i \notin DOMAIN account
    <3>1. row'[i] = 0 /\ account'[i].balance = 0
      BY <2>2, <2>6 DEF createUserAccount, RowsFirst
    <3>2. \A d \in Connections : UnderWay(i)[d] = 0
      BY <2>6 DEF UnderWay, SessionsBound, HandlersBound, MappedBothWays
    <3>3. SumFunctionOnSet(UnderWay(i), Connections) = 0
      BY <3>2, SumZero
    <3> QED BY <2>4, <3>1, <3>3
  <2> QED BY <2>5, <2>6
<1>D. CASE \E a \in DepositAmounts : DepositByName(c, a)
  <2>1. PICK a \in DepositAmounts : DepositByName(c, a)
    BY <1>D
  <2>2. /\ UNCHANGED <<account, session>>
        /\ handler[c].at # "deposit"
        /\ handler'[c] = [at |-> "deposit", amount |-> a]
        /\ i \in DOMAIN account \cap DOMAIN row
        /\ row'[i] = IF i = session[c].username THEN row[i] + a ELSE row[i]
        /\ a \in Nat
    BY <2>1 DEF DepositByName, Idle, STypes
  <2>3. /\ UnderWay(i)[c] = 0
        /\ UnderWay(i)'[c] = IF i = session[c].username THEN a ELSE 0
        /\ \A d \in Connections : d # c => UnderWay(i)'[d] = UnderWay(i)[d]
    BY <1>0, <2>2 DEF UnderWay
  <2>4. SumFunctionOnSet(UnderWay(i)', Connections) =
        SumFunctionOnSet(UnderWay(i), Connections) + UnderWay(i)'[c] - UnderWay(i)[c]
    BY <1>N, <2>3, SumChange
  <2>5. row[i] = account[i].balance + SumFunctionOnSet(UnderWay(i), Connections)
    BY <2>2 DEF RowMatchesAccount
  <2>6. account[i].balance \in Nat
    BY <2>2 DEF STypes
  <2> QED BY <1>N, <2>2, <2>3, <2>4, <2>5, <2>6
<1>B. CASE DepositById(c)
  <2> DEFINE a == handler[c].amount
  <2>1. /\ UNCHANGED <<row, session>>
        /\ handler[c].at = "deposit" /\ a \in Nat
        /\ handler'[c] = Idle
        /\ i \in DOMAIN account \cap DOMAIN row
    BY <1>B, OneHandler DEF DepositById, STypes
  <2>2. session[c].user_id = session[c].username
    BY <2>1 DEF SessionsBound, HandlersBound, MappedBothWays
  <2>3. account[i] \in [username : Names, balance : Nat]
    BY <2>1 DEF STypes
  <2>4. account'[i].balance =
        IF i = session[c].username THEN account[i].balance + a ELSE account[i].balance
    BY <1>B, <2>1, <2>2, <2>3 DEF DepositById
  <2>5. /\ UnderWay(i)'[c] = 0
        /\ UnderWay(i)[c] = IF i = session[c].username THEN a ELSE 0
        /\ \A d \in Connections : d # c => UnderWay(i)'[d] = UnderWay(i)[d]
    BY <1>0, <2>1 DEF UnderWay, Idle
  <2>6. SumFunctionOnSet(UnderWay(i)', Connections) =
        SumFunctionOnSet(UnderWay(i), Connections) + UnderWay(i)'[c] - UnderWay(i)[c]
    BY <1>N, <2>5, SumChange
  <2>7. row[i] = account[i].balance + SumFunctionOnSet(UnderWay(i), Connections)
    BY <2>1 DEF RowMatchesAccount
  <2> HIDE DEF a
  <2> QED BY <1>N, <2>1, <2>3, <2>4, <2>5, <2>6, <2>7
<1> QED BY <1>R, <1>A, <1>D, <1>B DEF Step

LEMMA StepSInv == ~IdQueryMayFail /\ SInv /\ [SNext]_sessionVars => SInv'
<1> SUFFICES ASSUME ~IdQueryMayFail, SInv, [SNext]_sessionVars PROVE SInv'
  OBVIOUS
<1>1. STypes'
  BY TypesStep DEF SInv
<1>2. CASE UNCHANGED sessionVars
  BY <1>2 DEF sessionVars, SInv, STypes, HandlersBound, RowsFirst, MappedBothWays,
       SessionsBound, RowMatchesAccount, UnderWay, isLoggedIn
<1>3. CASE \E c \in Connections : Step(c)
  <2>1. PICK c \in Connections : Step(c)
    BY <1>3
  <2> QED BY <1>1, <2>1, BoundStep, MatchStep DEF SInv
<1> QED BY <1>2, <1>3 DEF SNext, Step

-----------------------------------------------------------------------------
\* Between requests a session's user_id leads to the account of its username
\* (HandleRegister, HandleLogin and HandleExit), for any number of connections.
THEOREM SessionsStayBound ==
    ASSUME ~IdQueryMayFail PROVE SSpec => []SessionsBound
<1>1. SInit => SInv
  BY InitSInv
<1>2. SInv /\ [SNext]_sessionVars => SInv'
  BY StepSInv
<1>3. SInv => SessionsBound
  BY DEF SInv
<1> QED BY <1>1, <1>2, <1>3, PTL DEF SSpec

\* The names and the ids in memory map to each other (UserManager).
THEOREM NamesAndIdsMap ==
    ASSUME ~IdQueryMayFail PROVE SSpec => []MappedBothWays
<1>1. SInit => SInv
  BY InitSInv
<1>2. SInv /\ [SNext]_sessionVars => SInv'
  BY StepSInv
<1>3. SInv => MappedBothWays
  BY DEF SInv
<1> QED BY <1>1, <1>2, <1>3, PTL DEF SSpec

\* A name's row and its account in memory differ by the deposits whose handler is
\* between the two (DepositHandler), however many there are.
THEOREM RowsMatchAccounts ==
    ASSUME ~IdQueryMayFail PROVE SSpec => []RowMatchesAccount
<1>1. SInit => SInv
  BY InitSInv
<1>2. SInv /\ [SNext]_sessionVars => SInv'
  BY StepSInv
<1>3. SInv => RowMatchesAccount
  BY DEF SInv
<1> QED BY <1>1, <1>2, <1>3, PTL DEF SSpec

\* No handler takes an account, its name or its money away, even when getUserId
\* fails and an account is made under the id 0.
THEOREM AccountsAlwaysStay == SSpec => AccountsStay
<1> DEFINE Stay == \A i \in DOMAIN account :
                      /\ i \in DOMAIN account'
                      /\ account'[i].username = account[i].username
                      /\ account'[i].balance >= account[i].balance
<1>1. SInit => STypes
  BY InitSInv DEF SInv
<1>2. STypes /\ [SNext]_sessionVars => STypes'
  BY TypesStep
<1>3. STypes /\ [SNext]_sessionVars => [Stay]_sessionVars
  <2> SUFFICES ASSUME STypes, NEW c \in Connections, Step(c), NEW i \in DOMAIN account
               PROVE  /\ i \in DOMAIN account'
                      /\ account'[i].username = account[i].username
                      /\ account'[i].balance >= account[i].balance
    BY DEF SNext, Step
  <2>1. account[i] \in [username : Names, balance : Nat]
    BY DEF STypes
  <2>2. CASE DepositById(c)
    <3>1. handler[c].amount \in Nat
      BY <2>2, OneHandler DEF DepositById
    <3> QED BY <2>1, <2>2, <3>1 DEF DepositById
  <2>3. CASE RegisterAccount(c) \/ LoginAccount(c)
    <3>1. account'[i] = account[i] /\ i \in DOMAIN account'
      BY <2>3 DEF RegisterAccount, LoginAccount, createUserAccount
    <3> QED BY <2>1, <3>1
  <2>4. CASE UNCHANGED account
    BY <2>1, <2>4
  <2> QED BY <2>2, <2>3, <2>4 DEF Step, RegisterUser, CheckLogin, LoginKnown,
             LoginUnknown, Exit, Reconnect, DepositByName
<1> QED BY <1>1, <1>2, <1>3, PTL DEF SSpec, AccountsStay

=============================================================================
