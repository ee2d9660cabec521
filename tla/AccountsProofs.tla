--------------------------- MODULE AccountsProofs ---------------------------
(***************************************************************************)
(* Theorems about Accounts.tla, for any number of registrations, logins    *)
(* and requests, any posts, clock and token lifetime.                      *)
(***************************************************************************)
EXTENDS Accounts, TLAPS

LEMMA InitType == Init => TypeOK
  <1> SUFFICES ASSUME Init PROVE TypeOK
    OBVIOUS
  <1> QED
    BY AccountsAssumption DEF Init, TypeOK

LEMMA ClaimsType ==
    ASSUME TypeOK, NEW c \in Rows
    PROVE  Claims(c) \in Tokens
  BY DEF TypeOK, Claims, Tokens, Rows

LEMMA NextType == TypeOK /\ [Next]_vars => TypeOK'
  <1> SUFFICES ASSUME TypeOK, [Next]_vars PROVE TypeOK'
    OBVIOUS
  <1> USE DEF TypeOK, registering, posts, login, reading
  <1>1. ASSUME NEW r \in Registrations,
               RegisterRead(r) \/ RegisterInsert(r) \/ RegisterError(r)
        PROVE  TypeOK'
    BY <1>1 DEF RegisterRead, RegisterInsert, RegisterError, Answer
  <1>2. ASSUME NEW c \in Registrations, Reassign(c) PROVE TypeOK'
    <2>1. post' \in [Registrations -> Posts]
      BY <1>2 DEF Reassign
    <2>2. since' \in [Registrations -> SUBSET [post : Posts, at : Instants]]
      BY <1>2 DEF Reassign
    <2> QED
      BY <1>2, <2>1, <2>2 DEF Reassign
  <1>3. ASSUME NEW l \in Logins, LoginRead(l) PROVE TypeOK'
    <2>1. CASE \E a \in accounts :
                  /\ lpc' = [lpc EXCEPT ![l] = "issue"]
                  /\ row' = [row EXCEPT ![l] =
                        [sub |-> a, post |-> post[a], at |-> now]]
      <3>1. PICK x \in Rows : row' = [row EXCEPT ![l] = x]
        BY <2>1 DEF Rows
      <3>2. lpc' = [lpc EXCEPT ![l] = "issue"]
        BY <2>1
      <3>3. row' \in [Logins -> Rows \cup {NoRow}]
            /\ \A k \in Logins : lpc'[k] \in {"issue", "TOKEN"} => row'[k] \in Rows
        BY <3>1, <3>2
      <3> QED
        BY <1>3, <3>2, <3>3 DEF LoginRead
    <2>2. CASE /\ row' = row
               /\ \E reply \in {"INTERNAL_ERROR", "UNAUTHORIZED"} :
                     lpc' = [lpc EXCEPT ![l] = reply]
      BY <1>3, <2>2 DEF LoginRead
    <2> QED
      BY <1>3, <2>1, <2>2 DEF LoginRead, Holders
  <1>8. ASSUME NEW l \in Logins, LoginIssue(l) PROVE TypeOK'
    <2>1. row[l] \in Rows
      BY <1>8 DEF LoginIssue
    <2>2. token' \in [Logins -> Tokens \cup {NoToken}]
      BY <1>8, <2>1, ClaimsType DEF LoginIssue
    <2> QED
      BY <1>8, <2>1, <2>2 DEF LoginIssue
  <1>4. ASSUME NEW g \in Reads, Authenticate(g) \/ GetAppointment(g)
        PROVE  TypeOK'
    BY <1>4 DEF Authenticate, GetAppointment
  <1>5. CASE QueryError
    BY <1>5 DEF QueryError
  <1>6. CASE Tick
    BY <1>6 DEF Tick
  <1>7. CASE UNCHANGED vars
    BY <1>7 DEF vars
  <1> QED
    BY <1>1, <1>2, <1>3, <1>4, <1>5, <1>6, <1>7, <1>8 DEF Next

(* Every variable keeps its type.                                          *)
THEOREM AccountsTypeCorrect == Spec => []TypeOK
  BY InitType, NextType, PTL DEF Spec

-----------------------------------------------------------------------------
(* Addresses.  A registration has no row before its INSERT passed or the   *)
(* reply was lost, and the unique index keeps two rows from one address.   *)
NotYet ==
    \A r \in Registrations :
        rpc[r] \in {"idle", "insert", "CONFLICT"} => r \notin accounts

UniqueAddress ==
    \A a, b \in accounts : form[a].email = form[b].email => a = b

(* Who has passed the password test passed it against the one account with *)
(* the address.                                                            *)
RowIsOwn ==
    \A l \in Logins : lpc[l] = "issue" =>
        /\ Holders(form[l].email) = {row[l].sub}
        /\ form[row[l].sub].password = form[l].password

AddressInv ==
    NotYet /\ UniqueAddress /\ RegistrationIsTruthful /\ RowIsOwn /\ LoginIsOwn

LEMMA InitAddress == Init => AddressInv
  BY DEF Init, AddressInv, NotYet, UniqueAddress, RegistrationIsTruthful,
         RowIsOwn, LoginIsOwn

(* What any step does to the rows: none goes, and one that comes has an    *)
(* address that was free.                                                  *)
LEMMA AccountsGrow ==
    ASSUME TypeOK, [Next]_vars
    PROVE  /\ form' = form
           /\ \/ accounts' = accounts
              \/ \E r \in Registrations : Admits(r) /\ accounts' = accounts \cup {r}
  <1> USE DEF registering, posts, login, reading
  <1>1. ASSUME NEW r \in Registrations,
               RegisterRead(r) \/ RegisterInsert(r) \/ RegisterError(r)
                 \/ Reassign(r)
        PROVE  /\ form' = form
               /\ accounts' = accounts \/ (Admits(r) /\ accounts' = accounts \cup {r})
    BY <1>1 DEF RegisterRead, RegisterInsert, RegisterError, Reassign
  <1>2. CASE ~ \E r \in Registrations :
                  RegisterRead(r) \/ RegisterInsert(r) \/ RegisterError(r)
                    \/ Reassign(r)
    BY <1>2 DEF Next, LoginRead, LoginIssue, Authenticate, GetAppointment, QueryError, Tick, vars
  <1> QED
    BY <1>1, <1>2

LEMMA NextUnique ==
    ASSUME TypeOK, [Next]_vars, UniqueAddress PROVE UniqueAddress'
  BY AccountsGrow DEF UniqueAddress, Admits, Holders

LEMMA NextTruthful ==
    ASSUME TypeOK, [Next]_vars, NotYet, RegistrationIsTruthful
    PROVE  NotYet' /\ RegistrationIsTruthful'
  <1> USE DEF TypeOK, NotYet, RegistrationIsTruthful, Holders,
              registering, posts, login, reading
  <1>1. ASSUME NEW r \in Registrations,
               RegisterRead(r) \/ RegisterInsert(r) \/ RegisterError(r)
        PROVE  NotYet' /\ RegistrationIsTruthful'
    <2>1. CASE RegisterRead(r)
      BY <2>1 DEF RegisterRead, Answer
    <2>2. CASE RegisterInsert(r)
      BY <2>2 DEF RegisterInsert, Answer, Admits
    <2>3. CASE RegisterError(r)
      BY <2>3 DEF RegisterError, Answer
    <2> QED
      BY <1>1, <2>1, <2>2, <2>3
  <1>2. CASE UNCHANGED <<rpc, accounts, form>>
    BY <1>2
  <1> QED
    BY <1>1, <1>2 DEF Next, Reassign, LoginRead, LoginIssue, Authenticate, GetAppointment,
                      QueryError, Tick, vars

(* The account with an address stays the only one: a later registration of *)
(* it is not admitted.                                                     *)
LEMMA HolderStays ==
    ASSUME TypeOK, [Next]_vars, NEW l \in Logins, Holders(form[l].email) # {}
    PROVE  Holders(form[l].email)' = Holders(form[l].email)
  BY AccountsGrow DEF Holders, Admits

(* Any step leaves a login's row and token, unless it is that login's own. *)
LEMMA LoginSteps ==
    ASSUME TypeOK, [Next]_vars, NEW l \in Logins
    PROVE  \/ LoginRead(l) \/ LoginIssue(l)
           \/ /\ lpc'[l] \in {lpc[l], "INTERNAL_ERROR"} /\ row'[l] = row[l]
              /\ token'[l] = token[l] /\ issued'[l] = issued[l]
              /\ lpc'[l] # lpc[l] => lpc[l] = "idle"
  <1> USE DEF TypeOK, registering, posts, login, reading
  <1>1. ASSUME NEW k \in Logins, LoginRead(k) \/ LoginIssue(k), k # l
        PROVE  /\ lpc'[l] = lpc[l] /\ row'[l] = row[l]
               /\ token'[l] = token[l] /\ issued'[l] = issued[l]
    BY <1>1 DEF LoginRead, LoginIssue
  <1>2. CASE QueryError
    BY <1>2 DEF QueryError
  <1>3. CASE UNCHANGED login
    BY <1>3
  <1> QED
    BY <1>1, <1>2, <1>3 DEF Next, RegisterRead, RegisterInsert, RegisterError,
       Reassign, Authenticate, GetAppointment, Tick, vars

LEMMA ReadSteps ==
    ASSUME TypeOK, NEW l \in Logins, LoginRead(l), lpc'[l] = "issue"
    PROVE  \E a \in Registrations :
              /\ Holders(form[l].email) = {a}
              /\ form[a].password = form[l].password
              /\ row'[l] = [sub |-> a, post |-> post[a], at |-> now]
              /\ UNCHANGED <<now, form, accounts, posts, token, issued>>
  BY DEF LoginRead, TypeOK, Holders, registering

LEMMA NextLogin ==
    ASSUME TypeOK, [Next]_vars, RowIsOwn, LoginIsOwn
    PROVE  RowIsOwn' /\ LoginIsOwn'
  <1>0. form' = form
    BY AccountsGrow
  <1>1. ASSUME NEW l \in Logins, lpc'[l] = "issue"
        PROVE  /\ Holders(form[l].email)' = {row'[l].sub}
               /\ form[row'[l].sub].password = form[l].password
    <2>1. CASE LoginRead(l)
      <3>1. PICK a \in Registrations :
                /\ Holders(form[l].email) = {a}
                /\ form[a].password = form[l].password
                /\ row'[l] = [sub |-> a, post |-> post[a], at |-> now]
        BY <1>1, <2>1, ReadSteps
      <3>2. row'[l].sub = a
        BY <3>1
      <3> QED
        BY <3>1, <3>2, HolderStays
    <2>2. CASE lpc[l] = "issue" /\ row'[l] = row[l]
      BY <2>2, HolderStays DEF RowIsOwn
    <2>3. ~LoginIssue(l)
      BY <1>1 DEF LoginIssue, TypeOK
    <2> QED
      BY <1>1, <2>1, <2>2, <2>3, LoginSteps
  <1>2. ASSUME NEW l \in Logins, token'[l] # NoToken
        PROVE  /\ Holders(form[l].email)' = {token'[l].sub}
               /\ form[token'[l].sub].password = form[l].password
    <2>1. CASE LoginIssue(l)
      <3>1. lpc[l] = "issue" /\ token'[l].sub = row[l].sub
        BY <2>1 DEF LoginIssue, Claims, TypeOK
      <3> QED
        BY <3>1, HolderStays DEF RowIsOwn
    <2>2. CASE token'[l] = token[l]
      BY <1>2, <2>2, HolderStays DEF LoginIsOwn
    <2>3. LoginRead(l) => token'[l] = token[l]
      BY DEF LoginRead
    <2> QED
      BY <2>1, <2>2, <2>3, LoginSteps
  <1> QED
    BY <1>0, <1>1, <1>2 DEF RowIsOwn, LoginIsOwn

LEMMA AddressAlways == Spec => []AddressInv
  <1>1. TypeOK /\ AddressInv /\ [Next]_vars => AddressInv'
    BY NextUnique, NextTruthful, NextLogin DEF AddressInv
  <1> QED
    BY <1>1, InitAddress, AccountsTypeCorrect, PTL DEF Spec

(* A 201 is an account; a refusal means that somebody else has the         *)
(* address.                                                                *)
THEOREM RegistrationIsTruthfulAlways == Spec => []RegistrationIsTruthful
  BY AddressAlways, PTL DEF AddressInv

(* A token names the one account that matches the login, for ever.         *)
THEOREM LoginIsOwnAlways == Spec => []LoginIsOwn
  BY AddressAlways, PTL DEF AddressInv

-----------------------------------------------------------------------------
(* Rights.  A login saw a post its account had then, and its token, once   *)
(* issued, says so for a lifetime.                                         *)
RowsTrue ==
    \A l \in Logins : lpc[l] \in {"issue", "TOKEN"} =>
        /\ row[l].at <= now
        /\ HeldSince(row[l].sub, row[l].post, row[l].at)

TokensTrue ==
    \A l \in Logins : token[l] # NoToken =>
        /\ lpc[l] = "TOKEN"
        /\ token[l].sub = row[l].sub /\ token[l].post = row[l].post
        /\ token[l].exp = issued[l] + Lifetime

(* A request that waits for its row carries such a token, accepted in time *)
(* and with a role that is known.                                          *)
BearersTrue ==
    \A g \in Reads : gpc[g] \in {"row", "SHOWN"} =>
        /\ \E l \in Logins :
              /\ token[l] # NoToken /\ token[l] = bearer[g]
              /\ asked[g] - issued[l] <= Lifetime
        /\ gpc[g] = "row" =>
              bearer[g].post.role \in {"CUSTOMER", "STAFF", "ADMIN"}

RightsInv == RowsTrue /\ TokensTrue /\ BearersTrue /\ RightsAreRecent

LEMMA InitRights == Init => RightsInv
  BY DEF Init, RightsInv, RowsTrue, TokensTrue, BearersTrue, RightsAreRecent

(* HeldSince, looked back on after a step.                                 *)
HeldNext(c, p, t) ==
    post'[c] = p \/ \E h \in since'[c] : h.post = p /\ h.at >= t

(* A post that was held at t or after is still in the books a step later.  *)
LEMMA HeldStays ==
    ASSUME TypeOK, [Next]_vars, NEW c \in Registrations, NEW p \in Posts,
           NEW t \in Int, t <= now, HeldSince(c, p, t)
    PROVE  HeldNext(c, p, t)
  <1> USE DEF TypeOK, registering, posts, login, reading
  <1>1. ASSUME NEW d \in Registrations, Reassign(d) PROVE HeldNext(c, p, t)
    <2>1. CASE c # d
      BY <1>1, <2>1 DEF Reassign, HeldSince, HeldNext
    <2>2. CASE c = d
      <3> DEFINE left == [post |-> post[c], at |-> now]
      <3>1. since'[c] = {h \in since[c] : h.post # post[c]} \cup {left}
        BY <1>1, <2>2 DEF Reassign
      <3>2. CASE p = post[c]
        <4>1. left \in since'[c] /\ left.post = p /\ left.at >= t
          BY <3>1, <3>2, AccountsAssumption
        <4> QED
          BY <4>1 DEF HeldSince, HeldNext
      <3>3. CASE p # post[c]
        BY <3>1, <3>3 DEF HeldSince, HeldNext
      <3> QED
        BY <3>2, <3>3
    <2> QED
      BY <2>1, <2>2
  <1>2. CASE UNCHANGED posts
    BY <1>2 DEF HeldSince, HeldNext
  <1> QED
    BY <1>1, <1>2 DEF Next, RegisterRead, RegisterInsert, RegisterError,
                      LoginRead, LoginIssue, Authenticate, GetAppointment, QueryError, Tick, vars

LEMMA ClockRises ==
    ASSUME TypeOK, [Next]_vars PROVE now' \in Int /\ now <= now'
  <1> USE AccountsAssumption DEF TypeOK, registering, posts, login, reading
  <1>1. CASE Tick
    BY <1>1 DEF Tick
  <1>2. CASE now' = now
    BY <1>2
  <1> QED
    BY <1>1, <1>2 DEF Next, RegisterRead, RegisterInsert, RegisterError, Reassign,
                      LoginRead, LoginIssue, Authenticate, GetAppointment, QueryError, vars

LEMMA RowTyped ==
    ASSUME TypeOK, NEW l \in Logins, lpc[l] \in {"issue", "TOKEN"}
    PROVE  /\ row[l].sub \in Registrations /\ row[l].post \in Posts
           /\ row[l].at \in Int
  BY AccountsAssumption DEF TypeOK, Rows

LEMMA NextRows ==
    ASSUME TypeOK, [Next]_vars, RowsTrue PROVE RowsTrue'
  <1> SUFFICES ASSUME NEW l \in Logins, lpc'[l] \in {"issue", "TOKEN"}
               PROVE  /\ row'[l].at <= now'
                      /\ HeldNext(row'[l].sub, row'[l].post, row'[l].at)
    BY DEF RowsTrue, HeldSince, HeldNext
  <1>1. CASE row'[l] = row[l] /\ lpc[l] \in {"issue", "TOKEN"}
    <2>1. /\ row[l].at <= now
          /\ HeldSince(row[l].sub, row[l].post, row[l].at)
      BY <1>1 DEF RowsTrue
    <2>2. now \in Int
      BY AccountsAssumption DEF TypeOK
    <2> QED
      BY <1>1, <2>1, <2>2, RowTyped, HeldStays, ClockRises
  <1>2. CASE LoginRead(l)
    <2>1. lpc'[l] = "issue"
      BY <1>2 DEF LoginRead, TypeOK
    <2>2. PICK a \in Registrations :
              /\ row'[l] = [sub |-> a, post |-> post[a], at |-> now]
              /\ UNCHANGED <<now, posts>>
      BY <1>2, <2>1, ReadSteps
    <2>3. row'[l].sub = a /\ row'[l].post = post[a] /\ row'[l].at = now
      BY <2>2
    <2> QED
      BY <2>2, <2>3, AccountsAssumption DEF HeldNext, TypeOK, posts
  <1>3. CASE LoginIssue(l)
    BY <1>1, <1>3 DEF LoginIssue
  <1> QED
    BY <1>1, <1>2, <1>3, LoginSteps

(* A token that is there stays, with the row it came from.                 *)
LEMMA TokenStays ==
    ASSUME TypeOK, [Next]_vars, TokensTrue, NEW l \in Logins, token[l] # NoToken
    PROVE  /\ token'[l] = token[l] /\ row'[l] = row[l]
           /\ issued'[l] = issued[l] /\ lpc'[l] = lpc[l]
  BY LoginSteps DEF TokensTrue, LoginRead, LoginIssue

LEMMA NextTokens ==
    ASSUME TypeOK, [Next]_vars, TokensTrue PROVE TokensTrue'
  <1> SUFFICES ASSUME NEW l \in Logins, token'[l] # NoToken
               PROVE  /\ lpc'[l] = "TOKEN"
                      /\ token'[l].sub = row'[l].sub
                      /\ token'[l].post = row'[l].post
                      /\ token'[l].exp = issued'[l] + Lifetime
    BY DEF TokensTrue
  <1>1. CASE token[l] # NoToken
    BY <1>1, TokenStays DEF TokensTrue
  <1>2. CASE token[l] = NoToken
    <2>1. LoginIssue(l)
      BY <1>2, LoginSteps DEF LoginRead
    <2>2. /\ lpc'[l] = "TOKEN" /\ row'[l] = row[l] /\ issued'[l] = now
          /\ token'[l] = Claims(row[l])
      BY <2>1 DEF LoginIssue, TypeOK
    <2> QED
      BY <2>2 DEF Claims
  <1> QED
    BY <1>1, <1>2

(* Any step leaves a request that was let in what it is, unless it is its  *)
(* own: the token is taken, or the row judged.                             *)
LEMMA RequestSteps ==
    ASSUME TypeOK, [Next]_vars, NEW g \in Reads
    PROVE  \/ Authenticate(g)
           \/ GetAppointment(g)
           \/ /\ bearer'[g] = bearer[g] /\ target'[g] = target[g]
              /\ asked'[g] = asked[g]
              /\ gpc'[g] \in {gpc[g], "INTERNAL_ERROR"}
  <1> USE DEF TypeOK, registering, posts, login, reading
  <1>1. ASSUME NEW h \in Reads, Authenticate(h) \/ GetAppointment(h), h # g
        PROVE  /\ bearer'[g] = bearer[g] /\ target'[g] = target[g]
               /\ asked'[g] = asked[g] /\ gpc'[g] = gpc[g]
    BY <1>1 DEF Authenticate, GetAppointment
  <1>2. CASE QueryError
    BY <1>2 DEF QueryError
  <1>3. CASE UNCHANGED reading
    BY <1>3
  <1> QED
    BY <1>1, <1>2, <1>3 DEF Next, RegisterRead, RegisterInsert, RegisterError,
       Reassign, LoginRead, LoginIssue, Tick, vars

LEMMA NextBearers ==
    ASSUME TypeOK, [Next]_vars, TokensTrue, BearersTrue PROVE BearersTrue'
  <1> SUFFICES ASSUME NEW g \in Reads, gpc'[g] \in {"row", "SHOWN"}
               PROVE  /\ \E l \in Logins :
                            /\ token'[l] # NoToken /\ token'[l] = bearer'[g]
                            /\ asked'[g] - issued'[l] <= Lifetime
                      /\ gpc'[g] = "row" =>
                            bearer'[g].post.role \in {"CUSTOMER", "STAFF", "ADMIN"}
    BY DEF BearersTrue
  <1>1. CASE Authenticate(g)
    <2>1. PICK l \in Logins :
              /\ token[l] # NoToken
              /\ bearer'[g] = token[l] /\ asked'[g] = now
              /\ gpc'[g] = "row" /\ Alive(token[l])
              /\ token[l].post.role \in {"CUSTOMER", "STAFF", "ADMIN"}
      BY <1>1 DEF Authenticate, TypeOK
    <2>2. now \in Int /\ issued[l] \in Int /\ Lifetime \in Nat
      BY AccountsAssumption DEF TypeOK
    <2>3. now - issued[l] <= Lifetime
      BY <2>1, <2>2 DEF Alive, TokensTrue
    <2>4. token'[l] = token[l] /\ issued'[l] = issued[l]
      BY <2>1, TokenStays
    <2> QED
      BY <2>1, <2>3, <2>4
  <1>2. CASE /\ bearer'[g] = bearer[g] /\ asked'[g] = asked[g]
             /\ gpc[g] \in {"row", "SHOWN"}
             /\ gpc'[g] = "row" => gpc[g] = "row"
    <2>1. PICK l \in Logins :
              /\ token[l] # NoToken /\ token[l] = bearer[g]
              /\ asked[g] - issued[l] <= Lifetime
      BY <1>2 DEF BearersTrue
    <2>2. token'[l] = token[l] /\ issued'[l] = issued[l]
      BY <2>1, TokenStays
    <2> QED
      BY <1>2, <2>1, <2>2 DEF BearersTrue
  <1>3. CASE GetAppointment(g)
    BY <1>2, <1>3 DEF GetAppointment, TypeOK
  <1> QED
    BY <1>1, <1>2, <1>3, RequestSteps

(* The login behind a request, its post at the time and what was shown.    *)
LEMMA NextRights ==
    ASSUME TypeOK, [Next]_vars, RowsTrue, TokensTrue, BearersTrue, RightsAreRecent
    PROVE  RightsAreRecent'
  <1> SUFFICES ASSUME NEW g \in Reads, gpc'[g] = "SHOWN"
               PROVE  \E l \in Logins, p \in Posts :
                          /\ token'[l] = bearer'[g]
                          /\ asked'[g] - issued'[l] <= Lifetime
                          /\ Entitled(bearer'[g].sub, p, target'[g])
                          /\ HeldNext(bearer'[g].sub, p, row'[l].at)
    BY DEF RightsAreRecent, Entitled, HeldSince, HeldNext
  <1>1. gpc[g] \in {"row", "SHOWN"} /\ bearer'[g] = bearer[g]
        /\ target'[g] = target[g] /\ asked'[g] = asked[g]
    BY RequestSteps DEF Authenticate, GetAppointment, TypeOK
  <1>2. \E l \in Logins, p \in Posts :
            /\ token[l] # NoToken /\ token[l] = bearer[g]
            /\ asked[g] - issued[l] <= Lifetime
            /\ Entitled(bearer[g].sub, p, target[g])
            /\ HeldSince(bearer[g].sub, p, row[l].at)
    <2>1. CASE gpc[g] = "row"
      <3>1. PICK l \in Logins :
                /\ token[l] # NoToken /\ token[l] = bearer[g]
                /\ asked[g] - issued[l] <= Lifetime
        BY <2>1 DEF BearersTrue
      <3>2. /\ MayRead(bearer[g].sub, bearer[g].post, target[g])
            /\ bearer[g].post.role \in {"CUSTOMER", "STAFF", "ADMIN"}
        <4>1. GetAppointment(g)
          BY <2>1, RequestSteps DEF Authenticate
        <4> QED
          BY <2>1, <4>1 DEF GetAppointment, TypeOK, BearersTrue
      <3>3. Entitled(bearer[g].sub, bearer[g].post, target[g])
        BY <3>2 DEF MayRead, Entitled
      <3>4. /\ bearer[g].post \in Posts
            /\ HeldSince(bearer[g].sub, bearer[g].post, row[l].at)
        BY <3>1, RowTyped DEF TokensTrue, RowsTrue
      <3> QED
        BY <3>1, <3>3, <3>4
    <2>2. CASE gpc[g] = "SHOWN"
      <3>1. PICK l \in Logins, p \in Posts :
                /\ token[l] = bearer[g] /\ asked[g] - issued[l] <= Lifetime
                /\ Entitled(bearer[g].sub, p, target[g])
                /\ HeldSince(bearer[g].sub, p, row[l].at)
        BY <2>2 DEF RightsAreRecent
      <3>2. token[l] # NoToken
        BY <2>2, <3>1 DEF BearersTrue
      <3> QED
        BY <3>1, <3>2
    <2> QED
      BY <1>1, <2>1, <2>2
  <1>3. PICK l \in Logins, p \in Posts :
            /\ token[l] # NoToken /\ token[l] = bearer[g]
            /\ asked[g] - issued[l] <= Lifetime
            /\ Entitled(bearer[g].sub, p, target[g])
            /\ HeldSince(bearer[g].sub, p, row[l].at)
    BY <1>2
  <1>4. /\ token'[l] = token[l] /\ issued'[l] = issued[l] /\ row'[l] = row[l]
    BY <1>3, TokenStays
  <1>5. HeldNext(bearer[g].sub, p, row[l].at)
    <2>1. lpc[l] = "TOKEN" /\ bearer[g].sub = row[l].sub /\ row[l].at <= now
      BY <1>3 DEF TokensTrue, RowsTrue
    <2> QED
      BY <1>3, <2>1, RowTyped, HeldStays
  <1> QED
    BY <1>1, <1>3, <1>4, <1>5

(* Who is shown an appointment logged in a token lifetime before or later, *)
(* and its account was entitled to it then or has been since.              *)
THEOREM RightsAreRecentAlways == Spec => []RightsAreRecent
  <1>1. TypeOK /\ RightsInv /\ [Next]_vars => RightsInv'
    BY NextRows, NextTokens, NextBearers, NextRights DEF RightsInv
  <1>2. Spec => []RightsInv
    BY <1>1, InitRights, AccountsTypeCorrect, PTL DEF Spec
  <1> QED
    BY <1>2, PTL DEF RightsInv
=============================================================================
