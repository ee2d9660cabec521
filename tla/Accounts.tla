------------------------------ MODULE Accounts ------------------------------
(***************************************************************************)
(* Customers, tokens and what a token lets its bearer read:                *)
(* AuthService.register and login (app/services/auth_service.py), the      *)
(* claims of a token (app/core/security.py) and get_appointment.           *)
(*                                                                         *)
(* An account is named after the registration that inserts it.  bcrypt is  *)
(* taken to accept a password exactly when it is the one that was hashed,  *)
(* and a token to be readable and unforgeable: a token is its claims.      *)
(* An account's role is not written by any route; operators change it in   *)
(* the database.  An appointment is what the access rule looks at, its     *)
(* customer and its dealership, neither of which ever changes.             *)
(***************************************************************************)
EXTENDS Integers

CONSTANTS
    Registrations, \* executions of POST /auth/register
    Logins,        \* executions of POST /auth/login
    Reads,         \* executions of GET /appointments/{id}
    Credentials,   \* [email, password] that are sent
    Posts,         \* [role, dealership] an account may have
    NewPost,       \* the one it starts with: CUSTOMER, no dealership
    Employees,     \* the accounts that operators assign posts to
    Appointments,  \* [customer, dealership]
    NoToken, NoRow,
    Instants,      \* the moments the clock is read at
    Lifetime,      \* ACCESS_TOKEN_EXPIRE_MINUTES
    Faults         \* "db": a database call raises

ASSUME AccountsAssumption ==
    /\ NewPost \in Posts
    /\ Instants \subseteq Int /\ Lifetime \in Nat
    /\ \A a \in Appointments : a.customer \in Registrations

VARIABLES
    now,
    form,      \* what a registration or a login is sent
    rpc,       \* where register stands, or what it answered
    accounts,  \* the committed rows of customers
    post,      \* their role and dealership_id columns
    lpc,       \* where login stands, or what it answered
    row,       \* what its SELECT returned; at, history: and when
    token,     \* the token it returned
    issued,    \* history: when
    gpc,       \* where get_appointment stands, or what it answered
    bearer,    \* the token it was sent
    target,    \* the appointment it was asked for
    asked,     \* when
    since      \* history: the last moment each account had each earlier post

registering == <<rpc, accounts>>
posts == <<post, since>>
login == <<lpc, row, token, issued>>
reading == <<gpc, bearer, target, asked>>
vars == <<now, form, registering, posts, login, reading>>

(* Mutant: the claims carry no dealership_id.                              *)
ClaimsNoDealership(c) ==
    [sub |-> c.sub, post |-> [role |-> c.post.role], exp |-> now + Lifetime]

(* The payload of a token: sub, role and dealership_id of the row that was *)
(* read, and exp, counted from now.                                        *)
Claims(c) == [sub |-> c.sub, post |-> c.post, exp |-> now + Lifetime]
Rows == [sub : Registrations, post : Posts, at : Instants]
Tokens == [sub : Registrations, post : Posts,
           exp : {t + Lifetime : t \in Instants}]

-----------------------------------------------------------------------------
TypeOK ==
    /\ now \in Instants
    /\ form \in [Registrations \cup Logins -> Credentials]
    /\ rpc \in [Registrations ->
          {"idle", "insert", "CREATED", "CONFLICT", "INTERNAL_ERROR"}]
    /\ accounts \subseteq Registrations
    /\ post \in [Registrations -> Posts]
    /\ lpc \in [Logins ->
          {"idle", "issue", "TOKEN", "UNAUTHORIZED", "INTERNAL_ERROR"}]
    /\ row \in [Logins -> Rows \cup {NoRow}]
    /\ \A l \in Logins : lpc[l] \in {"issue", "TOKEN"} => row[l] \in Rows
    /\ token \in [Logins -> Tokens \cup {NoToken}]
    /\ issued \in [Logins -> Instants]
    /\ gpc \in [Reads -> {"idle", "row", "SHOWN", "UNAUTHORIZED", "FORBIDDEN",
                          "NOT_FOUND", "INTERNAL_ERROR"}]
    /\ bearer \in [Reads -> Tokens \cup {NoToken}]
    /\ target \in [Reads -> Appointments]
    /\ asked \in [Reads -> Instants]
    /\ since \in [Registrations -> SUBSET [post : Posts, at : Instants]]

Init ==
    /\ now \in Instants /\ \A t \in Instants : now <= t
    /\ form \in [Registrations \cup Logins -> Credentials]
    /\ rpc = [r \in Registrations |-> "idle"]
    /\ accounts = {}
    /\ post = [r \in Registrations |-> NewPost]
    /\ lpc = [l \in Logins |-> "idle"]
    /\ row = [l \in Logins |-> NoRow]
    /\ token = [l \in Logins |-> NoToken]
    /\ issued = [l \in Logins |-> now]
    /\ gpc = [g \in Reads |-> "idle"]
    /\ bearer = [g \in Reads |-> NoToken]
    /\ target \in [Reads -> Appointments]
    /\ asked = [g \in Reads |-> now]
    /\ since = [r \in Registrations |-> {}]

-----------------------------------------------------------------------------
(* register.                                                               *)
Answer(r, reply) == rpc' = [rpc EXCEPT ![r] = reply]

(* The accounts with an e-mail address.                                    *)
Holders(email) == {a \in accounts : form[a].email = email}

(* The e-mail is looked up; a hit is the 409.                              *)
RegisterRead(r) ==
    /\ rpc[r] = "idle"
    /\ Answer(r, IF Holders(form[r].email) # {} THEN "CONFLICT" ELSE "insert")
    /\ UNCHANGED <<now, form, accounts, posts, login, reading>>

(* Mutant: customers.email is not unique.                                  *)
AdmitsAny(r) == TRUE

(* customers.email is unique.                                              *)
Admits(r) == Holders(form[r].email) = {}

(* Mutant: ON CONFLICT DO NOTHING.                                         *)
RegisterOrIgnore(r) ==
    /\ rpc[r] = "insert"
    /\ accounts' = IF Admits(r) THEN accounts \cup {r} ELSE accounts
    /\ Answer(r, "CREATED")
    /\ UNCHANGED <<now, form, posts, login, reading>>

(* commit(): INSERT and COMMIT.  An INSERT that meets an uncommitted one   *)
(* of the same address waits for its outcome; a committed one raises an    *)
(* IntegrityError, which nothing catches.                                  *)
RegisterInsert(r) ==
    /\ rpc[r] = "insert"
    /\ \/ /\ Admits(r)
          /\ accounts' = accounts \cup {r}
          /\ Answer(r, "CREATED")
       \/ /\ ~Admits(r)
          /\ Answer(r, "INTERNAL_ERROR")
          /\ UNCHANGED accounts
    /\ UNCHANGED <<now, form, posts, login, reading>>

(* A call raises: the look-up, or the commit or the refresh after it, when *)
(* the row may be there already.                                           *)
RegisterError(r) ==
    /\ "db" \in Faults
    /\ \/ rpc[r] \in {"idle", "insert"} /\ UNCHANGED accounts
       \/ rpc[r] = "insert" /\ Admits(r) /\ accounts' = accounts \cup {r}
    /\ Answer(r, "INTERNAL_ERROR")
    /\ UNCHANGED <<now, form, posts, login, reading>>

-----------------------------------------------------------------------------
(* login: one query, and the password is compared with the hash of the row *)
(* it returned.  Two rows would make scalar_one_or_none raise.             *)
LoginRead(l) ==
    /\ lpc[l] = "idle"
    /\ LET found == Holders(form[l].email)
       IN  \/ /\ \E a, b \in found : a # b
              /\ lpc' = [lpc EXCEPT ![l] = "INTERNAL_ERROR"]
              /\ UNCHANGED row
           \/ \E a \in found :
              /\ found = {a}
              /\ form[a].password = form[l].password
              /\ lpc' = [lpc EXCEPT ![l] = "issue"]
              /\ row' = [row EXCEPT ![l] =
                    [sub |-> a, post |-> post[a], at |-> now]]
           \/ /\ \A a \in found : form[a].password # form[l].password
              /\ \A a, b \in found : a = b
              /\ lpc' = [lpc EXCEPT ![l] = "UNAUTHORIZED"]
              /\ UNCHANGED row
    /\ UNCHANGED <<now, form, registering, posts, token, issued, reading>>

(* Only when bcrypt is done is the clock read and the token made: the post *)
(* may have changed since the query.                                       *)
LoginIssue(l) ==
    /\ lpc[l] = "issue"
    /\ lpc' = [lpc EXCEPT ![l] = "TOKEN"]
    /\ token' = [token EXCEPT ![l] = Claims(row[l])]
    /\ issued' = [issued EXCEPT ![l] = now]
    /\ UNCHANGED <<now, form, registering, posts, row, reading>>

-----------------------------------------------------------------------------
(* Mutant: the exp claim is not verified.                                  *)
AliveForever(t) == TRUE

(* decode_token: a token is good until its exp has passed.                 *)
Alive(t) == now <= t.exp

(* get_current_user and require_customer: the token is all there is to it, *)
(* the account's row is not read.                                          *)
Authenticate(g) ==
    /\ gpc[g] = "idle"
    /\ \E l \in Logins :
          /\ token[l] # NoToken
          /\ bearer' = [bearer EXCEPT ![g] = token[l]]
          /\ asked' = [asked EXCEPT ![g] = now]
          /\ gpc' = [gpc EXCEPT ![g] =
                IF ~Alive(token[l]) THEN "UNAUTHORIZED"
                ELSE IF token[l].post.role \notin {"CUSTOMER", "STAFF", "ADMIN"}
                THEN "FORBIDDEN" ELSE "row"]
    /\ UNCHANGED <<now, form, registering, posts, login, target>>

(* The access rule of get_appointment.                                     *)
MayRead(sub, p, a) ==
    /\ p.role = "CUSTOMER" => a.customer = sub
    /\ p.role = "STAFF" => a.dealership = p.dealership

(* The row is read and judged against the claims.  Whether the appointment *)
(* exists yet is left open, beyond that its customer must.                 *)
GetAppointment(g) ==
    /\ gpc[g] = "row"
    /\ \/ gpc' = [gpc EXCEPT ![g] = "NOT_FOUND"]
       \/ /\ target[g].customer \in accounts
          /\ gpc' = [gpc EXCEPT ![g] =
                IF MayRead(bearer[g].sub, bearer[g].post, target[g])
                THEN "SHOWN" ELSE "FORBIDDEN"]
    /\ UNCHANGED <<now, form, registering, posts, login, bearer, target,
                   asked>>

QueryError ==
    /\ "db" \in Faults
    /\ \/ /\ \E l \in Logins :
                lpc[l] = "idle" /\ lpc' = [lpc EXCEPT ![l] = "INTERNAL_ERROR"]
          /\ UNCHANGED gpc
       \/ /\ \E g \in Reads :
                gpc[g] = "row" /\ gpc' = [gpc EXCEPT ![g] = "INTERNAL_ERROR"]
          /\ UNCHANGED lpc
    /\ UNCHANGED <<now, form, registering, posts, row, token, issued, bearer,
                   target, asked>>

-----------------------------------------------------------------------------
(* The environment: an operator changes an account's post; time passes.    *)
Reassign(c) ==
    /\ c \in accounts \cap Employees
    /\ \E p \in Posts \ {post[c]} : post' = [post EXCEPT ![c] = p]
    /\ since' = [since EXCEPT ![c] =
          {h \in @ : h.post # post[c]} \cup {[post |-> post[c], at |-> now]}]
    /\ UNCHANGED <<now, form, registering, login, reading>>

Tick ==
    /\ \E t \in Instants : t > now /\ now' = t
    /\ UNCHANGED <<form, registering, posts, login, reading>>

Next ==
    \/ \E r \in Registrations :
          RegisterRead(r) \/ RegisterInsert(r) \/ RegisterError(r) \/ Reassign(r)
    \/ \E l \in Logins : LoginRead(l) \/ LoginIssue(l)
    \/ \E g \in Reads : Authenticate(g) \/ GetAppointment(g)
    \/ QueryError
    \/ Tick

Spec == Init /\ [][Next]_vars

-----------------------------------------------------------------------------
(* What a registration is told is true: a 201 is an account, and a refusal *)
(* (409, or the 500 of a lost race) left no row and means that somebody    *)
(* else has the address.                                                   *)
RegistrationIsTruthful ==
    \A r \in Registrations :
        /\ rpc[r] = "CREATED" => r \in accounts
        /\ \/ rpc[r] = "CONFLICT"
           \/ rpc[r] = "INTERNAL_ERROR" /\ "db" \notin Faults
           => r \notin accounts /\ Holders(form[r].email) # {}

(* A token names the one account that has the address and the password of  *)
(* the login, and no registration that runs meanwhile, or comes later,     *)
(* takes the address over.                                                 *)
LoginIsOwn ==
    \A l \in Logins : token[l] # NoToken =>
        /\ Holders(form[l].email) = {token[l].sub}
        /\ form[token[l].sub].password = form[l].password

(* Who may read an appointment (NFR-7 and "Access control" of              *)
(* 03-api-design.md).                                                      *)
Entitled(c, p, a) ==
    \/ a.customer = c
    \/ p.role = "STAFF" /\ p.dealership = a.dealership
    \/ p.role = "ADMIN"

(* The account c has had the post p at t or after.                         *)
HeldSince(c, p, t) ==
    post[c] = p \/ \E h \in since[c] : h.post = p /\ h.at >= t

(* A token outlives a change of its account's post, but not for long: who  *)
(* is shown an appointment got the token at most a lifetime before the     *)
(* request, and the account had a post that entitles to it when that login *)
(* read its row, or later.                                                 *)
RightsAreRecent ==
    \A g \in Reads : gpc[g] = "SHOWN" =>
        \E l \in Logins, p \in Posts :
            /\ token[l] = bearer[g] /\ asked[g] - issued[l] <= Lifetime
            /\ Entitled(bearer[g].sub, p, target[g])
            /\ HeldSince(bearer[g].sub, p, row[l].at)
=============================================================================
