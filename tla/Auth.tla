-------------------------------- MODULE Auth --------------------------------
(***************************************************************************)
(* AuthService (auth-service/src/services/authService.ts) over its         *)
(* in-memory repositories: registerUser, login and provisionTenant.        *)
(*                                                                         *)
(* One action per stretch between two awaits that touch what is shared: a  *)
(* lookup runs when it is called, its result is looked at after the await. *)
(* The repositories never change an object in place, so what a call has    *)
(* looked up is a copy that may be out of date.                            *)
(*                                                                         *)
(* Identifiers are the positions in the order of insertion, zero for null. *)
(* E-mail addresses are only compared, in lower case, and stand for that;  *)
(* a hash stands for its password.  Hashing and comparing may be rejected  *)
(* each time.  Every user the service stores is active, and names, roles   *)
(* and limits decide nothing here.                                         *)
(***************************************************************************)
EXTENDS Naturals, Sequences

CONSTANTS
    MaxCalls,           \* bound: calls of the service, numbered as they come
    Registrations,      \* the RegisterUserDTOs: [tenant, email, password]
    LoginRequests,      \* the LoginDTOs: [tenant, email, password]
    TenantRequests,     \* the CreateTenantDTOs: [slug, email, password]
    InitialTenants      \* tenants the repository starts with: [slug, isActive]

Slugs ==
    {InitialTenants[t].slug : t \in DOMAIN InitialTenants} \cup {q.slug : q \in TenantRequests}

ASSUME AuthAssumption == InitialTenants \in Seq([slug : Slugs, isActive : BOOLEAN])

Calls == 1 .. MaxCalls

VARIABLES
    tenants, users, audit,      \* the three repositories
    pc, dto, found, count,      \* per call: where it is, its request, the object
                                \* it has in hand, and that object's failed count
    mark,               \* history, per call: how many tenants and users there
                        \* were when it made sure that its own is new
    tally               \* history, per user: the call that stored it, its failed
                        \* logins, those since the last success, and whether
                        \* its logins never overlapped

repositories == <<tenants, users, audit>>
history == <<mark, tally>>
vars == <<repositories, pc, dto, found, count, history>>

Init ==
    /\ tenants = InitialTenants
    /\ users = <<>>
    /\ audit = {}
    /\ pc = [c \in Calls |-> "idle"]
    /\ dto = [c \in Calls |-> <<>>]
    /\ found = [c \in Calls |-> 0]
    /\ count = [c \in Calls |-> 0]
    /\ mark = [c \in Calls |-> [tenants |-> 0, users |-> 0]]
    /\ tally = <<>>

Go(c, label) == pc' = [pc EXCEPT ![c] = label]
Take(c, n) == found' = [found EXCEPT ![c] = n]

----------------------------------------------------------------------------
(* Variants of the definitions below, each with one plausible mistake.     *)

\* A result that was found does not stop the registration.
IsNewAlways(c) == found[c] \in Nat

\* A later entry hides an earlier one.
LastUser(email, tenant) ==
    LET same == {u \in DOMAIN users : users[u].email = email /\ users[u].tenant = tenant}
    IN  IF same = {} THEN 0 ELSE CHOOSE u \in same : \A v \in same : v <= u

\* A login that succeeds leaves the count of failures.
CountKept(c, isValid) == IF isValid THEN count[c] ELSE count[c] + 1

----------------------------------------------------------------------------
(* The repositories                                                        *)

\* findByEmailAndTenant returns the first match in the order of insertion.
findByEmailAndTenant(email, tenant) ==
    LET same == {u \in DOMAIN users : users[u].email = email /\ users[u].tenant = tenant}
    IN  IF same = {} THEN 0 ELSE CHOOSE u \in same : \A v \in same : u <= v

findBySlug(slug) ==
    LET same == {t \in DOMAIN tenants : tenants[t].slug = slug}
    IN  IF same = {} THEN 0 ELSE CHOOSE t \in same : \A s \in same : t <= s

createUser(c, tenant) ==
    /\ users' = Append(users, [tenant |-> tenant, email |-> dto[c].email,
                               password |-> dto[c].password, failedLoginAttempts |-> 0])
    /\ tally' = Append(tally, [by |-> c, failures |-> 0, inRow |-> 0, apart |-> TRUE])

createTenant(slug) == tenants' = Append(tenants, [slug |-> slug, isActive |-> TRUE])

record(c, user) == audit' = audit \cup {[call |-> c, user |-> user]}

----------------------------------------------------------------------------
(* registerUser                                                            *)

registerUser(c, request) ==
    /\ pc[c] = "idle"
    /\ dto' = [dto EXCEPT ![c] = request]
    /\ Take(c, IF request.tenant \in DOMAIN tenants THEN request.tenant ELSE 0)
    /\ Go(c, "tenant")
    /\ UNCHANGED <<repositories, count, history>>

CheckTenant(c) ==
    /\ pc[c] = "tenant"
    /\ \/ /\ found[c] = 0
          /\ Go(c, "NotFound")
          /\ UNCHANGED <<found, mark>>
       \/ /\ found[c] # 0
          /\ ~tenants[found[c]].isActive
          /\ Go(c, "Forbidden")
          /\ UNCHANGED <<found, mark>>
       \/ /\ found[c] # 0
          /\ tenants[found[c]].isActive
          /\ Take(c, findByEmailAndTenant(dto[c].email, dto[c].tenant))
          /\ mark' = [mark EXCEPT ![c].users = Len(users)]
          /\ Go(c, "existing")
    /\ UNCHANGED <<repositories, dto, count, tally>>

IsNew(c) == found[c] = 0

\* The hash of the password is awaited.
CheckEmail(c) ==
    /\ pc[c] = "existing"
    /\ Go(c, IF IsNew(c) THEN "hash" ELSE "Conflict")
    /\ UNCHANGED <<repositories, dto, found, count, history>>

CreateUser(c) ==
    /\ pc[c] = "hash"
    /\ createUser(c, dto[c].tenant)
    /\ Take(c, Len(users) + 1)
    /\ Go(c, "registered")
    /\ UNCHANGED <<tenants, audit, dto, count, mark>>

\* The tokens are generated and the registration, or the login, is recorded.
IssueTokens(c) ==
    /\ pc[c] \in {"registered", "verified"}
    /\ record(c, found[c])
    /\ Go(c, IF pc[c] = "verified" THEN "loggedIn" ELSE "done")
    /\ UNCHANGED <<tenants, users, dto, found, count, history>>

----------------------------------------------------------------------------
(* login                                                                   *)

\* Logins that have read user u and have not written it back
Reading(u) == {c \in Calls : pc[c] \in {"user", "verify"} /\ found[c] = u}

login(c, request) ==
    LET u == findByEmailAndTenant(request.email, request.tenant)
    IN  /\ pc[c] = "idle"
        /\ dto' = [dto EXCEPT ![c] = request]
        /\ Take(c, u)
        /\ Go(c, "user")
        /\ IF u = 0
           THEN UNCHANGED <<count, tally>>
           ELSE /\ count' = [count EXCEPT ![c] = users[u].failedLoginAttempts]
                /\ tally' = [tally EXCEPT ![u].apart = @ /\ Reading(u) = {}]
        /\ UNCHANGED <<repositories, mark>>

\* The comparison with the stored hash is awaited.
CheckUser(c) ==
    /\ pc[c] = "user"
    /\ Go(c, IF found[c] = 0 THEN "Unauthorized" ELSE "verify")
    /\ UNCHANGED <<repositories, dto, found, count, history>>

\* What failedLoginAttempts is set to, from the object looked up before
AttemptsAfter(c, isValid) == IF isValid THEN 0 ELSE count[c] + 1

\* userRepo.update; a failed login then throws, a successful one goes on
UpdateUser(c) ==
    LET u == found[c]
        isValid == users[u].password = dto[c].password
    IN  /\ pc[c] = "verify"
        /\ users' = [users EXCEPT ![u].failedLoginAttempts = AttemptsAfter(c, isValid)]
        /\ tally' = [tally EXCEPT ![u].failures = IF isValid THEN @ ELSE @ + 1,
                                  ![u].inRow = IF isValid THEN 0 ELSE @ + 1]
        /\ Go(c, IF isValid THEN "verified" ELSE "Unauthorized")
        /\ UNCHANGED <<tenants, audit, dto, found, count, mark>>

----------------------------------------------------------------------------
(* provisionTenant                                                         *)

provisionTenant(c, request) ==
    /\ pc[c] = "idle"
    /\ dto' = [dto EXCEPT ![c] = request]
    /\ Take(c, findBySlug(request.slug))
    /\ mark' = [mark EXCEPT ![c].tenants = Len(tenants)]
    /\ Go(c, "slug")
    /\ UNCHANGED <<repositories, count, tally>>

\* Create the tenant; then the hash of the administrator's password is awaited.
CreateTenant(c) ==
    /\ pc[c] = "slug"
    /\ IF IsNew(c)
       THEN /\ createTenant(dto[c].slug)
            /\ Take(c, Len(tenants) + 1)
            /\ mark' = [mark EXCEPT ![c].users = Len(users)]
            /\ Go(c, "admin")
       ELSE /\ Go(c, "Conflict")
            /\ UNCHANGED <<tenants, found, mark>>
    /\ UNCHANGED <<users, audit, dto, count, tally>>

\* Variant: the administrator is refused when his address is taken by then.
CreateAdminIfFree(c) ==
    /\ pc[c] = "admin"
    /\ IF findByEmailAndTenant(dto[c].email, found[c]) = 0
       THEN createUser(c, found[c]) /\ Go(c, "provisioned")
       ELSE Go(c, "Conflict") /\ UNCHANGED <<users, tally>>
    /\ UNCHANGED <<tenants, audit, dto, found, count, mark>>

\* The administrator is stored without a look at the address.
CreateAdmin(c) ==
    /\ pc[c] = "admin"
    /\ createUser(c, found[c])
    /\ Go(c, "provisioned")
    /\ UNCHANGED <<tenants, audit, dto, found, count, mark>>

----------------------------------------------------------------------------
(* PasswordHasher                                                          *)

\* The key derivation that a call awaits reports an error: the promise is
\* rejected and the call throws.  What it has stored stays: after
\* registerUser and login nothing, after provisionTenant the tenant.
HashFails(c) ==
    /\ pc[c] \in {"hash", "verify", "admin"}
    /\ Go(c, IF pc[c] = "admin" THEN "orphaned" ELSE "Error")
    /\ UNCHANGED <<repositories, dto, found, count, history>>

----------------------------------------------------------------------------
Call(c) ==
    /\ \A d \in 1 .. c - 1 : pc[d] # "idle"
    /\ \/ \E request \in Registrations : registerUser(c, request)
       \/ \E request \in LoginRequests : login(c, request)
       \/ \E request \in TenantRequests : provisionTenant(c, request)

Proceed(c) ==
    \/ CheckTenant(c) \/ CheckEmail(c) \/ CreateUser(c) \/ IssueTokens(c)
    \/ CheckUser(c) \/ UpdateUser(c)
    \/ CreateTenant(c) \/ CreateAdmin(c)
    \/ HashFails(c)

Next == \E c \in Calls : Call(c) \/ Proceed(c)

Spec == Init /\ [][Next]_vars

----------------------------------------------------------------------------
\* Nothing but overlap makes duplicates.  A user with the address of an earlier
\* one in the same tenant was stored by a call that had made sure it was new
\* before the earlier one was stored, and provisionTenant may count as sure
\* from the moment it made the tenant; likewise a tenant with an earlier slug.
DuplicatesOverlap ==
    /\ \A u, v \in DOMAIN users :
        u < v /\ users[u].email = users[v].email /\ users[u].tenant = users[v].tenant
            => mark[tally[v].by].users < u
    /\ \A c \in Calls, s \in DOMAIN tenants :
        pc[c] \in {"admin", "orphaned", "provisioned"} /\ s < found[c] /\ tenants[s].slug = dto[c].slug
            => mark[c].tenants < s

\* failedLoginAttempts is written from a copy read two awaits earlier: failures
\* that overlap are counted once, and a failure can bring back a count that a
\* success has reset.  It never exceeds the failures there were, and is exactly
\* those since the last success for a user whose logins never overlapped.
CountSound ==
    \A u \in DOMAIN users :
        /\ users[u].failedLoginAttempts <= tally[u].failures
        /\ tally[u].apart => users[u].failedLoginAttempts = tally[u].inRow

\* Whoever was given tokens by login presented the password of the user his
\* address stands for, then and at any later time: a duplicate that is stored
\* while or after he logs in does not take the address over.
LoginOfOwner ==
    \A c \in Calls :
        pc[c] = "loggedIn" =>
            LET u == findByEmailAndTenant(dto[c].email, dto[c].tenant)
            IN  /\ u = found[c]
                /\ users[u].password = dto[c].password

\* A tenant is stored before the hash of its administrator's password, and not
\* taken back when that is rejected: it then stays, its slug is taken, and the
\* administrator it was provisioned with is never stored.  Nothing else leaves
\* it without him: whoever registers in between, also with his address, every
\* tenant is of a call of provisionTenant that waits for the hash, whose hash
\* was rejected, or that stored him; in the first two cases it stored nobody.
AdminUnlessRejected ==
    \A t \in DOMAIN tenants : t > Len(InitialTenants) =>
        \E c \in Calls :
            /\ found[c] = t
            /\ pc[c] \in {"admin", "orphaned", "provisioned"}
            /\ pc[c] = "provisioned" <=>
                  \E u \in DOMAIN users : users[u].tenant = t /\ tally[u].by = c

\* Accounts are whose they should be: logins are of the owner of the address,
\* and a tenant has the administrator of the call of provisionTenant that made
\* it, unless that call waits for the hash of his password or the hash was
\* rejected.
AccountsAgree == LoginOfOwner /\ AdminUnlessRejected
=============================================================================
