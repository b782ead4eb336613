----------------------------- MODULE AuthProofs -----------------------------
(***************************************************************************)
(* Theorems about the auth service: the revocation list, the authorization *)
(* codes, the service over its repositories, and the two ways of deciding  *)
(* who may do what: roles that inherit from one another, and policy rules. *)
(***************************************************************************)
EXTENDS MCAuth, Sums, SequenceTheorems, TLAPS

----------------------------------------------------------------------------
(* The revocation list                                                     *)

\* The entry of a token is its last revocation, or gone when that is over.
ListInv ==
    /\ blacklist \in [Jtis -> SUBSET Nat]
    /\ lastEnd \in [Jtis -> SUBSET Nat]
    /\ listTime \in Nat
    /\ \A jti \in Jtis :
        /\ blacklist[jti] \subseteq lastEnd[jti]
        /\ \A e \in lastEnd[jti] : e >= listTime => e \in blacklist[jti]

\* Every operation of the list keeps the invariant.
LEMMA ListInvariant == ListSpec => []ListInv
<1>1. ListInit => ListInv
    BY DEF ListInit, ListInv
<1>2. ListInv /\ [ListNext]_listVars => ListInv'
    <2> SUFFICES ASSUME ListInv, [ListNext]_listVars PROVE ListInv'
        OBVIOUS
    <2>1. CASE ListTick
        BY <2>1 DEF ListTick, ListInv
    <2>2. CASE purgeExpired
        BY <2>2 DEF purgeExpired, Kept, ListInv
    <2>3. ASSUME NEW jti \in Jtis, isRevoked(jti) PROVE ListInv'
        <3>1. /\ listTime' = listTime /\ lastEnd' = lastEnd
              /\ blacklist' = [blacklist EXCEPT ![jti] = IF Revoked(jti) THEN @ ELSE {}]
            BY <2>3 DEF isRevoked
        <3>2. ~Revoked(jti) => \A e \in lastEnd[jti] : ~(e >= listTime)
            BY DEF Revoked, ListInv
        <3> QED
            BY <3>1, <3>2 DEF ListInv
    <2>4. ASSUME NEW jti \in Jtis, NEW ttl \in TtlSeconds, revokeToken(jti, ttl) PROVE ListInv'
        <3>1. listTime + ttl \in Nat
            BY ListAssumption DEF ListInv
        <3> QED
            BY <2>4, <3>1 DEF revokeToken, ListInv
    <2>5. CASE UNCHANGED listVars
        BY <2>5 DEF listVars, ListInv
    <2> QED
        BY <2>1, <2>2, <2>3, <2>4, <2>5 DEF ListNext
<1> QED
    BY <1>1, <1>2, PTL DEF ListSpec

\* isRevoked answers by the last revocation of a token, whatever was looked up
\* or purged before: for every set of tokens and lifetimes.
THEOREM RevocationAgreesCorrect == ListSpec => []RevocationAgrees
<1>1. ListInv => RevocationAgrees
    BY DEF ListInv, RevocationAgrees, Revoked
<1> QED
    BY <1>1, ListInvariant, PTL

----------------------------------------------------------------------------
(* The authorization codes                                                 *)

Code == [clientId : ClientIds, redirectUri : Redirects, codeChallenge : BOOLEAN,
         expiresAt : Nat, isUsed : BOOLEAN]

Entry == Code \cup {Deleted}

\* What is kept of code n, issued as i and exchanged with the verifiers g, at
\* time t, when the codes in p were presented
Follows(a, i, g, n, p, t) ==
    /\ Len(g) = IF n \in p THEN 1 ELSE 0
    /\ a = Deleted => n \in p \/ i.expiresAt < t
    /\ a # Deleted =>
        /\ a.clientId = i.clientId /\ a.redirectUri = i.redirectUri
        /\ a.codeChallenge = i.codeChallenge /\ a.expiresAt = i.expiresAt
        /\ (a.isUsed <=> n \in p)

CodesInv ==
    /\ clients \in [ClientIds -> SUBSET Redirects]
    /\ codeTime \in Nat
    /\ issued \in Seq(Code)
    /\ authCodes \in Seq(Entry)
    /\ grants \in Seq(Seq(Verifiers))
    /\ Len(authCodes) = Len(issued) /\ Len(grants) = Len(issued)
    /\ presented \subseteq 1 .. Len(issued)
    /\ \A n \in 1 .. Len(issued) :
        Follows(authCodes[n], issued[n], grants[n], n, presented, codeTime)

\* A code is never mistaken for a deleted one.
LEMMA CodeNotDeleted == \A code \in Code : code # Deleted
<1> SUFFICES ASSUME NEW code \in Code, code = Deleted PROVE FALSE
    OBVIOUS
<1>1. "isUsed" \in DOMAIN code
    BY DEF Code
<1>2. DOMAIN Deleted = {"clientId"}
    BY DEF Deleted
<1> QED
    BY <1>1, <1>2

\* One entry replaced by another
LEMMA EntryReplaced ==
    ASSUME authCodes \in Seq(Entry), NEW n \in 1 .. Len(authCodes), NEW e \in Entry,
           authCodes' = [authCodes EXCEPT ![n] = e]
    PROVE  /\ authCodes' \in Seq(Entry) /\ Len(authCodes') = Len(authCodes)
           /\ authCodes'[n] = e
           /\ \A k \in 1 .. Len(authCodes) : k # n => authCodes'[k] = authCodes[k]
<1>1. authCodes' \in Seq(Entry)
    OBVIOUS
<1>2. Len(authCodes') = Len(authCodes) /\ authCodes'[n] = e
    OBVIOUS
<1>3. \A k \in 1 .. Len(authCodes) : k # n => authCodes'[k] = authCodes[k]
    OBVIOUS
<1> QED BY <1>1, <1>2, <1>3

\* A new code follows its issue.
LEMMA IssueKeeps ==
    ASSUME CodesInv, NEW c \in ClientIds, NEW uri \in Redirects, NEW b \in BOOLEAN,
           issueAuthorizationCode(c, uri, b)
    PROVE  CodesInv'
<1> DEFINE code == [clientId |-> c, redirectUri |-> uri, codeChallenge |-> b,
                    expiresAt |-> codeTime + CodeLifetime, isUsed |-> FALSE]
<1>1. code \in Code
    BY CodesAssumption DEF Code, CodesInv
<1>2. code.isUsed = FALSE
    OBVIOUS
<1>3. /\ authCodes' = Append(authCodes, code) /\ issued' = Append(issued, code)
      /\ grants' = Append(grants, <<>>)
      /\ clients' = clients /\ codeTime' = codeTime /\ presented' = presented
    BY DEF issueAuthorizationCode
<1> HIDE DEF code
<1> DEFINE n == Len(issued)
<1>4. /\ n \in Nat /\ Len(authCodes) = n /\ Len(grants) = n
      /\ presented \subseteq 1 .. n
    BY DEF CodesInv
<1>0. code \in Entry
    BY <1>1 DEF Entry
<1>5. /\ issued' \in Seq(Code) /\ Len(issued') = n + 1
      /\ authCodes' \in Seq(Entry) /\ Len(authCodes') = n + 1
      /\ grants' \in Seq(Seq(Verifiers)) /\ Len(grants') = n + 1
    BY <1>0, <1>1, <1>3, <1>4 DEF CodesInv
<1>6. \A k \in 1 .. n : /\ issued'[k] = issued[k] /\ authCodes'[k] = authCodes[k]
                        /\ grants'[k] = grants[k]
    BY <1>3, <1>4 DEF CodesInv
<1>7. issued'[n + 1] = code /\ authCodes'[n + 1] = code /\ grants'[n + 1] = <<>>
    BY <1>3, <1>4 DEF CodesInv
<1>8. \A k \in 1 .. n :
        Follows(authCodes[k], issued[k], grants[k], k, presented, codeTime)
    BY DEF CodesInv
<1>9. n + 1 \notin presented
    BY <1>4
<1>10. Follows(code, code, <<>>, n + 1, presented, codeTime)
    <2>1. ASSUME NEW g, Len(g) = 0
          PROVE  Follows(code, code, g, n + 1, presented, codeTime)
        BY <1>1, <1>2, <1>9, <2>1, CodeNotDeleted, Zenon DEF Follows
    <2>2. Len(<<>>) = 0
        OBVIOUS
    <2> QED
        BY <2>1, <2>2
<1> HIDE DEF n
<1>11. \A k \in 1 .. n + 1 :
        Follows(authCodes'[k], issued'[k], grants'[k], k, presented', codeTime')
    <2> SUFFICES ASSUME NEW k \in 1 .. n + 1
                 PROVE  Follows(authCodes'[k], issued'[k], grants'[k], k, presented', codeTime')
        OBVIOUS
    <2>1. CASE k = n + 1
        BY <1>3, <1>7, <1>10, <2>1
    <2>2. CASE k # n + 1
        <3>1. k \in 1 .. n
            BY <1>4, <2>2
        <3> QED
            BY <1>3, <1>6, <1>8, <3>1
    <2> QED BY <2>1, <2>2
<1>12. presented' \subseteq 1 .. Len(issued')
    BY <1>3, <1>4, <1>5
<1> QED
    BY <1>3, <1>5, <1>11, <1>12 DEF CodesInv
\* An exchange that is given tokens is the first one that could be.
LEMMA ExchangeKeeps ==
    ASSUME CodesInv, NEW n \in 1 .. Len(issued), NEW c \in ClientIds, NEW uri \in Redirects,
           NEW b \in Verifiers, exchangeCodeForTokens(n, c, uri, b)
    PROVE  CodesInv'
<1> DEFINE a == authCodes[n]
<1> DEFINE i == issued[n]
<1> DEFINE right == Matches(i, c, uri, b) /\ i.expiresAt >= codeTime
<1>1. /\ n \in 1 .. Len(issued) /\ a \in Entry /\ i \in Code
      /\ grants[n] \in Seq(Verifiers) /\ codeTime \in Nat
    BY DEF CodesInv
<1>2. Follows(a, i, grants[n], n, presented, codeTime)
    BY <1>1 DEF CodesInv
<1>3. /\ clients' = clients /\ codeTime' = codeTime /\ issued' = issued
      /\ presented' = IF right THEN presented \cup {n} ELSE presented
    BY DEF exchangeCodeForTokens
<1>4. /\ authCodes' \in Seq(Entry) /\ Len(authCodes') = Len(authCodes)
      /\ grants' \in Seq(Seq(Verifiers)) /\ Len(grants') = Len(grants)
      /\ \A k \in 1 .. Len(issued) : k # n => authCodes'[k] = authCodes[k] /\ grants'[k] = grants[k]
      /\ \/ /\ a = Deleted
            /\ authCodes'[n] = a /\ grants'[n] = grants[n]
         \/ /\ a # Deleted /\ Spent(a)
            /\ authCodes'[n] = Deleted /\ grants'[n] = grants[n]
         \/ /\ a # Deleted /\ ~Spent(a) /\ ~Matches(a, c, uri, b)
            /\ authCodes'[n] = a /\ grants'[n] = grants[n]
         \/ /\ a # Deleted /\ ~Spent(a) /\ Matches(a, c, uri, b)
            /\ authCodes'[n] = [a EXCEPT !.isUsed = TRUE]
            /\ grants'[n] = Append(grants[n], b)
    <2>0. /\ authCodes \in Seq(Entry) /\ grants \in Seq(Seq(Verifiers))
          /\ n \in 1 .. Len(authCodes) /\ n \in 1 .. Len(grants)
          /\ Len(issued) = Len(authCodes) /\ Len(issued) = Len(grants)
        BY DEF CodesInv
    <2>1. CASE a = Deleted /\ UNCHANGED <<authCodes, grants>>
        BY <2>0, <2>1
    <2>2. CASE /\ a # Deleted
               /\ Spent(a) \/ ~Matches(a, c, uri, b)
               /\ Refuse(n) /\ UNCHANGED grants
        <3>1. CASE Spent(a)
            <4>1. authCodes' = [authCodes EXCEPT ![n] = Deleted] /\ grants' = grants
                BY <2>2, <3>1 DEF Refuse
            <4>2. Deleted \in Entry
                BY DEF Entry
            <4>3. /\ authCodes' \in Seq(Entry) /\ Len(authCodes') = Len(authCodes)
                  /\ authCodes'[n] = Deleted
                  /\ \A k \in 1 .. Len(authCodes) : k # n => authCodes'[k] = authCodes[k]
                BY <2>0, <4>1, <4>2, EntryReplaced, Zenon
            <4> HIDE DEF a
            <4> QED BY <2>0, <2>2, <3>1, <4>1, <4>3
        <3>2. CASE ~Spent(a)
            <4>1. authCodes' = authCodes /\ grants' = grants
                BY <2>2, <3>2 DEF Refuse
            <4> QED BY <2>0, <2>2, <3>2, <4>1
        <3> QED BY <3>1, <3>2
    <2>3. CASE /\ a # Deleted
               /\ ~Spent(a) /\ Matches(a, c, uri, b)
               /\ authCodes' = [authCodes EXCEPT ![n].isUsed = TRUE]
               /\ grants' = [grants EXCEPT ![n] = Append(@, b)]
        <3>1. [a EXCEPT !.isUsed = TRUE] \in Code
            BY <1>1, <2>3 DEF Code, Entry
        <3> HIDE DEF a
        <3>2. authCodes' = [authCodes EXCEPT ![n] = [a EXCEPT !.isUsed = TRUE]]
            BY <2>3 DEF a
        <3>3. Append(grants[n], b) \in Seq(Verifiers)
            BY <1>1
        <3>4. /\ authCodes' \in Seq(Entry) /\ Len(authCodes') = Len(authCodes)
              /\ authCodes'[n] = [a EXCEPT !.isUsed = TRUE]
              /\ \A k \in 1 .. Len(authCodes) : k # n => authCodes'[k] = authCodes[k]
            <4>1. [a EXCEPT !.isUsed = TRUE] \in Entry
                BY <3>1 DEF Entry
            <4> DEFINE new == [a EXCEPT !.isUsed = TRUE]
            <4> HIDE DEF new
            <4>2. new \in Entry /\ authCodes' = [authCodes EXCEPT ![n] = new]
                BY <3>2, <4>1 DEF new
            <4>3. /\ authCodes' \in Seq(Entry) /\ Len(authCodes') = Len(authCodes)
                  /\ authCodes'[n] = new
                  /\ \A k \in 1 .. Len(authCodes) : k # n => authCodes'[k] = authCodes[k]
                BY <2>0, <4>2, EntryReplaced, Zenon
            <4> QED BY <4>3 DEF new
        <3>5. /\ grants' \in Seq(Seq(Verifiers)) /\ Len(grants') = Len(grants)
              /\ grants'[n] = Append(grants[n], b)
              /\ \A k \in 1 .. Len(grants) : k # n => grants'[k] = grants[k]
            BY <2>0, <2>3, <3>3
        <3> QED
            BY <2>0, <2>3, <3>4, <3>5, Zenon
    <2> QED
        BY <2>1, <2>2, <2>3 DEF exchangeCodeForTokens
<1>5. Follows(authCodes'[n], i, grants'[n], n, presented', codeTime)
    <2> DEFINE given == n \in presented
    <2>1. Spent(a) <=> a.isUsed \/ a.expiresAt < codeTime
        BY DEF Spent
    <2>2. n \in presented' <=> given \/ right
        <3>1. CASE right
            BY <1>3, <3>1
        <3>2. CASE ~right
            BY <1>3, <3>2
        <3> QED BY <3>1, <3>2
    <2>4. a # Deleted => /\ Matches(a, c, uri, b) = Matches(i, c, uri, b)
                         /\ Spent(a) <=> given \/ i.expiresAt < codeTime
                         /\ a \in Code
        BY <1>1, <1>2, <2>1, Zenon DEF Follows, Matches, Entry
    <2>5. (i.expiresAt < codeTime) <=> ~(i.expiresAt >= codeTime)
        BY <1>1 DEF Code
    <2>6. CASE a = Deleted
        <3>1. given \/ ~right
            BY <1>2, <2>5, <2>6 DEF Follows
        <3>2. (n \in presented' <=> given)
            BY <2>2, <3>1, Zenon
        <3> QED
            BY <1>2, <1>4, <2>6, <3>2, Zenon DEF Follows
    <2>7. CASE a # Deleted /\ Spent(a)
        <3>1. (n \in presented' <=> given) /\ (given \/ i.expiresAt < codeTime)
            BY <2>2, <2>4, <2>5, <2>7, Zenon
        <3>2. authCodes'[n] = Deleted /\ grants'[n] = grants[n]
            BY <1>4, <2>7, Zenon
        <3> QED
            BY <1>2, <3>1, <3>2, Zenon DEF Follows
    <2>8. CASE a # Deleted /\ ~Spent(a) /\ ~Matches(a, c, uri, b)
        <3>1. (n \in presented' <=> given)
            BY <2>2, <2>4, <2>8, Zenon
        <3> QED
            BY <1>2, <1>4, <2>8, <3>1, Zenon DEF Follows
    <2>9. CASE a # Deleted /\ ~Spent(a) /\ Matches(a, c, uri, b)
        <3>1. ~given /\ right
            BY <2>4, <2>5, <2>9, Zenon
        <3>2. n \in presented'
            BY <2>2, <3>1, Zenon
        <3>3. Len(grants[n]) = 0
            BY <1>2, <3>1, Zenon DEF Follows
        <3>4. /\ authCodes'[n] = [a EXCEPT !.isUsed = TRUE] /\ Len(grants'[n]) = 1
            <4>1. /\ authCodes'[n] = [a EXCEPT !.isUsed = TRUE]
                  /\ grants'[n] = Append(grants[n], b)
                BY <1>4, <2>9, Zenon
            <4>2. \A g \in Seq(Verifiers) : Len(Append(g, b)) = Len(g) + 1
                OBVIOUS
            <4>3. Len(Append(grants[n], b)) = 1
                BY <1>1, <3>3, <4>2
            <4> QED BY <4>1, <4>3, Zenon
        <3>5. a \in Code
            BY <2>4, <2>9
        <3>6. /\ authCodes'[n] \in Code /\ authCodes'[n].isUsed = TRUE
              /\ authCodes'[n].clientId = a.clientId /\ authCodes'[n].redirectUri = a.redirectUri
              /\ authCodes'[n].codeChallenge = a.codeChallenge
              /\ authCodes'[n].expiresAt = a.expiresAt
            <4> HIDE DEF a
            <4> QED BY <3>4, <3>5 DEF Code
        <3> QED
            BY <1>2, <2>9, <3>2, <3>4, <3>6, CodeNotDeleted, Zenon DEF Follows
    <2> QED
        BY <2>6, <2>7, <2>8, <2>9
<1>6. \A k \in 1 .. Len(issued) :
        Follows(authCodes'[k], issued[k], grants'[k], k, presented', codeTime)
    <2> SUFFICES ASSUME NEW k \in 1 .. Len(issued), k # n
                 PROVE  Follows(authCodes'[k], issued[k], grants'[k], k, presented', codeTime)
        BY <1>5, Zenon
    <2>1. k \in presented' <=> k \in presented
        <3>1. CASE right
            BY <1>3, <3>1
        <3>2. CASE ~right
            BY <1>3, <3>2
        <3> QED BY <3>1, <3>2
    <2>2. Follows(authCodes[k], issued[k], grants[k], k, presented, codeTime)
        BY DEF CodesInv
    <2> QED
        BY <1>4, <2>1, <2>2, Zenon DEF Follows
<1>7. presented' \subseteq 1 .. Len(issued)
    BY <1>1, <1>3 DEF CodesInv
<1>8. /\ clients \in [ClientIds -> SUBSET Redirects] /\ issued \in Seq(Code)
      /\ Len(authCodes) = Len(issued) /\ Len(grants) = Len(issued)
    BY DEF CodesInv
<1> HIDE DEF right
<1> QED
    BY <1>1, <1>3, <1>4, <1>6, <1>7, <1>8, Zenon DEF CodesInv

\* The invariant of the authorization codes
LEMMA CodesInvariant == CodesSpec => []CodesInv
<1>1. CodesInit => CodesInv
    BY DEF CodesInit, CodesInv
<1>2. CodesInv /\ [CodesNext]_codeVars => CodesInv'
    <2> SUFFICES ASSUME CodesInv, [CodesNext]_codeVars PROVE CodesInv'
        OBVIOUS
    <2>1. CASE CodeTick
        <3>1. /\ codeTime \in Nat /\ codeTime' = codeTime + 1
              /\ clients' = clients /\ authCodes' = authCodes /\ issued' = issued
              /\ grants' = grants /\ presented' = presented
            BY <2>1 DEF CodeTick, CodesInv
        <3>2. ASSUME NEW n \in 1 .. Len(issued)
              PROVE  Follows(authCodes[n], issued[n], grants[n], n, presented, codeTime')
            <4>1. Follows(authCodes[n], issued[n], grants[n], n, presented, codeTime)
                BY DEF CodesInv
            <4>2. issued[n] \in Code
                BY DEF CodesInv
            <4>3. issued[n].expiresAt < codeTime => issued[n].expiresAt < codeTime'
                BY <3>1, <4>2 DEF Code
            <4> QED
                BY <4>1, <4>3, Zenon DEF Follows
        <3> QED
            BY <3>1, <3>2 DEF CodesInv
    <2>2. ASSUME NEW c \in ClientIds, NEW uris \in SUBSET Redirects, registerClient(c, uris)
          PROVE  CodesInv'
        BY <2>2 DEF registerClient, CodesInv
    <2>3. ASSUME NEW c \in ClientIds, NEW uri \in Redirects, NEW b \in BOOLEAN,
                 issueAuthorizationCode(c, uri, b)
          PROVE  CodesInv'
        BY <2>3, IssueKeeps
    <2>4. ASSUME NEW n \in DOMAIN authCodes, NEW c \in ClientIds, NEW uri \in Redirects,
                 NEW b \in Verifiers, exchangeCodeForTokens(n, c, uri, b)
          PROVE  CodesInv'
        <3>1. n \in 1 .. Len(issued)
            BY DEF CodesInv
        <3> QED BY <2>4, <3>1, ExchangeKeeps
    <2>5. CASE UNCHANGED codeVars
        BY <2>5 DEF codeVars, CodesInv
    <2> QED
        BY <2>1, <2>2, <2>3, <2>4, <2>5 DEF CodesNext
<1> QED
    BY <1>1, <1>2, PTL DEF CodesSpec

\* A code buys tokens exactly once, for its own client and with some verifier
\* where it has a challenge, for every set of clients and redirect URIs, every
\* lifetime and any number of codes.
THEOREM SingleUseCorrect == CodesSpec => []SingleUse
<1>1. CodesInv => SingleUse
    BY DEF CodesInv, SingleUse, Follows
<1> QED
    BY <1>1, CodesInvariant, PTL
----------------------------------------------------------------------------
(* The service: what is stored, and where each call is                     *)

Emails == {q.email : q \in Registrations \cup TenantRequests}
Passwords == {q.password : q \in Registrations \cup TenantRequests}
DTOs == Registrations \cup LoginRequests \cup TenantRequests \cup {<<>>}

Labels ==
    {"idle", "tenant", "existing", "hash", "registered", "done", "user", "verify", "verified",
     "loggedIn", "slug", "admin", "orphaned", "provisioned", "NotFound", "Forbidden", "Conflict",
     "Unauthorized", "Error"}

Tenant == [slug : Slugs, isActive : BOOLEAN]
Account == [tenant : Nat, email : Emails, password : Passwords, failedLoginAttempts : Nat]
Tally == [by : Calls, failures : Nat, inRow : Nat, apart : BOOLEAN]
Mark == [tenants : Nat, users : Nat]

Typed ==
    /\ tenants \in Seq(Tenant)
    /\ users \in Seq(Account)
    /\ tally \in Seq(Tally)
    /\ Len(tally) = Len(users)
    /\ pc \in [Calls -> Labels]
    /\ dto \in [Calls -> DTOs]
    /\ found \in [Calls -> Nat]
    /\ count \in [Calls -> Nat]
    /\ mark \in [Calls -> Mark]

\* User u has address e in tenant t.
Known(u, e, t) == users[u].email = e /\ users[u].tenant = t

\* User u is the first one with address e in tenant t.
IsFirst(u, e, t) ==
    /\ u \in 1 .. Len(users)
    /\ Known(u, e, t)
    /\ \A v \in 1 .. Len(users) : Known(v, e, t) => u <= v

\* What a call that is registering a user knows
Registering(c) ==
    /\ pc[c] = "tenant" =>
        /\ dto[c] \in Registrations
        /\ found[c] # 0 => found[c] = dto[c].tenant /\ found[c] \in 1 .. Len(tenants)
    /\ pc[c] \in {"existing", "hash"} =>
        /\ dto[c] \in Registrations
        /\ dto[c].tenant \in 1 .. Len(tenants)
        /\ mark[c].users <= Len(users)
        /\ (pc[c] = "hash" \/ found[c] = 0) =>
            \A u \in 1 .. Len(users) :
                u <= mark[c].users => ~Known(u, dto[c].email, dto[c].tenant)

\* What a call that is provisioning a tenant knows
Provisioning(c) ==
    /\ pc[c] \in {"slug", "admin", "orphaned", "provisioned"} =>
        /\ dto[c] \in TenantRequests
        /\ mark[c].tenants <= Len(tenants)
        /\ (pc[c] # "slug" \/ found[c] = 0) =>
            \A s \in 1 .. Len(tenants) : s <= mark[c].tenants => tenants[s].slug # dto[c].slug
    /\ pc[c] = "admin" =>
        /\ found[c] \in 1 .. Len(tenants)
        /\ mark[c].users <= Len(users)
        /\ \A u \in 1 .. Len(users) : u <= mark[c].users => users[u].tenant # found[c]

\* What a call that is logging in knows
LoggingIn(c) ==
    /\ (pc[c] = "user" /\ found[c] # 0) \/ pc[c] \in {"verify", "verified", "loggedIn"} =>
        IsFirst(found[c], dto[c].email, dto[c].tenant)
    /\ pc[c] \in {"verified", "loggedIn"} => users[found[c]].password = dto[c].password

\* What is known of user v: his tenant exists, the call that stored him is
\* past doing anything else, and it had made sure that he was new.
Stored(v) ==
    /\ users[v].tenant \in 1 .. Len(tenants)
    /\ pc[tally[v].by] \in {"registered", "done", "provisioned"}
    /\ \A u \in 1 .. Len(users) :
        u < v /\ u <= mark[tally[v].by].users => ~Known(u, users[v].email, users[v].tenant)

ServiceInv ==
    /\ Typed
    /\ \A c \in Calls : Registering(c) /\ Provisioning(c) /\ LoggingIn(c)
    /\ \A v \in 1 .. Len(users) : Stored(v)

----------------------------------------------------------------------------
\* A set of natural numbers that is not empty has a least element.
LEMMA LeastElement ==
    ASSUME NEW T, T \subseteq Nat, T # {}
    PROVE  \E x \in T : \A y \in T : x <= y
<1>1. PICK x \in T : \A y \in T : ~(<<y, x>> \in OpToRel(<, Nat))
    BY NatLessThanWellFounded, WFMin, Zenon
<1>2. ASSUME NEW y \in T PROVE x <= y
    <2>1. ~(y < x)
        BY <1>1, <1>2 DEF OpToRel
    <2> QED BY <2>1
<1> QED
    BY <1>2

\* The lookup by address finds the first such user, and none only when there
\* is none.
LEMMA FindFirst ==
    ASSUME Typed, NEW e, NEW t
    PROVE  /\ findByEmailAndTenant(e, t) \in Nat
           /\ findByEmailAndTenant(e, t) = 0 => \A u \in 1 .. Len(users) : ~Known(u, e, t)
           /\ findByEmailAndTenant(e, t) # 0 => IsFirst(findByEmailAndTenant(e, t), e, t)
<1> DEFINE same == {u \in DOMAIN users : users[u].email = e /\ users[u].tenant = t}
<1>1. DOMAIN users = 1 .. Len(users) /\ Len(users) \in Nat
    BY DEF Typed
<1>2. CASE same = {}
    <2>1. findByEmailAndTenant(e, t) = 0
        BY <1>2 DEF findByEmailAndTenant
    <2> QED
        BY <1>1, <1>2, <2>1 DEF Known
<1>3. CASE same # {}
    <2>1. \E x \in same : \A y \in same : x <= y
        <3>1. same \subseteq Nat
            BY <1>1
        <3> QED BY <1>3, <3>1, LeastElement, Zenon
    <2>2. findByEmailAndTenant(e, t) = CHOOSE u \in same : \A v \in same : u <= v
        BY <1>3 DEF findByEmailAndTenant
    <2> DEFINE f == CHOOSE u \in same : \A v \in same : u <= v
    <2>3. f \in same /\ \A v \in same : f <= v
        BY <2>1, Zenon
    <2> HIDE DEF f
    <2>4. findByEmailAndTenant(e, t) = f
        BY <2>2 DEF f
    <2>5. f \in 1 .. Len(users) /\ f # 0 /\ f \in Nat
        BY <1>1, <2>3
    <2>6. IsFirst(f, e, t)
        BY <1>1, <2>3, <2>5 DEF IsFirst, Known
    <2> QED
        BY <2>4, <2>5, <2>6
<1> QED
    BY <1>2, <1>3

\* The lookup by slug finds none only when there is none.
LEMMA FindSlug ==
    ASSUME Typed, NEW slug
    PROVE  /\ findBySlug(slug) \in Nat
           /\ findBySlug(slug) = 0 => \A s \in 1 .. Len(tenants) : tenants[s].slug # slug
<1> DEFINE same == {t \in DOMAIN tenants : tenants[t].slug = slug}
<1>1. DOMAIN tenants = 1 .. Len(tenants) /\ Len(tenants) \in Nat
    BY DEF Typed
<1>2. CASE same = {}
    <2>1. findBySlug(slug) = 0
        BY <1>2 DEF findBySlug
    <2> QED
        BY <1>1, <1>2, <2>1
<1>3. CASE same # {}
    <2>1. \E x \in same : \A y \in same : x <= y
        <3>1. same \subseteq Nat
            BY <1>1
        <3> QED BY <1>3, <3>1, LeastElement, Zenon
    <2> DEFINE f == CHOOSE u \in same : \A v \in same : u <= v
    <2>2. f \in same
        BY <2>1, Zenon
    <2> HIDE DEF f
    <2>3. findBySlug(slug) = f
        BY <1>3 DEF f, findBySlug
    <2>4. f \in Nat /\ f # 0
        BY <1>1, <2>2
    <2> QED
        BY <2>3, <2>4
<1> QED
    BY <1>2, <1>3
----------------------------------------------------------------------------
(* What every step has in common                                           *)

\* The repositories only grow: who a user or a tenant is never changes.
Grows ==
    /\ Len(users) <= Len(users') /\ Len(tenants) <= Len(tenants')
    /\ \A t \in 1 .. Len(tenants) : tenants'[t] = tenants[t]
    /\ \A u \in 1 .. Len(users) :
        /\ users'[u].email = users[u].email
        /\ users'[u].tenant = users[u].tenant
        /\ users'[u].password = users[u].password
        /\ tally'[u].by = tally[u].by

\* A step of c leaves the other calls where they are.
OnlyMoves(c) ==
    \A d \in Calls : d # c =>
        /\ pc'[d] = pc[d] /\ dto'[d] = dto[d] /\ found'[d] = found[d]
        /\ count'[d] = count[d] /\ mark'[d] = mark[d]

\* A call that has stored its user is done with it.
StaysStored(c) ==
    pc[c] \in {"registered", "done", "provisioned"} =>
        pc'[c] \in {"registered", "done", "provisioned"} /\ mark'[c] = mark[c]

\* What the other calls know stays true.
LEMMA OthersKept ==
    ASSUME ServiceInv, Typed', Grows, NEW c \in Calls, OnlyMoves(c), NEW d \in Calls, d # c
    PROVE  Registering(d)' /\ Provisioning(d)' /\ LoggingIn(d)'
<1>1. /\ pc'[d] = pc[d] /\ dto'[d] = dto[d] /\ found'[d] = found[d] /\ mark'[d] = mark[d]
    BY DEF OnlyMoves
<1>2. /\ Len(users) \in Nat /\ Len(users') \in Nat /\ Len(tenants) \in Nat /\ Len(tenants') \in Nat
      /\ mark[d].users \in Nat /\ mark[d].tenants \in Nat
    <2>1. mark[d] \in Mark
        BY DEF ServiceInv, Typed
    <2>2. mark[d].users \in Nat /\ mark[d].tenants \in Nat
        BY <2>1 DEF Mark
    <2>3. /\ Len(users) \in Nat /\ Len(users') \in Nat
          /\ Len(tenants) \in Nat /\ Len(tenants') \in Nat
        BY DEF ServiceInv, Typed
    <2> QED
        BY <2>2, <2>3
<1>3. Registering(d) /\ Provisioning(d) /\ LoggingIn(d)
    BY DEF ServiceInv
<1>4. ASSUME NEW u \in 1 .. Len(users), NEW e, NEW t
      PROVE  Known(u, e, t)' <=> Known(u, e, t)
    BY DEF Grows, Known
<1>5. Registering(d)'
    BY <1>1, <1>2, <1>3, <1>4 DEF Registering, Grows
<1>6. Provisioning(d)'
    <2>1. ASSUME NEW s \in 1 .. Len(tenants'), s <= mark[d].tenants, mark[d].tenants <= Len(tenants)
          PROVE  s \in 1 .. Len(tenants) /\ tenants'[s] = tenants[s]
        BY <1>2, <2>1 DEF Grows
    <2>2. ASSUME NEW u \in 1 .. Len(users'), u <= mark[d].users, mark[d].users <= Len(users)
          PROVE  u \in 1 .. Len(users) /\ users'[u].tenant = users[u].tenant
        BY <1>2, <2>2 DEF Grows
    <2>3. /\ Len(users) <= Len(users') /\ Len(tenants) <= Len(tenants')
        BY DEF Grows
    <2> QED
        BY <1>1, <1>2, <1>3, <2>1, <2>2, <2>3 DEF Provisioning
<1>7. ASSUME NEW u, NEW e, NEW t, IsFirst(u, e, t)
      PROVE  IsFirst(u, e, t)' /\ users'[u].password = users[u].password
    <2>1. u \in 1 .. Len(users) /\ Known(u, e, t)
        BY <1>7 DEF IsFirst
    <2>2. u \in 1 .. Len(users') /\ Known(u, e, t)' /\ users'[u].password = users[u].password
        BY <1>2, <1>4, <2>1 DEF Grows
    <2>3. ASSUME NEW v \in 1 .. Len(users'), Known(v, e, t)' PROVE u <= v
        <3>1. CASE v \in 1 .. Len(users)
            BY <1>4, <1>7, <2>3, <3>1 DEF IsFirst
        <3>2. CASE v \notin 1 .. Len(users)
            BY <1>2, <2>1, <3>2
        <3> QED BY <3>1, <3>2
    <2> QED
        BY <2>2, <2>3 DEF IsFirst
<1>8. LoggingIn(d)'
    BY <1>1, <1>3, <1>7 DEF LoggingIn
<1> QED
    BY <1>5, <1>6, <1>8

\* What is known of the users that were there stays true.
LEMMA UsersKept ==
    ASSUME ServiceInv, Typed', Grows, NEW c \in Calls, OnlyMoves(c), StaysStored(c),
           NEW v \in 1 .. Len(users)
    PROVE  Stored(v)'
<1> DEFINE b == tally[v].by
<1>1. Stored(v) /\ b \in Calls
    <2>1. v \in 1 .. Len(tally) /\ tally \in Seq(Tally)
        BY DEF ServiceInv, Typed
    <2>2. tally[v] \in Tally
        BY <2>1
    <2> QED
        BY <2>2 DEF ServiceInv, Tally
<1>2. /\ tally'[v].by = b /\ users'[v].tenant = users[v].tenant /\ users'[v].email = users[v].email
    BY DEF Grows
<1>3. pc'[b] \in {"registered", "done", "provisioned"} /\ mark'[b] = mark[b]
    BY <1>1 DEF Stored, OnlyMoves, StaysStored
<1>4. /\ Len(users) \in Nat /\ Len(users') \in Nat /\ Len(tenants) \in Nat /\ Len(tenants') \in Nat
      /\ Len(users) <= Len(users') /\ Len(tenants) <= Len(tenants')
    BY DEF ServiceInv, Typed, Grows
<1>5. ASSUME NEW u \in 1 .. Len(users'), u < v, u <= mark[b].users
      PROVE  ~Known(u, users[v].email, users[v].tenant)'
    <2>1. u \in 1 .. Len(users)
        BY <1>4, <1>5
    <2>2. ~Known(u, users[v].email, users[v].tenant)
        BY <1>1, <1>5, <2>1 DEF Stored
    <2> QED
        BY <1>2, <2>1, <2>2 DEF Known, Grows
<1>6. users[v].tenant \in 1 .. Len(tenants')
    BY <1>1, <1>4 DEF Stored
<1> HIDE DEF b
<1>7. \A u \in 1 .. Len(users') : u < v /\ u <= mark[b].users => ~Known(u, users[v].email, users[v].tenant)'
    BY <1>5
<1> QED
    BY <1>2, <1>3, <1>6, <1>7 DEF Stored, Known

\* So a step only has to account for its own call and for what it stores.
LEMMA StepKeeps ==
    ASSUME ServiceInv, Typed', Grows, NEW c \in Calls, OnlyMoves(c), StaysStored(c),
           Registering(c)', Provisioning(c)', LoggingIn(c)',
           \A v \in 1 .. Len(users') : v > Len(users) => Stored(v)'
    PROVE  ServiceInv'
<1>1. \A d \in Calls : (Registering(d) /\ Provisioning(d) /\ LoggingIn(d))'
    BY OthersKept
<1>2. ASSUME NEW v \in 1 .. Len(users') PROVE Stored(v)'
    <2>1. Len(users) \in Nat /\ Len(users') \in Nat
        BY DEF ServiceInv, Typed
    <2>2. v \in 1 .. Len(users) \/ v > Len(users)
        BY <2>1
    <2> QED
        BY <2>2, UsersKept
<1> QED
    BY <1>1, <1>2 DEF ServiceInv
----------------------------------------------------------------------------
(* The steps that store nothing                                            *)

Quiet == users' = users /\ tenants' = tenants /\ tally' = tally

\* A step that stores nothing only has to account for its own call.
LEMMA QuietKeeps ==
    ASSUME ServiceInv, NEW c \in Calls, Quiet, OnlyMoves(c), StaysStored(c),
           pc' \in [Calls -> Labels], dto' \in [Calls -> DTOs], found' \in [Calls -> Nat],
           count' \in [Calls -> Nat], mark' \in [Calls -> Mark],
           Registering(c)', Provisioning(c)', LoggingIn(c)'
    PROVE  ServiceInv'
<1>1. Typed'
    BY DEF ServiceInv, Typed, Quiet
<1>2. Grows
    <2>1. Len(users) \in Nat /\ Len(tenants) \in Nat
        BY DEF ServiceInv, Typed
    <2> QED BY <2>1 DEF Quiet, Grows
<1>3. \A v \in 1 .. Len(users') : ~(v > Len(users))
    <2>1. Len(users) \in Nat
        BY DEF ServiceInv, Typed
    <2> QED BY <2>1 DEF Quiet
<1> QED
    BY <1>1, <1>2, <1>3, StepKeeps

\* registerUser has looked its tenant up.
LEMMA RegisterKeeps ==
    ASSUME ServiceInv, NEW c \in Calls, NEW q \in Registrations, registerUser(c, q)
    PROVE  ServiceInv'
<1>1. /\ pc[c] = "idle" /\ Quiet
      /\ dto' = [dto EXCEPT ![c] = q]
      /\ found' = [found EXCEPT ![c] = IF q.tenant \in DOMAIN tenants THEN q.tenant ELSE 0]
      /\ pc' = [pc EXCEPT ![c] = "tenant"]
      /\ count' = count /\ mark' = mark
    BY DEF registerUser, Take, Go, Quiet, repositories, history
<1>2. DOMAIN tenants = 1 .. Len(tenants) /\ Len(tenants) \in Nat
    BY DEF ServiceInv, Typed
<1>3. /\ pc \in [Calls -> Labels] /\ dto \in [Calls -> DTOs] /\ found \in [Calls -> Nat]
      /\ count \in [Calls -> Nat] /\ mark \in [Calls -> Mark]
    BY DEF ServiceInv, Typed
<1>4. q \in DTOs
    BY DEF DTOs
<1>5. /\ pc' \in [Calls -> Labels] /\ dto' \in [Calls -> DTOs] /\ found' \in [Calls -> Nat]
      /\ count' \in [Calls -> Nat] /\ mark' \in [Calls -> Mark]
    BY <1>1, <1>2, <1>3, <1>4 DEF Labels
<1>6. /\ pc'[c] = "tenant" /\ dto'[c] = q
      /\ found'[c] # 0 => found'[c] = q.tenant /\ found'[c] \in 1 .. Len(tenants')
    BY <1>1, <1>2, <1>3 DEF Quiet
<1>7. OnlyMoves(c) /\ StaysStored(c)
    BY <1>1, <1>3 DEF OnlyMoves, StaysStored
<1>8. Registering(c)' /\ Provisioning(c)' /\ LoggingIn(c)'
    BY <1>6 DEF Registering, Provisioning, LoggingIn
<1> QED
    BY <1>1, <1>5, <1>7, <1>8, QuietKeeps

\* registerUser has looked the address up.
LEMMA CheckTenantKeeps ==
    ASSUME ServiceInv, NEW c \in Calls, CheckTenant(c)
    PROVE  ServiceInv'
<1>0. /\ pc[c] = "tenant" /\ Quiet /\ dto' = dto /\ count' = count
    BY DEF CheckTenant, Quiet, repositories
<1>1. /\ pc \in [Calls -> Labels] /\ dto \in [Calls -> DTOs] /\ found \in [Calls -> Nat]
      /\ count \in [Calls -> Nat] /\ mark \in [Calls -> Mark] /\ Len(users) \in Nat /\ Typed
    BY DEF ServiceInv, Typed
<1>2. Registering(c)
    BY DEF ServiceInv
<1>3. ASSUME NEW l \in {"NotFound", "Forbidden"}, pc' = [pc EXCEPT ![c] = l],
             found' = found, mark' = mark
      PROVE  ServiceInv'
    <2>1. OnlyMoves(c) /\ StaysStored(c)
        BY <1>0, <1>1, <1>3 DEF OnlyMoves, StaysStored
    <2>2. pc'[c] = l
        BY <1>1, <1>3
    <2>3. Registering(c)' /\ Provisioning(c)' /\ LoggingIn(c)'
        BY <1>3, <2>2 DEF Registering, Provisioning, LoggingIn
    <2>4. pc' \in [Calls -> Labels]
        BY <1>1, <1>3 DEF Labels
    <2> QED
        BY <1>0, <1>1, <1>3, <2>1, <2>3, <2>4, QuietKeeps
<1>4. CASE /\ found[c] # 0
           /\ found' = [found EXCEPT ![c] = findByEmailAndTenant(dto[c].email, dto[c].tenant)]
           /\ mark' = [mark EXCEPT ![c].users = Len(users)]
           /\ pc' = [pc EXCEPT ![c] = "existing"]
    <2> DEFINE f == findByEmailAndTenant(dto[c].email, dto[c].tenant)
    <2>1. /\ f \in Nat
          /\ f = 0 => \A u \in 1 .. Len(users) : ~Known(u, dto[c].email, dto[c].tenant)
        BY <1>1, FindFirst
    <2> HIDE DEF f
    <2>2. found' = [found EXCEPT ![c] = f]
        BY <1>4 DEF f
    <2>3. mark[c] \in Mark /\ [mark[c] EXCEPT !.users = Len(users)] \in Mark
        BY <1>1 DEF Mark
    <2>4. mark'[c].users = Len(users) /\ mark' \in [Calls -> Mark]
        <3> DEFINE new == [mark[c] EXCEPT !.users = Len(users)]
        <3>1. new \in Mark /\ new.users = Len(users)
            BY <2>3 DEF Mark
        <3> HIDE DEF new
        <3>2. mark' = [mark EXCEPT ![c] = new]
            BY <1>4 DEF new
        <3> QED
            BY <1>1, <3>1, <3>2
    <2>5. /\ dto[c] \in Registrations /\ dto[c].tenant \in 1 .. Len(tenants)
        BY <1>0, <1>2, <1>4 DEF Registering
    <2>6. OnlyMoves(c) /\ StaysStored(c)
        BY <1>0, <1>1, <1>4, <2>2 DEF OnlyMoves, StaysStored
    <2>7. pc'[c] = "existing" /\ found'[c] = f /\ dto'[c] = dto[c]
        BY <1>0, <1>1, <1>4, <2>2
    <2>8. f = 0 => \A u \in 1 .. Len(users) : ~Known(u, dto[c].email, dto[c].tenant)'
        BY <1>0, <2>1 DEF Known, Quiet
    <2>9. Registering(c)'
        BY <1>0, <1>1, <2>4, <2>5, <2>7, <2>8 DEF Registering, Quiet, Known
    <2>10. Provisioning(c)' /\ LoggingIn(c)'
        BY <2>7 DEF Provisioning, LoggingIn
    <2>11. pc' \in [Calls -> Labels] /\ found' \in [Calls -> Nat]
        BY <1>1, <1>4, <2>1, <2>2 DEF Labels
    <2> QED
        BY <1>0, <1>1, <2>4, <2>6, <2>9, <2>10, <2>11, QuietKeeps
<1> QED
    BY <1>3, <1>4 DEF CheckTenant, Go, Take
\* registerUser goes on only when it found nobody; the hash is awaited.
LEMMA CheckEmailKeeps ==
    ASSUME ServiceInv, NEW c \in Calls, CheckEmail(c)
    PROVE  ServiceInv'
<1>1. /\ pc[c] = "existing" /\ Quiet /\ dto' = dto /\ count' = count /\ found' = found /\ mark' = mark
      /\ pc' = [pc EXCEPT ![c] = IF found[c] = 0 THEN "hash" ELSE "Conflict"]
    BY DEF CheckEmail, Quiet, repositories, history, IsNew, Go
<1>2. /\ pc \in [Calls -> Labels] /\ dto \in [Calls -> DTOs] /\ found \in [Calls -> Nat]
      /\ count \in [Calls -> Nat] /\ mark \in [Calls -> Mark]
    BY DEF ServiceInv, Typed
<1>3. Registering(c)
    BY DEF ServiceInv
<1>4. pc' \in [Calls -> Labels] /\ pc'[c] = IF found[c] = 0 THEN "hash" ELSE "Conflict"
    BY <1>1, <1>2 DEF Labels
<1>5. OnlyMoves(c) /\ StaysStored(c)
    BY <1>1, <1>2 DEF OnlyMoves, StaysStored
<1>6. Registering(c)'
    BY <1>1, <1>3, <1>4 DEF Registering, Quiet, Known
<1>7. Provisioning(c)' /\ LoggingIn(c)'
    BY <1>4 DEF Provisioning, LoggingIn
<1> QED
    BY <1>1, <1>2, <1>4, <1>5, <1>6, <1>7, QuietKeeps

\* The end of a registration or of a login
LEMMA IssueTokensKeeps ==
    ASSUME ServiceInv, NEW c \in Calls, IssueTokens(c)
    PROVE  ServiceInv'
<1>1. /\ pc[c] \in {"registered", "verified"}
      /\ Quiet /\ dto' = dto /\ count' = count /\ found' = found /\ mark' = mark
      /\ pc' = [pc EXCEPT ![c] = IF pc[c] = "verified" THEN "loggedIn" ELSE "done"]
    BY DEF IssueTokens, Quiet, history, Go
<1>2. /\ pc \in [Calls -> Labels] /\ dto \in [Calls -> DTOs] /\ found \in [Calls -> Nat]
      /\ count \in [Calls -> Nat] /\ mark \in [Calls -> Mark]
    BY DEF ServiceInv, Typed
<1>3. LoggingIn(c)
    BY DEF ServiceInv
<1>4. pc' \in [Calls -> Labels] /\ pc'[c] = IF pc[c] = "verified" THEN "loggedIn" ELSE "done"
    BY <1>1, <1>2 DEF Labels
<1>5. OnlyMoves(c) /\ StaysStored(c)
    BY <1>1, <1>2 DEF OnlyMoves, StaysStored
<1>6. Registering(c)' /\ Provisioning(c)'
    BY <1>4 DEF Registering, Provisioning
<1>7. LoggingIn(c)'
    BY <1>1, <1>3, <1>4 DEF LoggingIn, IsFirst, Known, Quiet
<1> QED
    BY <1>1, <1>2, <1>4, <1>5, <1>6, <1>7, QuietKeeps

\* login goes on only when it found a user; the comparison is awaited.
LEMMA CheckUserKeeps ==
    ASSUME ServiceInv, NEW c \in Calls, CheckUser(c)
    PROVE  ServiceInv'
<1>1. /\ pc[c] = "user" /\ Quiet /\ dto' = dto /\ count' = count /\ found' = found /\ mark' = mark
      /\ pc' = [pc EXCEPT ![c] = IF found[c] = 0 THEN "Unauthorized" ELSE "verify"]
    BY DEF CheckUser, Quiet, repositories, history, Go
<1>2. /\ pc \in [Calls -> Labels] /\ dto \in [Calls -> DTOs] /\ found \in [Calls -> Nat]
      /\ count \in [Calls -> Nat] /\ mark \in [Calls -> Mark]
    BY DEF ServiceInv, Typed
<1>3. LoggingIn(c)
    BY DEF ServiceInv
<1>4. pc' \in [Calls -> Labels] /\ pc'[c] = IF found[c] = 0 THEN "Unauthorized" ELSE "verify"
    BY <1>1, <1>2 DEF Labels
<1>5. OnlyMoves(c) /\ StaysStored(c)
    BY <1>1, <1>2 DEF OnlyMoves, StaysStored
<1>6. Registering(c)' /\ Provisioning(c)'
    BY <1>4 DEF Registering, Provisioning
<1>7. LoggingIn(c)'
    BY <1>1, <1>3, <1>4 DEF LoggingIn, IsFirst, Known, Quiet
<1> QED
    BY <1>1, <1>2, <1>4, <1>5, <1>6, <1>7, QuietKeeps

\* provisionTenant has looked the slug up.
LEMMA ProvisionKeeps ==
    ASSUME ServiceInv, NEW c \in Calls, NEW q \in TenantRequests, provisionTenant(c, q)
    PROVE  ServiceInv'
<1> DEFINE f == findBySlug(q.slug)
<1>0. /\ pc \in [Calls -> Labels] /\ dto \in [Calls -> DTOs] /\ found \in [Calls -> Nat]
      /\ count \in [Calls -> Nat] /\ mark \in [Calls -> Mark] /\ Len(tenants) \in Nat /\ Typed
    BY DEF ServiceInv, Typed
<1>1. f \in Nat /\ (f = 0 => \A s \in 1 .. Len(tenants) : tenants[s].slug # q.slug)
    BY <1>0, FindSlug
<1>2. /\ pc[c] = "idle" /\ Quiet /\ count' = count
      /\ dto' = [dto EXCEPT ![c] = q]
      /\ found' = [found EXCEPT ![c] = f]
      /\ mark' = [mark EXCEPT ![c].tenants = Len(tenants)]
      /\ pc' = [pc EXCEPT ![c] = "slug"]
    BY DEF provisionTenant, Quiet, repositories, Take, Go
<1> HIDE DEF f
<1>3. mark'[c].tenants = Len(tenants) /\ mark' \in [Calls -> Mark]
    <2> DEFINE new == [mark[c] EXCEPT !.tenants = Len(tenants)]
    <2>1. mark[c] \in Mark
        BY <1>0
    <2>2. new \in Mark /\ new.tenants = Len(tenants)
        BY <1>0, <2>1 DEF Mark
    <2> HIDE DEF new
    <2>3. mark' = [mark EXCEPT ![c] = new]
        BY <1>2 DEF new
    <2> QED
        BY <1>0, <2>2, <2>3
<1>4. q \in DTOs
    BY DEF DTOs
<1>5. /\ pc' \in [Calls -> Labels] /\ dto' \in [Calls -> DTOs] /\ found' \in [Calls -> Nat]
      /\ pc'[c] = "slug" /\ dto'[c] = q /\ found'[c] = f
    BY <1>0, <1>1, <1>2, <1>4 DEF Labels
<1>6. OnlyMoves(c) /\ StaysStored(c)
    BY <1>0, <1>2 DEF OnlyMoves, StaysStored
<1>7. Provisioning(c)'
    BY <1>0, <1>1, <1>2, <1>3, <1>5 DEF Provisioning, Quiet
<1>8. Registering(c)' /\ LoggingIn(c)'
    BY <1>5 DEF Registering, LoggingIn
<1> QED
    BY <1>0, <1>2, <1>3, <1>5, <1>6, <1>7, <1>8, QuietKeeps
----------------------------------------------------------------------------
(* The steps that store something                                          *)

\* One tally replaced
LEMMA TallyReplaced ==
    ASSUME tally \in Seq(Tally), NEW u \in 1 .. Len(tally), NEW e \in Tally,
           tally' = [tally EXCEPT ![u] = e]
    PROVE  /\ tally' \in Seq(Tally) /\ Len(tally') = Len(tally)
           /\ tally'[u] = e
           /\ \A v \in 1 .. Len(tally) : v # u => tally'[v] = tally[v]
<1>1. tally' \in Seq(Tally)
    OBVIOUS
<1>2. Len(tally') = Len(tally) /\ tally'[u] = e
    OBVIOUS
<1>3. \A v \in 1 .. Len(tally) : v # u => tally'[v] = tally[v]
    OBVIOUS
<1> QED BY <1>1, <1>2, <1>3

\* One user replaced
LEMMA UserReplaced ==
    ASSUME users \in Seq(Account), NEW u \in 1 .. Len(users), NEW e \in Account,
           users' = [users EXCEPT ![u] = e]
    PROVE  /\ users' \in Seq(Account) /\ Len(users') = Len(users)
           /\ users'[u] = e
           /\ \A v \in 1 .. Len(users) : v # u => users'[v] = users[v]
<1>1. users' \in Seq(Account)
    OBVIOUS
<1>2. Len(users') = Len(users) /\ users'[u] = e
    OBVIOUS
<1>3. \A v \in 1 .. Len(users) : v # u => users'[v] = users[v]
    OBVIOUS
<1> QED BY <1>1, <1>2, <1>3

\* What a lookup of login does to the history of its user
LEMMA LoginTally ==
    ASSUME Typed, NEW u \in 1 .. Len(users), NEW b \in BOOLEAN,
           tally' = [tally EXCEPT ![u].apart = @ /\ b]
    PROVE  /\ tally' \in Seq(Tally) /\ Len(tally') = Len(tally)
           /\ \A v \in 1 .. Len(tally) : v # u => tally'[v] = tally[v]
           /\ tally'[u].by = tally[u].by /\ tally'[u].failures = tally[u].failures
           /\ tally'[u].inRow = tally[u].inRow
           /\ tally'[u].apart <=> tally[u].apart /\ b
<1> DEFINE new == [tally[u] EXCEPT !.apart = tally[u].apart /\ b]
<1>0. tally \in Seq(Tally) /\ u \in 1 .. Len(tally)
    BY DEF Typed
<1>1. tally[u] \in Tally
    BY <1>0
<1>2. (tally[u].apart /\ b) \in BOOLEAN
    BY Zenon
<1>3. /\ new \in Tally
      /\ new.by = tally[u].by /\ new.failures = tally[u].failures /\ new.inRow = tally[u].inRow
    BY <1>1, <1>2 DEF Tally
<1>4. new.apart <=> tally[u].apart /\ b
    BY <1>1 DEF Tally
<1> HIDE DEF new
<1>5. tally' = [tally EXCEPT ![u] = new]
    BY DEF new
<1>6. /\ tally' \in Seq(Tally) /\ Len(tally') = Len(tally) /\ tally'[u] = new
      /\ \A v \in 1 .. Len(tally) : v # u => tally'[v] = tally[v]
    BY <1>0, <1>3, <1>5, TallyReplaced, Zenon
<1> QED
    BY <1>3, <1>4, <1>6, Zenon

\* login has looked its user up.
LEMMA LoginKeeps ==
    ASSUME ServiceInv, NEW c \in Calls, NEW q \in LoginRequests, login(c, q)
    PROVE  ServiceInv'
<1> DEFINE f == findByEmailAndTenant(q.email, q.tenant)
<1>0. /\ pc \in [Calls -> Labels] /\ dto \in [Calls -> DTOs] /\ found \in [Calls -> Nat]
      /\ count \in [Calls -> Nat] /\ mark \in [Calls -> Mark]
      /\ Len(users) \in Nat /\ Len(tenants) \in Nat /\ Typed
    BY DEF ServiceInv, Typed
<1>1. f \in Nat /\ (f # 0 => IsFirst(f, q.email, q.tenant))
    BY <1>0, FindFirst
<1>2. /\ pc[c] = "idle" /\ users' = users /\ tenants' = tenants /\ mark' = mark
      /\ dto' = [dto EXCEPT ![c] = q]
      /\ found' = [found EXCEPT ![c] = f]
      /\ pc' = [pc EXCEPT ![c] = "user"]
      /\ IF f = 0 THEN count' = count /\ tally' = tally
         ELSE /\ count' = [count EXCEPT ![c] = users[f].failedLoginAttempts]
              /\ tally' = [tally EXCEPT ![f].apart = @ /\ Reading(f) = {}]
    BY DEF login, repositories, Take, Go
<1> HIDE DEF f
<1>3. /\ tally' \in Seq(Tally) /\ Len(tally') = Len(users)
      /\ \A v \in 1 .. Len(users) : tally'[v].by = tally[v].by
    <2>1. CASE f = 0
        BY <1>0, <1>2, <2>1 DEF Typed
    <2>2. CASE f # 0
        <3>1. f \in 1 .. Len(users)
            BY <1>1, <2>2 DEF IsFirst
        <3>2. (Reading(f) = {}) \in BOOLEAN
            BY Zenon
        <3>3. /\ tally' \in Seq(Tally) /\ Len(tally') = Len(tally)
              /\ \A v \in 1 .. Len(tally) : v # f => tally'[v] = tally[v]
              /\ tally'[f].by = tally[f].by
            BY <1>0, <1>2, <2>2, <3>1, <3>2, LoginTally, Zenon
        <3> QED
            BY <1>0, <3>3 DEF Typed
    <2> QED BY <2>1, <2>2
<1>4. count' \in [Calls -> Nat]
    <2>1. CASE f = 0
        BY <1>0, <1>2, <2>1
    <2>2. CASE f # 0
        <3>1. f \in 1 .. Len(users)
            BY <1>1, <2>2 DEF IsFirst
        <3>2. users[f] \in Account
            BY <1>0, <3>1 DEF Typed
        <3>3. users[f].failedLoginAttempts \in Nat
            BY <3>2 DEF Account
        <3> QED BY <1>0, <1>2, <2>2, <3>3
    <2> QED BY <2>1, <2>2
<1>5. q \in DTOs
    BY DEF DTOs
<1>6. /\ pc' \in [Calls -> Labels] /\ dto' \in [Calls -> DTOs] /\ found' \in [Calls -> Nat]
      /\ pc'[c] = "user" /\ dto'[c] = q /\ found'[c] = f
    BY <1>0, <1>1, <1>2, <1>5 DEF Labels
<1>7. Typed'
    <2>1. users \in Seq(Account) /\ tenants \in Seq(Tenant)
        BY <1>0 DEF Typed
    <2> QED BY <1>0, <1>2, <1>3, <1>4, <1>6, <2>1 DEF Typed
<1>8. Grows
    BY <1>0, <1>2, <1>3 DEF Grows
<1>9. OnlyMoves(c) /\ StaysStored(c)
    <2>1. \A d \in Calls : d # c => count'[d] = count[d]
        BY <1>0, <1>2
    <2> QED BY <1>0, <1>2, <2>1 DEF OnlyMoves, StaysStored
<1>10. Registering(c)' /\ Provisioning(c)'
    BY <1>6 DEF Registering, Provisioning
<1>11. LoggingIn(c)'
    BY <1>1, <1>2, <1>6 DEF LoggingIn, IsFirst, Known
<1>12. \A v \in 1 .. Len(users') : ~(v > Len(users))
    BY <1>0, <1>2
<1> QED
    BY <1>7, <1>8, <1>9, <1>10, <1>11, <1>12, StepKeeps

\* What userRepo.update does to a user and its history
LEMMA UpdateEffect ==
    ASSUME ServiceInv, NEW c \in Calls, UpdateUser(c)
    PROVE  LET u == found[c]
               ok == users[u].password = dto[c].password
           IN  /\ u \in 1 .. Len(users)
               /\ users' \in Seq(Account) /\ Len(users') = Len(users)
               /\ \A v \in 1 .. Len(users) : v # u => users'[v] = users[v]
               /\ users'[u].email = users[u].email /\ users'[u].tenant = users[u].tenant
               /\ users'[u].password = users[u].password
               /\ users'[u].failedLoginAttempts = IF ok THEN 0 ELSE count[c] + 1
               /\ tally' \in Seq(Tally) /\ Len(tally') = Len(tally)
               /\ \A v \in 1 .. Len(tally) : v # u => tally'[v] = tally[v]
               /\ tally'[u].by = tally[u].by /\ tally'[u].apart = tally[u].apart
               /\ tally'[u].failures = IF ok THEN tally[u].failures ELSE tally[u].failures + 1
               /\ tally'[u].inRow = IF ok THEN 0 ELSE tally[u].inRow + 1
<1> DEFINE u == found[c]
<1> DEFINE ok == users[u].password = dto[c].password
<1>0. Typed /\ LoggingIn(c) /\ pc[c] = "verify" /\ count[c] \in Nat
    BY DEF ServiceInv, Typed, UpdateUser
<1>1. u \in 1 .. Len(users) /\ u \in 1 .. Len(tally)
    BY <1>0 DEF LoggingIn, IsFirst, Typed
<1>2. users \in Seq(Account) /\ tally \in Seq(Tally)
    BY <1>0 DEF Typed
<1>3. users[u] \in Account /\ tally[u] \in Tally
    BY <1>1, <1>2
<1> DEFINE newUser == [users[u] EXCEPT !.failedLoginAttempts = IF ok THEN 0 ELSE count[c] + 1]
<1> DEFINE newTally == [tally[u] EXCEPT !.failures = IF ok THEN @ ELSE @ + 1,
                                        !.inRow = IF ok THEN 0 ELSE @ + 1]
<1>4. users' = [users EXCEPT ![u] = newUser]
    BY DEF UpdateUser, AttemptsAfter
<1>5. tally' = [tally EXCEPT ![u] = newTally]
    BY <1>1, <1>2 DEF UpdateUser
<1> HIDE DEF u, ok
<1>6. /\ newUser \in Account
      /\ newUser.email = users[u].email /\ newUser.tenant = users[u].tenant
      /\ newUser.password = users[u].password
      /\ newUser.failedLoginAttempts = IF ok THEN 0 ELSE count[c] + 1
    BY <1>0, <1>3 DEF Account
<1>7. /\ newTally \in Tally
      /\ newTally.by = tally[u].by
      /\ newTally.failures = IF ok THEN tally[u].failures ELSE tally[u].failures + 1
      /\ newTally.inRow = IF ok THEN 0 ELSE tally[u].inRow + 1
    <2> DEFINE t == tally[u]
    <2> DEFINE f == IF ok THEN t.failures ELSE t.failures + 1
    <2> DEFINE r == IF ok THEN 0 ELSE t.inRow + 1
    <2>1. t \in Tally /\ f \in Nat /\ r \in Nat
        BY <1>3 DEF Tally
    <2>2. newTally = [t EXCEPT !.failures = f, !.inRow = r]
        OBVIOUS
    <2> HIDE DEF t, f, r, newTally
    <2>3. [t EXCEPT !.failures = f, !.inRow = r] \in Tally
        BY <2>1 DEF Tally
    <2>4. newTally.by = t.by /\ newTally.failures = f /\ newTally.inRow = r
        BY <2>1, <2>2 DEF Tally
    <2> QED
        BY <2>2, <2>3, <2>4 DEF t, f, r
<1>8. newTally.apart = tally[u].apart
    BY <1>3, Zenon DEF Tally
<1> HIDE DEF newUser, newTally
<1>9. /\ users' \in Seq(Account) /\ Len(users') = Len(users) /\ users'[u] = newUser
      /\ \A v \in 1 .. Len(users) : v # u => users'[v] = users[v]
    BY <1>1, <1>2, <1>4, <1>6, UserReplaced, Zenon
<1>10. /\ tally' \in Seq(Tally) /\ Len(tally') = Len(tally) /\ tally'[u] = newTally
       /\ \A v \in 1 .. Len(tally) : v # u => tally'[v] = tally[v]
    BY <1>1, <1>2, <1>5, <1>7, TallyReplaced, Zenon
<1> QED
    BY <1>1, <1>6, <1>7, <1>8, <1>9, <1>10, Zenon DEF u, ok
\* login has counted a failure, or reset the count and goes on.
LEMMA UpdateKeeps ==
    ASSUME ServiceInv, NEW c \in Calls, UpdateUser(c)
    PROVE  ServiceInv'
<1> DEFINE u == found[c]
<1> DEFINE ok == users[u].password = dto[c].password
<1>0. /\ pc \in [Calls -> Labels] /\ dto \in [Calls -> DTOs] /\ found \in [Calls -> Nat]
      /\ count \in [Calls -> Nat] /\ mark \in [Calls -> Mark] /\ tenants \in Seq(Tenant)
      /\ Len(users) \in Nat /\ Len(tenants) \in Nat /\ Len(tally) = Len(users)
      /\ LoggingIn(c)
    BY DEF ServiceInv, Typed
<1>1. /\ pc[c] = "verify" /\ tenants' = tenants /\ dto' = dto /\ found' = found
      /\ count' = count /\ mark' = mark
      /\ pc' = [pc EXCEPT ![c] = IF ok THEN "verified" ELSE "Unauthorized"]
    BY DEF UpdateUser, Go
<1>2. /\ u \in 1 .. Len(users)
      /\ users' \in Seq(Account) /\ Len(users') = Len(users)
      /\ \A v \in 1 .. Len(users) : v # u => users'[v] = users[v]
      /\ users'[u].email = users[u].email /\ users'[u].tenant = users[u].tenant
      /\ users'[u].password = users[u].password
      /\ tally' \in Seq(Tally) /\ Len(tally') = Len(tally)
      /\ \A v \in 1 .. Len(tally) : v # u => tally'[v] = tally[v]
      /\ tally'[u].by = tally[u].by
    BY UpdateEffect, Zenon
<1> HIDE DEF u
<1>3. pc' \in [Calls -> Labels] /\ pc'[c] = IF ok THEN "verified" ELSE "Unauthorized"
    BY <1>0, <1>1 DEF Labels
<1>4. Typed'
    BY <1>0, <1>1, <1>2, <1>3 DEF Typed
<1>5. Grows
    <2>1. ASSUME NEW v \in 1 .. Len(users)
          PROVE  /\ users'[v].email = users[v].email /\ users'[v].tenant = users[v].tenant
                 /\ users'[v].password = users[v].password /\ tally'[v].by = tally[v].by
        BY <1>0, <1>2, Zenon
    <2> QED BY <1>0, <1>1, <1>2, <2>1 DEF Grows
<1>6. OnlyMoves(c) /\ StaysStored(c)
    BY <1>0, <1>1 DEF OnlyMoves, StaysStored
<1>7. Registering(c)' /\ Provisioning(c)'
    BY <1>3 DEF Registering, Provisioning
<1>8. LoggingIn(c)'
    <2>1. IsFirst(u, dto[c].email, dto[c].tenant)
        BY <1>0, <1>1 DEF LoggingIn, u
    <2>2. ASSUME NEW v \in 1 .. Len(users)
          PROVE  Known(v, dto[c].email, dto[c].tenant)' <=> Known(v, dto[c].email, dto[c].tenant)
        BY <1>1, <1>5 DEF Known, Grows
    <2>3. IsFirst(u, dto[c].email, dto[c].tenant)'
        BY <1>1, <1>2, <2>1, <2>2 DEF IsFirst, u
    <2>4. found'[c] = u
        BY <1>1 DEF u
    <2>5. pc'[c] = "verified" => users'[u].password = dto'[c].password
        BY <1>1, <1>2, <1>3
    <2> QED
        BY <1>3, <2>3, <2>4, <2>5 DEF LoggingIn, u
<1>9. \A v \in 1 .. Len(users') : ~(v > Len(users))
    BY <1>0, <1>2
<1> QED
    BY <1>4, <1>5, <1>6, <1>7, <1>8, <1>9, StepKeeps

\* What userRepo.create does
LEMMA CreateEffect ==
    ASSUME Typed, NEW c \in Calls, NEW t \in Nat, createUser(c, t),
           dto[c] \in Registrations \cup TenantRequests
    PROVE  LET n == Len(users) + 1
           IN  /\ users' \in Seq(Account) /\ Len(users') = n
               /\ \A v \in 1 .. Len(users) : users'[v] = users[v]
               /\ users'[n].email = dto[c].email /\ users'[n].tenant = t
               /\ users'[n].failedLoginAttempts = 0
               /\ tally' \in Seq(Tally) /\ Len(tally') = n
               /\ \A v \in 1 .. Len(users) : tally'[v] = tally[v]
               /\ tally'[n].by = c /\ tally'[n].failures = 0 /\ tally'[n].inRow = 0
<1> DEFINE user == [tenant |-> t, email |-> dto[c].email,
                    password |-> dto[c].password, failedLoginAttempts |-> 0]
<1> DEFINE record0 == [by |-> c, failures |-> 0, inRow |-> 0, apart |-> TRUE]
<1>0. users \in Seq(Account) /\ tally \in Seq(Tally) /\ Len(tally) = Len(users) /\ Len(users) \in Nat
    BY DEF Typed
<1>1. users' = Append(users, user) /\ tally' = Append(tally, record0)
    BY DEF createUser
<1>2. user \in Account /\ record0 \in Tally
    BY DEF Account, Tally, Emails, Passwords
<1>3. /\ user.email = dto[c].email /\ user.tenant = t /\ user.failedLoginAttempts = 0
      /\ record0.by = c /\ record0.failures = 0 /\ record0.inRow = 0
    OBVIOUS
<1> HIDE DEF user, record0
<1>4. /\ users' \in Seq(Account) /\ Len(users') = Len(users) + 1
      /\ \A v \in 1 .. Len(users) : users'[v] = users[v]
      /\ users'[Len(users) + 1] = user
    BY <1>0, <1>1, <1>2
<1>5. /\ tally' \in Seq(Tally) /\ Len(tally') = Len(users) + 1
      /\ \A v \in 1 .. Len(users) : tally'[v] = tally[v]
      /\ tally'[Len(users) + 1] = record0
    BY <1>0, <1>1, <1>2
<1> QED
    BY <1>3, <1>4, <1>5

\* A user is stored by a call that had made sure of it.
LEMMA StoreKeeps ==
    ASSUME ServiceInv, NEW c \in Calls, NEW t \in 1 .. Len(tenants), createUser(c, t),
           dto[c] \in Registrations \cup TenantRequests,
           NEW l \in {"registered", "provisioned"}, pc' = [pc EXCEPT ![c] = l],
           pc[c] \in {"hash", "admin"},
           tenants' = tenants, dto' = dto, count' = count, mark' = mark,
           found' \in [Calls -> Nat], \A d \in Calls : d # c => found'[d] = found[d],
           Provisioning(c)',
           \A u \in 1 .. Len(users) : u <= mark[c].users => ~Known(u, dto[c].email, t)
    PROVE  ServiceInv'
<1> DEFINE n == Len(users) + 1
<1>0. /\ pc \in [Calls -> Labels] /\ dto \in [Calls -> DTOs] /\ count \in [Calls -> Nat]
      /\ mark \in [Calls -> Mark] /\ tenants \in Seq(Tenant)
      /\ Len(users) \in Nat /\ Len(tenants) \in Nat /\ Typed
    BY DEF ServiceInv, Typed
<1>1. t \in Nat
    BY <1>0
<1>2. /\ users' \in Seq(Account) /\ Len(users') = n
      /\ \A v \in 1 .. Len(users) : users'[v] = users[v]
      /\ users'[n].email = dto[c].email /\ users'[n].tenant = t
      /\ tally' \in Seq(Tally) /\ Len(tally') = n
      /\ \A v \in 1 .. Len(users) : tally'[v] = tally[v]
      /\ tally'[n].by = c
    BY <1>0, <1>1, CreateEffect, Zenon
<1>3. pc' \in [Calls -> Labels] /\ pc'[c] = l
    BY <1>0 DEF Labels
<1>4. Typed'
    BY <1>0, <1>2, <1>3 DEF Typed
<1>5. Grows
    BY <1>0, <1>2 DEF Grows
<1>6. OnlyMoves(c) /\ StaysStored(c)
    BY <1>0 DEF OnlyMoves, StaysStored
<1>7. Registering(c)' /\ LoggingIn(c)'
    BY <1>3 DEF Registering, LoggingIn
<1>8. ASSUME NEW v \in 1 .. Len(users'), v > Len(users) PROVE Stored(v)'
    <2>1. v = n
        BY <1>0, <1>2, <1>8
    <2>2. ASSUME NEW u \in 1 .. Len(users'), u < n, u <= mark[c].users
          PROVE  ~(users'[u].email = dto[c].email /\ users'[u].tenant = t)
        <3>1. u \in 1 .. Len(users)
            BY <1>0, <1>2, <2>2
        <3> QED BY <1>2, <2>2, <3>1 DEF Known
    <2>3. users'[v].email = dto[c].email /\ users'[v].tenant = t /\ tally'[v].by = c
        BY <1>2, <2>1
    <2>4. \A u \in 1 .. Len(users') : u < v /\ u <= mark[c].users =>
              ~(users'[u].email = dto[c].email /\ users'[u].tenant = t)
        BY <2>1, <2>2
    <2> HIDE DEF n
    <2> QED
        BY <1>3, <2>3, <2>4 DEF Stored, Known
<1> QED
    BY <1>4, <1>5, <1>6, <1>7, <1>8, StepKeeps

\* registerUser stores its user.
LEMMA CreateUserKeeps ==
    ASSUME ServiceInv, NEW c \in Calls, CreateUser(c)
    PROVE  ServiceInv'
<1>1. Registering(c) /\ pc \in [Calls -> Labels] /\ found \in [Calls -> Nat] /\ Len(users) \in Nat
    BY DEF ServiceInv, Typed
<1>2. /\ pc[c] = "hash" /\ createUser(c, dto[c].tenant)
      /\ found' = [found EXCEPT ![c] = Len(users) + 1]
      /\ pc' = [pc EXCEPT ![c] = "registered"]
      /\ tenants' = tenants /\ dto' = dto /\ count' = count /\ mark' = mark
    BY DEF CreateUser, Take, Go
<1>3. /\ dto[c] \in Registrations \cup TenantRequests /\ dto[c].tenant \in 1 .. Len(tenants)
      /\ \A u \in 1 .. Len(users) : u <= mark[c].users => ~Known(u, dto[c].email, dto[c].tenant)
    BY <1>1, <1>2 DEF Registering
<1>4. /\ found' \in [Calls -> Nat] /\ \A d \in Calls : d # c => found'[d] = found[d]
    BY <1>1, <1>2
<1>5. Provisioning(c)'
    <2>1. pc'[c] = "registered"
        BY <1>1, <1>2
    <2> QED BY <2>1 DEF Provisioning
<1> QED
    BY <1>2, <1>3, <1>4, <1>5, StoreKeeps

\* provisionTenant stores its administrator.
LEMMA CreateAdminKeeps ==
    ASSUME ServiceInv, NEW c \in Calls, CreateAdmin(c)
    PROVE  ServiceInv'
<1>1. Provisioning(c) /\ pc \in [Calls -> Labels] /\ found \in [Calls -> Nat] /\ Len(users) \in Nat
    BY DEF ServiceInv, Typed
<1>2. /\ pc[c] = "admin" /\ createUser(c, found[c])
      /\ pc' = [pc EXCEPT ![c] = "provisioned"]
      /\ tenants' = tenants /\ dto' = dto /\ count' = count /\ mark' = mark /\ found' = found
    BY DEF CreateAdmin, Go
<1>3. /\ dto[c] \in Registrations \cup TenantRequests /\ found[c] \in 1 .. Len(tenants)
      /\ \A u \in 1 .. Len(users) : u <= mark[c].users => ~Known(u, dto[c].email, found[c])
    BY <1>1, <1>2 DEF Provisioning, Known
<1>4. Provisioning(c)'
    <2>1. pc'[c] = "provisioned"
        BY <1>1, <1>2
    <2> QED BY <1>1, <1>2, <2>1 DEF Provisioning
<1> QED
    BY <1>1, <1>2, <1>3, <1>4, StoreKeeps

\* provisionTenant stores its tenant, of which there is no user yet.
LEMMA CreateTenantKeeps ==
    ASSUME ServiceInv, NEW c \in Calls, CreateTenant(c)
    PROVE  ServiceInv'
<1>0. /\ pc \in [Calls -> Labels] /\ dto \in [Calls -> DTOs] /\ found \in [Calls -> Nat]
      /\ count \in [Calls -> Nat] /\ mark \in [Calls -> Mark]
      /\ tenants \in Seq(Tenant) /\ users \in Seq(Account) /\ tally \in Seq(Tally)
      /\ Len(tally) = Len(users) /\ Len(users) \in Nat /\ Len(tenants) \in Nat
      /\ Provisioning(c)
    BY DEF ServiceInv, Typed
<1>1. /\ pc[c] = "slug" /\ users' = users /\ tally' = tally /\ dto' = dto /\ count' = count
    BY DEF CreateTenant
<1>2. CASE ~IsNew(c)
    <2>1. /\ pc' = [pc EXCEPT ![c] = "Conflict"]
          /\ tenants' = tenants /\ found' = found /\ mark' = mark
        BY <1>2 DEF CreateTenant, Go
    <2>2. pc' \in [Calls -> Labels] /\ pc'[c] = "Conflict"
        BY <1>0, <2>1 DEF Labels
    <2>3. OnlyMoves(c) /\ StaysStored(c)
        BY <1>0, <1>1, <2>1 DEF OnlyMoves, StaysStored
    <2>4. Registering(c)' /\ Provisioning(c)' /\ LoggingIn(c)'
        BY <2>2 DEF Registering, Provisioning, LoggingIn
    <2>5. Quiet
        BY <1>1, <2>1 DEF Quiet
    <2> QED
        BY <1>0, <1>1, <2>1, <2>2, <2>3, <2>4, <2>5, QuietKeeps
<1>3. CASE IsNew(c)
    <2> DEFINE tenant == [slug |-> dto[c].slug, isActive |-> TRUE]
    <2> DEFINE new == [mark[c] EXCEPT !.users = Len(users)]
    <2>1. /\ found[c] = 0 /\ tenants' = Append(tenants, tenant)
          /\ found' = [found EXCEPT ![c] = Len(tenants) + 1]
          /\ mark' = [mark EXCEPT ![c] = new]
          /\ pc' = [pc EXCEPT ![c] = "admin"]
        BY <1>3 DEF CreateTenant, createTenant, IsNew, Take, Go
    <2>2. /\ dto[c] \in TenantRequests /\ mark[c].tenants <= Len(tenants)
          /\ \A s \in 1 .. Len(tenants) : s <= mark[c].tenants => tenants[s].slug # dto[c].slug
        BY <1>0, <1>1, <2>1 DEF Provisioning
    <2>3. tenant \in Tenant
        BY <2>2 DEF Tenant, Slugs
    <2>4. new \in Mark /\ new.users = Len(users) /\ new.tenants = mark[c].tenants /\ new.tenants \in Nat
        <3>1. mark[c] \in Mark
            BY <1>0
        <3> QED BY <1>0, <3>1 DEF Mark
    <2> HIDE DEF tenant, new
    <2>5. /\ tenants' \in Seq(Tenant) /\ Len(tenants') = Len(tenants) + 1
          /\ \A t \in 1 .. Len(tenants) : tenants'[t] = tenants[t]
        BY <1>0, <2>1, <2>3
    <2>6. /\ pc' \in [Calls -> Labels] /\ pc'[c] = "admin"
          /\ found' \in [Calls -> Nat] /\ found'[c] = Len(tenants) + 1
          /\ mark' \in [Calls -> Mark] /\ mark'[c] = new
        BY <1>0, <2>1, <2>4 DEF Labels
    <2>7. Typed'
        BY <1>0, <1>1, <2>5, <2>6 DEF Typed
    <2>8. Grows
        BY <1>0, <1>1, <2>5 DEF Grows
    <2>9. OnlyMoves(c) /\ StaysStored(c)
        BY <1>0, <1>1, <2>1 DEF OnlyMoves, StaysStored
    <2>10. Registering(c)' /\ LoggingIn(c)'
        BY <2>6 DEF Registering, LoggingIn
    <2>11. \A u \in 1 .. Len(users) : users[u].tenant # Len(tenants) + 1
        <3>1. \A u \in 1 .. Len(users) : users[u].tenant \in 1 .. Len(tenants)
            BY DEF ServiceInv, Stored
        <3> QED BY <1>0, <3>1
    <2>12. \A s \in 1 .. Len(tenants') : s <= new.tenants => tenants'[s].slug # dto[c].slug
        <3> SUFFICES ASSUME NEW s \in 1 .. Len(tenants'), s <= new.tenants
                     PROVE  tenants'[s].slug # dto[c].slug
            OBVIOUS
        <3>1. s \in 1 .. Len(tenants) /\ s <= mark[c].tenants
            BY <1>0, <2>2, <2>4, <2>5
        <3> QED BY <2>2, <2>5, <3>1
    <2>13. Provisioning(c)'
        BY <1>0, <1>1, <2>2, <2>4, <2>5, <2>6, <2>11, <2>12 DEF Provisioning
    <2>14. \A v \in 1 .. Len(users') : ~(v > Len(users))
        BY <1>0, <1>1
    <2> QED
        BY <2>7, <2>8, <2>9, <2>10, <2>13, <2>14, StepKeeps
<1> QED
    BY <1>2, <1>3
\* A hash that is rejected leaves everything as it was but for the call.
LEMMA HashFailsKeeps ==
    ASSUME ServiceInv, NEW c \in Calls, HashFails(c)
    PROVE  ServiceInv'
<1>1. /\ pc[c] \in {"hash", "verify", "admin"}
      /\ Quiet /\ dto' = dto /\ count' = count /\ found' = found /\ mark' = mark
      /\ pc' = [pc EXCEPT ![c] = IF pc[c] = "admin" THEN "orphaned" ELSE "Error"]
    BY DEF HashFails, Quiet, repositories, history, Go
<1>2. /\ pc \in [Calls -> Labels] /\ dto \in [Calls -> DTOs] /\ found \in [Calls -> Nat]
      /\ count \in [Calls -> Nat] /\ mark \in [Calls -> Mark]
    BY DEF ServiceInv, Typed
<1>3. Provisioning(c)
    BY DEF ServiceInv
<1>4. pc' \in [Calls -> Labels] /\ pc'[c] = IF pc[c] = "admin" THEN "orphaned" ELSE "Error"
    BY <1>1, <1>2 DEF Labels
<1>5. OnlyMoves(c) /\ StaysStored(c)
    BY <1>1, <1>2 DEF OnlyMoves, StaysStored
<1>6. Registering(c)' /\ LoggingIn(c)'
    BY <1>4 DEF Registering, LoggingIn
<1>7. Provisioning(c)'
    BY <1>1, <1>3, <1>4 DEF Provisioning, Quiet
<1> QED
    BY <1>1, <1>2, <1>4, <1>5, <1>6, <1>7, QuietKeeps

\* The invariant of the service, one lemma per action
LEMMA ServiceInvariant == Spec => []ServiceInv
<1>1. Init => ServiceInv
    <2> SUFFICES ASSUME Init PROVE ServiceInv
        OBVIOUS
    <2>1. Typed
        <3>1. users \in Seq(Account) /\ tally \in Seq(Tally) /\ Len(tally) = Len(users)
            BY DEF Init
        <3>2. tenants \in Seq(Tenant)
            BY AuthAssumption DEF Init, Tenant
        <3>3. mark \in [Calls -> Mark]
            BY DEF Init, Mark
        <3> QED
            BY <3>1, <3>2, <3>3 DEF Init, Typed, Labels, DTOs
    <2>2. \A c \in Calls : pc[c] = "idle"
        BY DEF Init
    <2>3. \A c \in Calls : Registering(c) /\ Provisioning(c) /\ LoggingIn(c)
        BY <2>2 DEF Registering, Provisioning, LoggingIn
    <2>4. Len(users) = 0
        BY DEF Init
    <2> QED
        BY <2>1, <2>3, <2>4 DEF ServiceInv
<1>2. ServiceInv /\ [Next]_vars => ServiceInv'
    <2> SUFFICES ASSUME ServiceInv, [Next]_vars PROVE ServiceInv'
        OBVIOUS
    <2>1. ASSUME NEW c \in Calls, Call(c) PROVE ServiceInv'
        BY <2>1, RegisterKeeps, LoginKeeps, ProvisionKeeps DEF Call
    <2>2. ASSUME NEW c \in Calls, Proceed(c) PROVE ServiceInv'
        BY <2>2, CheckTenantKeeps, CheckEmailKeeps, CreateUserKeeps, IssueTokensKeeps,
           CheckUserKeeps, UpdateKeeps, CreateTenantKeeps, CreateAdminKeeps, HashFailsKeeps DEF Proceed
    <2>3. CASE UNCHANGED vars
        BY <2>3 DEF vars, repositories, history, ServiceInv, Typed, Registering, Provisioning,
           LoggingIn, IsFirst, Known, Stored
    <2> QED
        BY <2>1, <2>2, <2>3 DEF Next
<1> QED
    BY <1>1, <1>2, PTL DEF Spec

\* Two users of one address, or two tenants of one slug, come only from calls
\* that overlap, whatever is registered, provisioned and logged in, and however
\* many calls there are.
THEOREM DuplicatesOverlapCorrect == Spec => []DuplicatesOverlap
<1>1. ServiceInv => DuplicatesOverlap
    <2> SUFFICES ASSUME ServiceInv PROVE DuplicatesOverlap
        OBVIOUS
    <2>0. /\ DOMAIN users = 1 .. Len(users) /\ DOMAIN tenants = 1 .. Len(tenants)
          /\ Len(users) \in Nat /\ Len(tenants) \in Nat /\ mark \in [Calls -> Mark]
        BY DEF ServiceInv, Typed
    <2>1. ASSUME NEW u \in DOMAIN users, NEW v \in DOMAIN users,
                 u < v, users[u].email = users[v].email, users[u].tenant = users[v].tenant
          PROVE  mark[tally[v].by].users < u
        <3>1. Stored(v)
            BY <2>0 DEF ServiceInv
        <3>2. ~(u <= mark[tally[v].by].users)
            BY <2>0, <2>1, <3>1 DEF Stored, Known
        <3>3. mark[tally[v].by].users \in Nat
            <4>1. tally \in Seq(Tally) /\ v \in 1 .. Len(tally)
                BY <2>0 DEF ServiceInv, Typed
            <4>2. tally[v] \in Tally
                BY <4>1
            <4>3. mark[tally[v].by] \in Mark
                BY <2>0, <4>2 DEF Tally
            <4> QED BY <4>3 DEF Mark
        <3> QED
            BY <2>0, <3>2, <3>3
    <2>2. ASSUME NEW c \in Calls, NEW s \in DOMAIN tenants, pc[c] \in {"admin", "orphaned", "provisioned"},
                 tenants[s].slug = dto[c].slug
          PROVE  mark[c].tenants < s
        <3>1. Provisioning(c) /\ mark[c] \in Mark
            BY <2>0 DEF ServiceInv
        <3>2. ~(s <= mark[c].tenants)
            BY <2>0, <2>2, <3>1 DEF Provisioning
        <3>3. mark[c].tenants \in Nat
            BY <3>1 DEF Mark
        <3> QED
            BY <2>0, <3>2, <3>3
    <2> QED
        BY <2>1, <2>2 DEF DuplicatesOverlap
<1> QED
    BY <1>1, ServiceInvariant, PTL

\* Whoever is logged in knows the password of the user his address stands for,
\* and keeps doing so, for any number of overlapping calls.
THEOREM LoginOfOwnerCorrect == Spec => []LoginOfOwner
<1>1. ServiceInv => LoginOfOwner
    <2> SUFFICES ASSUME ServiceInv, NEW c \in Calls, pc[c] = "loggedIn"
                 PROVE  LET u == findByEmailAndTenant(dto[c].email, dto[c].tenant)
                        IN  u = found[c] /\ users[u].password = dto[c].password
        BY DEF LoginOfOwner
    <2> DEFINE u == findByEmailAndTenant(dto[c].email, dto[c].tenant)
    <2>1. IsFirst(found[c], dto[c].email, dto[c].tenant) /\ users[found[c]].password = dto[c].password
        BY DEF ServiceInv, LoggingIn
    <2>2. /\ u \in Nat
          /\ u = 0 => \A v \in 1 .. Len(users) : ~Known(v, dto[c].email, dto[c].tenant)
          /\ u # 0 => IsFirst(u, dto[c].email, dto[c].tenant)
        <3>1. Typed
            BY DEF ServiceInv
        <3> QED BY <3>1, FindFirst
    <2> HIDE DEF u
    <2>3. u = found[c]
        <3>1. Len(users) \in Nat
            BY DEF ServiceInv, Typed
        <3>2. u # 0
            BY <2>1, <2>2 DEF IsFirst
        <3>3. /\ u \in 1 .. Len(users) /\ found[c] \in 1 .. Len(users)
              /\ u <= found[c] /\ found[c] <= u
            BY <2>1, <2>2, <3>2 DEF IsFirst
        <3> QED BY <3>1, <3>3
    <2> QED
        BY <2>1, <2>3 DEF u
<1> QED
    BY <1>1, ServiceInvariant, PTL

----------------------------------------------------------------------------
(* The administrators                                                      *)

\* Call c made tenant t: it waits for the hash of the administrator's password,
\* the hash was rejected, or it has stored him.
Administered(t, c) ==
    /\ found[c] = t
    /\ \/ pc[c] \in {"admin", "orphaned"}
       \/ pc[c] = "provisioned" /\ \E u \in 1 .. Len(users) : users[u].tenant = t /\ tally[u].by = c

AdminInv ==
    \A t \in 1 .. Len(tenants) : t > Len(InitialTenants) => \E c \in Calls : Administered(t, c)

\* The users only grow, as far as who they are is concerned.
UsersGrow ==
    /\ Len(users) \in Nat /\ Len(users') \in Nat /\ Len(users) <= Len(users')
    /\ \A u \in 1 .. Len(users) : users'[u].tenant = users[u].tenant /\ tally'[u].by = tally[u].by

\* A step of another call leaves a tenant administered.
LEMMA StaysAdministered ==
    ASSUME UsersGrow, NEW t, NEW d \in Calls, Administered(t, d),
           pc'[d] = pc[d], found'[d] = found[d]
    PROVE  Administered(t, d)'
<1>1. CASE pc[d] \in {"admin", "orphaned"}
    BY <1>1 DEF Administered
<1>2. CASE pc[d] \notin {"admin", "orphaned"}
    <2>1. PICK u \in 1 .. Len(users) : users[u].tenant = t /\ tally[u].by = d
        BY <1>2 DEF Administered
    <2>2. u \in 1 .. Len(users') /\ users'[u].tenant = t /\ tally'[u].by = d
        BY <2>1 DEF UsersGrow
    <2> QED
        BY <1>2, <2>2 DEF Administered
<1> QED BY <1>1, <1>2

\* A tenant keeps the call that made it: by cases on the action.
LEMMA AdminStep ==
    ASSUME ServiceInv, AdminInv, ServiceInv', NEW c \in Calls, Call(c) \/ Proceed(c)
    PROVE  AdminInv'
<1>0. /\ pc \in [Calls -> Labels] /\ found \in [Calls -> Nat]
      /\ Len(users) \in Nat /\ Len(tenants) \in Nat
      /\ tenants \in Seq(Tenant) /\ users \in Seq(Account) /\ tally \in Seq(Tally)
      /\ Len(tally) = Len(users)
    BY DEF ServiceInv, Typed
<1>1. ASSUME Len(tenants') = Len(tenants), pc[c] \notin {"admin", "orphaned", "provisioned"},
             UsersGrow,
             \A d \in Calls : d # c => pc'[d] = pc[d] /\ found'[d] = found[d]
      PROVE  AdminInv'
    <2>1. ASSUME NEW t \in 1 .. Len(tenants), t > Len(InitialTenants)
          PROVE  \E d \in Calls : Administered(t, d)'
        <3>1. PICK d \in Calls : Administered(t, d)
            BY <2>1 DEF AdminInv
        <3>2. d # c
            BY <1>1, <3>1 DEF Administered
        <3>3. Administered(t, d)'
            BY <1>1, <3>1, <3>2, StaysAdministered
        <3> QED BY <3>3
    <2> QED
        BY <1>1, <2>1 DEF AdminInv
<1>2. CASE users' = users /\ tenants' = tenants /\ tally' = tally
           /\ pc[c] \notin {"admin", "orphaned", "provisioned"}
           /\ (\A d \in Calls : d # c => pc'[d] = pc[d] /\ found'[d] = found[d])
    BY <1>0, <1>1, <1>2 DEF UsersGrow
<1>3. ASSUME NEW q \in Registrations, registerUser(c, q) PROVE AdminInv'
    BY <1>0, <1>2, <1>3 DEF registerUser, repositories, history, Go, Take
<1>4. ASSUME NEW q \in TenantRequests, provisionTenant(c, q) PROVE AdminInv'
    BY <1>0, <1>2, <1>4 DEF provisionTenant, repositories, Go, Take
<1>5. CASE CheckTenant(c)
    BY <1>0, <1>2, <1>5 DEF CheckTenant, repositories, Go, Take
<1>6. CASE CheckEmail(c)
    BY <1>0, <1>2, <1>6 DEF CheckEmail, repositories, history, Go
<1>7. CASE IssueTokens(c)
    BY <1>0, <1>2, <1>7 DEF IssueTokens, history, Go
<1>8. CASE CheckUser(c)
    BY <1>0, <1>2, <1>8 DEF CheckUser, repositories, history, Go
<1>9. ASSUME NEW q \in LoginRequests, login(c, q) PROVE AdminInv'
    <2> DEFINE f == findByEmailAndTenant(q.email, q.tenant)
    <2>1. Typed /\ f \in Nat /\ (f # 0 => IsFirst(f, q.email, q.tenant))
        <3>1. Typed
            BY DEF ServiceInv
        <3> QED BY <3>1, FindFirst
    <2>2. /\ pc[c] = "idle" /\ users' = users /\ tenants' = tenants
          /\ found' = [found EXCEPT ![c] = f] /\ pc' = [pc EXCEPT ![c] = "user"]
          /\ IF f = 0 THEN tally' = tally
             ELSE tally' = [tally EXCEPT ![f].apart = @ /\ Reading(f) = {}]
        BY <1>9 DEF login, repositories, Take, Go
    <2> HIDE DEF f
    <2>3. \A v \in 1 .. Len(users) : tally'[v].by = tally[v].by
        <3>1. CASE f = 0
            BY <2>2, <3>1
        <3>2. CASE f # 0
            <4>1. f \in 1 .. Len(users)
                BY <2>1, <3>2 DEF IsFirst
            <4>2. (Reading(f) = {}) \in BOOLEAN
                BY Zenon
            <4>3. /\ \A v \in 1 .. Len(tally) : v # f => tally'[v] = tally[v]
                  /\ tally'[f].by = tally[f].by
                BY <2>1, <2>2, <3>2, <4>1, <4>2, LoginTally, Zenon
            <4> QED BY <1>0, <4>3
        <3> QED BY <3>1, <3>2
    <2>4. UsersGrow
        BY <1>0, <2>2, <2>3 DEF UsersGrow
    <2>5. /\ pc[c] \notin {"admin", "orphaned", "provisioned"} /\ Len(tenants') = Len(tenants)
          /\ \A d \in Calls : d # c => pc'[d] = pc[d] /\ found'[d] = found[d]
        BY <1>0, <2>2
    <2> QED BY <1>1, <2>4, <2>5
<1>10. CASE UpdateUser(c)
    <2>1. /\ Len(users') = Len(users)
          /\ \A v \in 1 .. Len(users) : v # found[c] => users'[v] = users[v]
          /\ users'[found[c]].tenant = users[found[c]].tenant
          /\ \A v \in 1 .. Len(tally) : v # found[c] => tally'[v] = tally[v]
          /\ tally'[found[c]].by = tally[found[c]].by
        BY <1>10, UpdateEffect, Zenon
    <2>2. UsersGrow
        <3>1. \A v \in 1 .. Len(users) : users'[v].tenant = users[v].tenant /\ tally'[v].by = tally[v].by
            BY <1>0, <2>1, Zenon
        <3> QED BY <1>0, <2>1, <3>1 DEF UsersGrow
    <2>3. /\ pc[c] \notin {"admin", "orphaned", "provisioned"} /\ Len(tenants') = Len(tenants)
          /\ \A d \in Calls : d # c => pc'[d] = pc[d] /\ found'[d] = found[d]
        BY <1>0, <1>10 DEF UpdateUser, Go
    <2> QED BY <1>1, <2>2, <2>3
<1>11. ASSUME NEW t \in 1 .. Len(tenants), createUser(c, t), dto[c] \in Registrations \cup TenantRequests
       PROVE  /\ UsersGrow /\ Len(users') = Len(users) + 1
              /\ users'[Len(users) + 1].tenant = t /\ tally'[Len(users) + 1].by = c
    <2>1. Typed /\ t \in Nat
        BY <1>0 DEF ServiceInv
    <2>2. /\ Len(users') = Len(users) + 1
          /\ \A v \in 1 .. Len(users) : users'[v] = users[v]
          /\ users'[Len(users) + 1].tenant = t
          /\ \A v \in 1 .. Len(users) : tally'[v] = tally[v]
          /\ tally'[Len(users) + 1].by = c
        BY <1>11, <2>1, CreateEffect, Zenon
    <2> QED
        BY <1>0, <2>2 DEF UsersGrow
<1>12. CASE CreateUser(c)
    <2>1. /\ pc[c] = "hash" /\ createUser(c, dto[c].tenant) /\ tenants' = tenants
          /\ found' = [found EXCEPT ![c] = Len(users) + 1] /\ pc' = [pc EXCEPT ![c] = "registered"]
        BY <1>12 DEF CreateUser, Take, Go
    <2>2. dto[c] \in Registrations \cup TenantRequests /\ dto[c].tenant \in 1 .. Len(tenants)
        BY <2>1 DEF ServiceInv, Registering
    <2>3. UsersGrow
        BY <1>11, <2>1, <2>2
    <2>4. /\ pc[c] \notin {"admin", "orphaned", "provisioned"} /\ Len(tenants') = Len(tenants)
          /\ \A d \in Calls : d # c => pc'[d] = pc[d] /\ found'[d] = found[d]
        BY <1>0, <2>1
    <2> QED BY <1>1, <2>3, <2>4
<1>13. CASE CreateAdmin(c)
    <2>1. /\ pc[c] = "admin" /\ createUser(c, found[c]) /\ tenants' = tenants
          /\ found' = found /\ pc' = [pc EXCEPT ![c] = "provisioned"]
        BY <1>13 DEF CreateAdmin, Go
    <2>2. dto[c] \in Registrations \cup TenantRequests /\ found[c] \in 1 .. Len(tenants)
        BY <2>1 DEF ServiceInv, Provisioning
    <2>3. /\ UsersGrow /\ Len(users') = Len(users) + 1
          /\ users'[Len(users) + 1].tenant = found[c] /\ tally'[Len(users) + 1].by = c
        BY <1>11, <2>1, <2>2
    <2>4. ASSUME NEW t \in 1 .. Len(tenants), t > Len(InitialTenants)
          PROVE  \E d \in Calls : Administered(t, d)'
        <3>1. PICK d \in Calls : Administered(t, d)
            BY <2>4 DEF AdminInv
        <3>2. CASE d # c
            <4>1. pc'[d] = pc[d] /\ found'[d] = found[d]
                BY <1>0, <2>1, <3>2
            <4> QED BY <2>3, <3>1, <4>1, StaysAdministered
        <3>3. CASE d = c
            <4>1. pc'[c] = "provisioned" /\ found'[c] = t /\ found[c] = t
                BY <1>0, <2>1, <3>1, <3>3 DEF Administered
            <4>2. Len(users) + 1 \in 1 .. Len(users')
                BY <1>0, <2>3
            <4>3. Administered(t, c)'
                BY <2>3, <4>1, <4>2 DEF Administered
            <4> QED BY <4>3
        <3> QED BY <3>2, <3>3
    <2> QED
        BY <2>1, <2>4 DEF AdminInv
<1>14. CASE CreateTenant(c)
    <2>1. CASE ~IsNew(c)
        <3>1. /\ pc[c] = "slug" /\ users' = users /\ tenants' = tenants /\ tally' = tally /\ found' = found
              /\ pc' = [pc EXCEPT ![c] = "Conflict"]
            BY <1>14, <2>1 DEF CreateTenant, Go
        <3> QED BY <1>0, <1>2, <3>1
    <2>2. CASE IsNew(c)
        <3>1. /\ pc[c] = "slug" /\ users' = users /\ tally' = tally
              /\ tenants' = Append(tenants, [slug |-> dto[c].slug, isActive |-> TRUE])
              /\ found' = [found EXCEPT ![c] = Len(tenants) + 1]
              /\ pc' = [pc EXCEPT ![c] = "admin"]
            BY <1>14, <2>2 DEF CreateTenant, createTenant, Take, Go
        <3>2. Len(tenants') = Len(tenants) + 1
            BY <1>0, <3>1
        <3>3. UsersGrow
            BY <1>0, <3>1 DEF UsersGrow
        <3>4. ASSUME NEW t \in 1 .. Len(tenants'), t > Len(InitialTenants)
              PROVE  \E d \in Calls : Administered(t, d)'
            <4>1. CASE t = Len(tenants) + 1
                <5>1. Administered(t, c)'
                    BY <1>0, <3>1, <4>1 DEF Administered
                <5> QED BY <5>1
            <4>2. CASE t # Len(tenants) + 1
                <5>1. t \in 1 .. Len(tenants)
                    BY <1>0, <3>2, <4>2
                <5>2. PICK d \in Calls : Administered(t, d)
                    BY <3>4, <5>1 DEF AdminInv
                <5>3. pc'[d] = pc[d] /\ found'[d] = found[d]
                    BY <1>0, <3>1, <5>2 DEF Administered
                <5> QED BY <3>3, <5>2, <5>3, StaysAdministered
            <4> QED BY <4>1, <4>2
        <3> QED
            BY <3>4 DEF AdminInv
    <2> QED BY <2>1, <2>2
<1>15. CASE HashFails(c)
    <2>1. /\ pc[c] \in {"hash", "verify", "admin"}
          /\ users' = users /\ tenants' = tenants /\ tally' = tally /\ found' = found
          /\ pc' = [pc EXCEPT ![c] = IF pc[c] = "admin" THEN "orphaned" ELSE "Error"]
        BY <1>15 DEF HashFails, repositories, history, Go
    <2>2. CASE pc[c] # "admin"
        BY <1>0, <1>2, <2>1, <2>2
    <2>3. CASE pc[c] = "admin"
        <3>1. pc'[c] = "orphaned" /\ UsersGrow
            BY <1>0, <2>1, <2>3 DEF UsersGrow
        <3>2. ASSUME NEW t \in 1 .. Len(tenants), t > Len(InitialTenants)
              PROVE  \E d \in Calls : Administered(t, d)'
            <4>1. PICK d \in Calls : Administered(t, d)
                BY <3>2 DEF AdminInv
            <4>2. CASE d = c
                BY <2>1, <3>1, <4>1, <4>2 DEF Administered
            <4>3. CASE d # c
                <5>1. pc'[d] = pc[d] /\ found'[d] = found[d]
                    BY <1>0, <2>1, <4>3
                <5> QED BY <3>1, <4>1, <5>1, StaysAdministered
            <4> QED BY <4>2, <4>3
        <3> QED
            BY <2>1, <3>2 DEF AdminInv
    <2> QED BY <2>2, <2>3
<1> QED
    BY <1>3, <1>4, <1>5, <1>6, <1>7, <1>8, <1>9, <1>10, <1>12, <1>13, <1>14, <1>15
    DEF Call, Proceed

\* A tenant that was provisioned has the administrator of the call that made
\* it, unless the hash of his password is awaited or was rejected: for any number
\* of calls and any requests.
THEOREM AdminUnlessRejectedCorrect == Spec => []AdminUnlessRejected
<1>1. Init => AdminInv
    <2>1. Init => Len(tenants) = Len(InitialTenants) /\ Len(InitialTenants) \in Nat
        BY AuthAssumption DEF Init
    <2> QED BY <2>1 DEF AdminInv
<1>2. AdminInv /\ ServiceInv /\ ServiceInv' /\ [Next]_vars => AdminInv'
    <2> SUFFICES ASSUME AdminInv, ServiceInv, ServiceInv', [Next]_vars PROVE AdminInv'
        OBVIOUS
    <2>1. CASE Next
        BY <2>1, AdminStep DEF Next
    <2>2. CASE UNCHANGED vars
        BY <2>2 DEF vars, repositories, history, AdminInv, Administered
    <2> QED BY <2>1, <2>2
<1>3. AdminInv /\ ServiceInv => AdminUnlessRejected
    <2> SUFFICES ASSUME AdminInv, ServiceInv, NEW t \in DOMAIN tenants, t > Len(InitialTenants)
                 PROVE  \E c \in Calls :
                            /\ found[c] = t
                            /\ pc[c] \in {"admin", "orphaned", "provisioned"}
                            /\ pc[c] = "provisioned" <=>
                                  \E u \in DOMAIN users : users[u].tenant = t /\ tally[u].by = c
        BY DEF AdminUnlessRejected
    <2>1. DOMAIN users = 1 .. Len(users) /\ DOMAIN tenants = 1 .. Len(tenants)
        BY DEF ServiceInv, Typed
    <2>2. PICK c \in Calls : Administered(t, c)
        BY <2>1 DEF AdminInv
    <2>3. ASSUME NEW u \in DOMAIN users, tally[u].by = c
          PROVE  pc[c] \in {"registered", "done", "provisioned"}
        BY <2>1, <2>3 DEF ServiceInv, Stored
    <2>4. /\ found[c] = t
          /\ pc[c] \in {"admin", "orphaned", "provisioned"}
          /\ pc[c] = "provisioned" => \E u \in DOMAIN users : users[u].tenant = t /\ tally[u].by = c
        BY <2>1, <2>2 DEF Administered
    <2>5. pc[c] # "provisioned" => ~\E u \in DOMAIN users : users[u].tenant = t /\ tally[u].by = c
        BY <2>3, <2>4
    <2> QED
        BY <2>4, <2>5
<1> QED
    BY <1>1, <1>2, <1>3, ServiceInvariant, PTL DEF Spec

\* For any number of calls, logins are of the owner of the address, and tenants
\* have the administrator they were provisioned with unless the hash of his
\* password is awaited or was rejected.
THEOREM AccountsAgreeCorrect == Spec => []AccountsAgree
<1>1. LoginOfOwner /\ AdminUnlessRejected => AccountsAgree
    BY DEF AccountsAgree
<1> QED
    BY <1>1, LoginOfOwnerCorrect, AdminUnlessRejectedCorrect, PTL
----------------------------------------------------------------------------
(* The count of failed logins                                              *)

\* Call c has a copy of its user in hand.
Holds(c) == pc[c] \in {"user", "verify"} /\ found[c] # 0

Counted(u) ==
    /\ users[u].failedLoginAttempts <= tally[u].failures
    /\ tally[u].apart => users[u].failedLoginAttempts = tally[u].inRow

\* How old the copy can be
CopyOK(c) ==
    /\ count[c] <= tally[found[c]].failures
    /\ tally[found[c]].apart => count[c] = users[found[c]].failedLoginAttempts

CountInv ==
    /\ \A u \in 1 .. Len(users) : Counted(u)
    /\ \A c \in Calls : Holds(c) => CopyOK(c)
    /\ \A c, d \in Calls :
        Holds(c) /\ Holds(d) /\ found[c] = found[d] /\ tally[found[c]].apart => c = d

\* The user in hand is in the repository.
LEMMA HeldIsStored ==
    ASSUME ServiceInv, NEW c \in Calls, Holds(c)
    PROVE  /\ found[c] \in 1 .. Len(users)
           /\ users[found[c]] \in Account /\ tally[found[c]] \in Tally /\ count[c] \in Nat
<1>1. LoggingIn(c) /\ count[c] \in Nat
    BY DEF ServiceInv, Typed
<1>2. found[c] \in 1 .. Len(users)
    BY <1>1 DEF LoggingIn, IsFirst, Holds
<1>3. users \in Seq(Account) /\ tally \in Seq(Tally) /\ found[c] \in 1 .. Len(tally)
    BY <1>2 DEF ServiceInv, Typed
<1> QED
    BY <1>1, <1>2, <1>3

\* A step that neither looks a user up nor updates one
CountsKept ==
    /\ Len(users) \in Nat /\ Len(users') \in Nat
    /\ \A u \in 1 .. Len(users) :
        users'[u].failedLoginAttempts = users[u].failedLoginAttempts /\ tally'[u] = tally[u]
    /\ \A u \in 1 .. Len(users') : u > Len(users) =>
        /\ users'[u].failedLoginAttempts = 0
        /\ tally'[u].failures = 0 /\ tally'[u].inRow = 0
    /\ \A d \in Calls : Holds(d)' => Holds(d) /\ found'[d] = found[d] /\ count'[d] = count[d]

\* Such a step keeps the counts.
LEMMA CountsKeptKeeps ==
    ASSUME ServiceInv, CountInv, CountsKept
    PROVE  CountInv'
<1>1. ASSUME NEW u \in 1 .. Len(users') PROVE Counted(u)'
    <2>1. CASE u > Len(users)
        BY <1>1, <2>1 DEF CountsKept, Counted
    <2>2. CASE ~(u > Len(users))
        <3>1. u \in 1 .. Len(users)
            BY <1>1, <2>2 DEF CountsKept
        <3> QED BY <3>1 DEF CountsKept, Counted, CountInv
    <2> QED BY <2>1, <2>2
<1>2. ASSUME NEW d \in Calls, Holds(d)'
      PROVE  /\ Holds(d) /\ found'[d] = found[d] /\ count'[d] = count[d]
             /\ users'[found[d]].failedLoginAttempts = users[found[d]].failedLoginAttempts
             /\ tally'[found[d]] = tally[found[d]]
    <2>1. Holds(d) /\ found'[d] = found[d] /\ count'[d] = count[d]
        BY <1>2 DEF CountsKept
    <2>2. found[d] \in 1 .. Len(users)
        BY <2>1, HeldIsStored
    <2> QED
        BY <2>1, <2>2 DEF CountsKept
<1>3. ASSUME NEW d \in Calls, Holds(d)' PROVE CopyOK(d)'
    BY <1>2, <1>3 DEF CountInv, CopyOK
<1>4. ASSUME NEW c \in Calls, NEW d \in Calls, Holds(c)', Holds(d)', found'[c] = found'[d],
             tally'[found'[c]].apart
      PROVE  c = d
    <2>1. Holds(c) /\ Holds(d) /\ found[c] = found[d] /\ tally[found[c]].apart
        BY <1>2, <1>4, Zenon
    <2> QED BY <2>1, Zenon DEF CountInv
<1> QED
    BY <1>1, <1>3, <1>4, Zenon DEF CountInv

\* A login that looks its user up: apart from the others, or not
LEMMA CountLogin ==
    ASSUME ServiceInv, CountInv, NEW c \in Calls, NEW q \in LoginRequests, login(c, q)
    PROVE  CountInv'
<1> DEFINE f == findByEmailAndTenant(q.email, q.tenant)
<1>0. /\ pc \in [Calls -> Labels] /\ found \in [Calls -> Nat] /\ count \in [Calls -> Nat]
      /\ Len(users) \in Nat /\ Len(tally) = Len(users) /\ Typed
    BY DEF ServiceInv, Typed
<1>1. f \in Nat /\ (f # 0 => IsFirst(f, q.email, q.tenant))
    BY <1>0, FindFirst
<1>2. /\ pc[c] = "idle" /\ users' = users
      /\ found' = [found EXCEPT ![c] = f] /\ pc' = [pc EXCEPT ![c] = "user"]
      /\ IF f = 0 THEN count' = count /\ tally' = tally
         ELSE /\ count' = [count EXCEPT ![c] = users[f].failedLoginAttempts]
              /\ tally' = [tally EXCEPT ![f].apart = @ /\ Reading(f) = {}]
    BY DEF login, repositories, Take, Go
<1> HIDE DEF f
<1>3. /\ pc'[c] = "user" /\ found'[c] = f
      /\ \A d \in Calls : d # c => pc'[d] = pc[d] /\ found'[d] = found[d] /\ count'[d] = count[d]
    BY <1>0, <1>2
<1>4. ASSUME NEW d \in Calls, d # c PROVE Holds(d)' <=> Holds(d)
    BY <1>3, <1>4 DEF Holds
<1>5. CASE f = 0
    <2>1. ~Holds(c)'
        BY <1>3, <1>5 DEF Holds
    <2>2. CountsKept
        BY <1>0, <1>2, <1>3, <1>4, <1>5, <2>1 DEF CountsKept
    <2> QED BY <2>2, CountsKeptKeeps
<1>6. CASE f # 0
    <2>1. f \in 1 .. Len(users) /\ users[f] \in Account
        <3>1. f \in 1 .. Len(users) /\ users \in Seq(Account)
            BY <1>0, <1>1, <1>6 DEF IsFirst, Typed
        <3> QED BY <3>1
    <2>2. (Reading(f) = {}) \in BOOLEAN
        BY Zenon
    <2>3. tally' = [tally EXCEPT ![f].apart = @ /\ Reading(f) = {}]
        BY <1>2, <1>6
    <2>4. /\ \A v \in 1 .. Len(tally) : v # f => tally'[v] = tally[v]
          /\ tally'[f].failures = tally[f].failures /\ tally'[f].inRow = tally[f].inRow
          /\ tally'[f].apart <=> tally[f].apart /\ Reading(f) = {}
        BY <1>0, <2>1, <2>2, <2>3, LoginTally, Zenon
    <2>5. ASSUME NEW v \in 1 .. Len(users)
          PROVE  /\ tally'[v].failures = tally[v].failures /\ tally'[v].inRow = tally[v].inRow
                 /\ tally'[v].apart => tally[v].apart
        BY <1>0, <2>4, Zenon
    <2>6. ASSUME NEW v \in 1 .. Len(users') PROVE Counted(v)'
        BY <1>2, <2>5, <2>6 DEF CountInv, Counted
    <2>7. count'[c] = users[f].failedLoginAttempts
        BY <1>0, <1>2, <1>6
    <2>8. ASSUME NEW d \in Calls, Holds(d)' PROVE CopyOK(d)'
        <3>1. CASE d = c
            <4>1. Counted(f)
                BY <2>1 DEF CountInv
            <4> QED BY <1>2, <1>3, <2>4, <2>7, <3>1, <4>1 DEF CopyOK, Counted
        <3>2. CASE d # c
            <4>1. Holds(d) /\ CopyOK(d) /\ found[d] \in 1 .. Len(users)
                BY <1>4, <2>8, <3>2, HeldIsStored DEF CountInv
            <4>2. found'[d] = found[d] /\ count'[d] = count[d]
                BY <1>3, <3>2
            <4> QED BY <1>2, <2>5, <4>1, <4>2 DEF CopyOK
        <3> QED BY <3>1, <3>2
    <2>9. ASSUME NEW d \in Calls, d # c, Holds(d), found[d] = f PROVE ~tally'[f].apart
        <3>1. d \in Reading(f)
            BY <2>9 DEF Holds, Reading
        <3> QED BY <2>4, <3>1
    <2>10. ASSUME NEW d \in Calls, NEW e \in Calls, Holds(d)', Holds(e)', found'[d] = found'[e],
                  tally'[found'[d]].apart
           PROVE  d = e
        <3>1. CASE d # c /\ e # c
            <4>1. Holds(d) /\ Holds(e) /\ found'[d] = found[d] /\ found'[e] = found[e]
                BY <1>3, <1>4, <2>10, <3>1
            <4>2. found[d] \in 1 .. Len(users)
                BY <4>1, HeldIsStored
            <4>3. tally[found[d]].apart /\ found[d] = found[e]
                BY <2>5, <2>10, <4>1, <4>2, Zenon
            <4> QED BY <4>1, <4>3, Zenon DEF CountInv
        <3>2. CASE d = c /\ e # c
            BY <1>3, <1>4, <2>9, <2>10, <3>2, Zenon
        <3>3. CASE d # c /\ e = c
            BY <1>3, <1>4, <2>9, <2>10, <3>3, Zenon
        <3>4. CASE d = c /\ e = c
            BY <3>4
        <3> QED BY <3>1, <3>2, <3>3, <3>4
    <2> QED
        BY <2>6, <2>8, <2>10, Zenon DEF CountInv
<1> QED BY <1>5, <1>6
\* A login that counts a failure or resets the count
LEMMA CountUpdate ==
    ASSUME ServiceInv, CountInv, NEW c \in Calls, UpdateUser(c)
    PROVE  CountInv'
<1> DEFINE u == found[c]
<1> DEFINE ok == users[u].password = dto[c].password
<1>0. /\ pc \in [Calls -> Labels] /\ found \in [Calls -> Nat] /\ Len(users) \in Nat
      /\ Len(tally) = Len(users) /\ users \in Seq(Account) /\ tally \in Seq(Tally) /\ LoggingIn(c)
    BY DEF ServiceInv, Typed
<1>1. /\ pc[c] = "verify" /\ found' = found /\ count' = count
      /\ pc' = [pc EXCEPT ![c] = IF ok THEN "verified" ELSE "Unauthorized"]
    BY DEF UpdateUser, Go
<1>2. /\ u \in 1 .. Len(users) /\ Len(users') = Len(users)
      /\ \A v \in 1 .. Len(users) : v # u => users'[v] = users[v]
      /\ users'[u].failedLoginAttempts = IF ok THEN 0 ELSE count[c] + 1
      /\ \A v \in 1 .. Len(tally) : v # u => tally'[v] = tally[v]
      /\ tally'[u].apart = tally[u].apart
      /\ tally'[u].failures = IF ok THEN tally[u].failures ELSE tally[u].failures + 1
      /\ tally'[u].inRow = IF ok THEN 0 ELSE tally[u].inRow + 1
    BY UpdateEffect, Zenon
<1>3. Holds(c)
    <2>1. found[c] # 0
        BY <1>0, <1>2
    <2> QED BY <1>1, <2>1 DEF Holds
<1>4. /\ ~Holds(c)'
      /\ \A d \in Calls : d # c => (Holds(d)' <=> Holds(d))
    BY <1>0, <1>1 DEF Holds
<1>5. /\ CopyOK(c) /\ Counted(u) /\ count[c] \in Nat
      /\ tally[u] \in Tally /\ users[u] \in Account
    <2>1. CopyOK(c) /\ Counted(u)
        BY <1>2, <1>3 DEF CountInv
    <2> QED BY <1>3, <2>1, HeldIsStored
<1>6. tally[u].failures \in Nat /\ tally[u].inRow \in Nat /\ users[u].failedLoginAttempts \in Nat
    BY <1>5 DEF Tally, Account
<1>7. /\ count[c] <= tally[u].failures
      /\ tally[u].apart => count[c] = tally[u].inRow
    BY <1>5 DEF CopyOK, Counted
<1> HIDE DEF u
<1>8. ASSUME NEW v \in 1 .. Len(users') PROVE Counted(v)'
    <2>1. CASE v = u
        <3>1. users'[u].failedLoginAttempts <= tally'[u].failures
            BY <1>2, <1>5, <1>6, <1>7
        <3>2. tally[u].apart => users'[u].failedLoginAttempts = tally'[u].inRow
            BY <1>2, <1>5, <1>6, <1>7
        <3>3. tally'[u].apart => users'[u].failedLoginAttempts = tally'[u].inRow
            BY <1>2, <3>2, Zenon
        <3> QED BY <2>1, <3>1, <3>3, Zenon DEF Counted
    <2>2. CASE v # u
        <3>1. v \in 1 .. Len(users) /\ users'[v] = users[v] /\ tally'[v] = tally[v]
            BY <1>0, <1>2, <1>8, <2>2
        <3> QED BY <3>1 DEF Counted, CountInv
    <2> QED BY <2>1, <2>2
<1>9. ASSUME NEW d \in Calls, Holds(d)'
      PROVE  d # c /\ Holds(d) /\ found'[d] = found[d] /\ found[d] \in 1 .. Len(users)
    BY <1>1, <1>4, <1>9, HeldIsStored
<1>10. ASSUME NEW d \in Calls, Holds(d)', found[d] = u PROVE ~tally[u].apart
    <2>1. Holds(d) /\ d # c
        BY <1>9, <1>10
    <2> QED BY <1>3, <1>10, <2>1, Zenon DEF CountInv, u
<1>11. ASSUME NEW d \in Calls, Holds(d)' PROVE CopyOK(d)'
    <2>1. CopyOK(d) /\ found'[d] = found[d] /\ count'[d] = count[d] /\ count[d] \in Nat
        BY <1>1, <1>9, <1>11, HeldIsStored DEF CountInv
    <2>2. CASE found[d] = u
        <3>1. ~tally'[u].apart
            BY <1>2, <1>10, <1>11, <2>2, Zenon
        <3>2. count[d] <= tally'[u].failures
            BY <1>2, <1>6, <2>1, <2>2 DEF CopyOK
        <3> QED BY <2>1, <2>2, <3>1, <3>2, Zenon DEF CopyOK
    <2>3. CASE found[d] # u
        <3>1. users'[found[d]] = users[found[d]] /\ tally'[found[d]] = tally[found[d]]
            BY <1>0, <1>2, <1>9, <1>11, <2>3
        <3> QED BY <2>1, <3>1 DEF CopyOK
    <2> QED BY <2>2, <2>3
<1>12. ASSUME NEW d \in Calls, NEW e \in Calls, Holds(d)', Holds(e)', found'[d] = found'[e],
              tally'[found'[d]].apart
       PROVE  d = e
    <2>1. Holds(d) /\ Holds(e) /\ found[d] = found[e] /\ found'[d] = found[d]
        BY <1>9, <1>12
    <2>2. tally[found[d]].apart
        <3>1. CASE found[d] = u
            BY <1>2, <1>12, <2>1, <3>1, Zenon
        <3>2. CASE found[d] # u
            <4>1. tally'[found[d]] = tally[found[d]]
                BY <1>0, <1>2, <1>9, <1>12, <3>2
            <4> QED BY <1>12, <2>1, <4>1, Zenon
        <3> QED BY <3>1, <3>2
    <2> QED BY <2>1, <2>2, Zenon DEF CountInv
<1> QED
    BY <1>8, <1>11, <1>12, Zenon DEF CountInv

\* The count of failed logins: by cases on the action
LEMMA CountStep ==
    ASSUME ServiceInv, CountInv, NEW c \in Calls, Call(c) \/ Proceed(c)
    PROVE  CountInv'
<1>0. /\ pc \in [Calls -> Labels] /\ found \in [Calls -> Nat] /\ Len(users) \in Nat /\ Typed
    BY DEF ServiceInv, Typed
<1>1. ASSUME users' = users, tally' = tally, count' = count, pc'[c] \notin {"user", "verify"},
             \A d \in Calls : d # c => pc'[d] = pc[d] /\ found'[d] = found[d]
      PROVE  CountInv'
    <2>1. \A d \in Calls : Holds(d)' => d # c /\ Holds(d) /\ found'[d] = found[d]
        BY <1>1 DEF Holds
    <2>2. CountsKept
        BY <1>0, <1>1, <2>1 DEF CountsKept
    <2> QED BY <2>2, CountsKeptKeeps
<1>2. ASSUME NEW q \in Registrations, registerUser(c, q) PROVE CountInv'
    BY <1>0, <1>1, <1>2 DEF registerUser, repositories, history, Go, Take
<1>3. ASSUME NEW q \in TenantRequests, provisionTenant(c, q) PROVE CountInv'
    BY <1>0, <1>1, <1>3 DEF provisionTenant, repositories, Go, Take
<1>4. CASE CheckTenant(c)
    BY <1>0, <1>1, <1>4 DEF CheckTenant, repositories, Go, Take
<1>5. CASE CheckEmail(c)
    BY <1>0, <1>1, <1>5 DEF CheckEmail, repositories, history, Go
<1>6. CASE IssueTokens(c)
    BY <1>0, <1>1, <1>6 DEF IssueTokens, history, Go
<1>7. CASE CreateTenant(c)
    BY <1>0, <1>1, <1>7 DEF CreateTenant, Go, Take
<1>8. CASE CheckUser(c)
    <2>1. /\ pc[c] = "user" /\ users' = users /\ tally' = tally /\ count' = count /\ found' = found
          /\ pc' = [pc EXCEPT ![c] = IF found[c] = 0 THEN "Unauthorized" ELSE "verify"]
        BY <1>8 DEF CheckUser, repositories, history, Go
    <2>2. \A d \in Calls : Holds(d)' => Holds(d)
        BY <1>0, <2>1 DEF Holds
    <2>3. CountsKept
        BY <1>0, <2>1, <2>2 DEF CountsKept
    <2> QED BY <2>3, CountsKeptKeeps
<1>9. ASSUME NEW t \in Nat, createUser(c, t), dto[c] \in Registrations \cup TenantRequests,
             count' = count, pc'[c] \notin {"user", "verify"},
             \A d \in Calls : d # c => pc'[d] = pc[d] /\ found'[d] = found[d]
      PROVE  CountInv'
    <2>1. /\ Len(users') = Len(users) + 1
          /\ \A v \in 1 .. Len(users) : users'[v] = users[v]
          /\ users'[Len(users) + 1].failedLoginAttempts = 0
          /\ \A v \in 1 .. Len(users) : tally'[v] = tally[v]
          /\ tally'[Len(users) + 1].failures = 0 /\ tally'[Len(users) + 1].inRow = 0
        BY <1>0, <1>9, CreateEffect, Zenon
    <2>2. \A d \in Calls : Holds(d)' => Holds(d) /\ found'[d] = found[d] /\ count'[d] = count[d]
        BY <1>9 DEF Holds
    <2>3. \A v \in 1 .. Len(users') : v > Len(users) => v = Len(users) + 1
        BY <1>0, <2>1
    <2>4. CountsKept
        BY <1>0, <2>1, <2>2, <2>3 DEF CountsKept
    <2> QED BY <2>4, CountsKeptKeeps
<1>10. CASE CreateUser(c)
    <2>1. /\ pc[c] = "hash" /\ createUser(c, dto[c].tenant) /\ count' = count
          /\ found' = [found EXCEPT ![c] = Len(users) + 1] /\ pc' = [pc EXCEPT ![c] = "registered"]
        BY <1>10 DEF CreateUser, Take, Go
    <2>2. dto[c] \in Registrations \cup TenantRequests /\ dto[c].tenant \in Nat
        <3>1. Len(tenants) \in Nat
            BY <1>0 DEF Typed
        <3> QED BY <2>1, <3>1 DEF ServiceInv, Registering
    <2>3. /\ pc'[c] \notin {"user", "verify"}
          /\ \A d \in Calls : d # c => pc'[d] = pc[d] /\ found'[d] = found[d]
        BY <1>0, <2>1
    <2> QED BY <1>9, <2>1, <2>2, <2>3
<1>11. CASE CreateAdmin(c)
    <2>1. /\ pc[c] = "admin" /\ createUser(c, found[c]) /\ count' = count
          /\ found' = found /\ pc' = [pc EXCEPT ![c] = "provisioned"]
        BY <1>11 DEF CreateAdmin, Go
    <2>2. dto[c] \in Registrations \cup TenantRequests /\ found[c] \in Nat
        BY <1>0, <2>1 DEF ServiceInv, Provisioning
    <2>3. /\ pc'[c] \notin {"user", "verify"}
          /\ \A d \in Calls : d # c => pc'[d] = pc[d] /\ found'[d] = found[d]
        BY <1>0, <2>1
    <2> QED BY <1>9, <2>1, <2>2, <2>3
<1>12. CASE HashFails(c)
    BY <1>0, <1>1, <1>12 DEF HashFails, repositories, history, Go
<1> QED
    BY <1>2, <1>3, <1>4, <1>5, <1>6, <1>7, <1>8, <1>10, <1>11, <1>12, CountLogin, CountUpdate
    DEF Call, Proceed

\* The count of failed logins is never more than there were, and exact for a
\* user whose logins never overlapped: for any number of calls.
THEOREM CountSoundCorrect == Spec => []CountSound
<1>1. Init => CountInv
    <2> SUFFICES ASSUME Init PROVE CountInv
        OBVIOUS
    <2>1. Len(users) = 0 /\ \A c \in Calls : pc[c] = "idle"
        BY DEF Init
    <2>2. \A c \in Calls : ~Holds(c)
        BY <2>1 DEF Holds
    <2> QED BY <2>1, <2>2 DEF CountInv
<1>2. CountInv /\ ServiceInv /\ [Next]_vars => CountInv'
    <2> SUFFICES ASSUME CountInv, ServiceInv, [Next]_vars PROVE CountInv'
        OBVIOUS
    <2>1. CASE Next
        BY <2>1, CountStep DEF Next
    <2>2. CASE UNCHANGED vars
        BY <2>2 DEF vars, repositories, history, CountInv, Holds, Counted, CopyOK
    <2> QED BY <2>1, <2>2
<1>3. CountInv /\ ServiceInv => CountSound
    <2>1. ServiceInv => DOMAIN users = 1 .. Len(users)
        BY DEF ServiceInv, Typed
    <2> QED BY <2>1 DEF CountInv, Counted, CountSound
<1> QED
    BY <1>1, <1>2, <1>3, ServiceInvariant, PTL DEF Spec
----------------------------------------------------------------------------
(* Roles and rules                                                         *)

RolesTyped == roles \in [RoleIds -> Seq(RoleIds) \cup {Unknown}]

\* S has what was visited and what is to be visited, and the parents of all
\* its roles that were not visited.
ClosedFrom(walk, S) ==
    /\ walk.visited \cup ToSet(walk.calls) \subseteq S
    /\ \A r \in S \ walk.visited : ToSet(Parents(r)) \subseteq S

\* What every such set has
LeastFrom(walk) ==
    {r \in RoleIds : \A S \in SUBSET RoleIds : ClosedFrom(walk, S) => r \in S}

\* The elements of sequences of roles.
LEMMA CallsFacts ==
    /\ \A s \in Seq(RoleIds) : ToSet(s) \subseteq RoleIds
    /\ ToSet(<<>>) = {}
    /\ \A s \in Seq(RoleIds) : s # <<>> =>
        /\ Head(s) \in RoleIds /\ Tail(s) \in Seq(RoleIds)
        /\ Len(s) \in Nat \ {0} /\ Len(Tail(s)) = Len(s) - 1
        /\ ToSet(s) = {Head(s)} \cup ToSet(Tail(s))
    /\ \A s, t \in Seq(RoleIds) : s \o t \in Seq(RoleIds) /\ ToSet(s \o t) = ToSet(s) \cup ToSet(t)
<1>1. \A s \in Seq(RoleIds) : Len(s) \in Nat /\ DOMAIN s = 1 .. Len(s)
                              /\ \A i \in 1 .. Len(s) : s[i] \in RoleIds
    BY LenProperties, ElementOfSeq
<1>2. \A s \in Seq(RoleIds) : ToSet(s) = {s[i] : i \in 1 .. Len(s)}
    BY <1>1 DEF ToSet
<1>3. ASSUME NEW s \in Seq(RoleIds) PROVE ToSet(s) \subseteq RoleIds
    BY <1>1, <1>2
<1>4. ToSet(<<>>) = {}
    BY DEF ToSet
<1>5. ASSUME NEW s \in Seq(RoleIds), s # <<>>
      PROVE  /\ Head(s) \in RoleIds /\ Tail(s) \in Seq(RoleIds)
             /\ Len(s) \in Nat \ {0} /\ Len(Tail(s)) = Len(s) - 1
             /\ ToSet(s) = {Head(s)} \cup ToSet(Tail(s))
    <2>1. /\ Head(s) \in RoleIds /\ Tail(s) \in Seq(RoleIds)
          /\ Len(Tail(s)) = Len(s) - 1
          /\ \A i \in 1 .. Len(Tail(s)) : Tail(s)[i] = s[i + 1]
        BY <1>5, HeadTailProperties
    <2>2. Len(s) \in Nat \ {0} /\ Head(s) = s[1]
        BY <1>5, EmptySeq
    <2>3. ASSUME NEW i \in 1 .. Len(s) PROVE s[i] \in {Head(s)} \cup ToSet(Tail(s))
        <3>1. CASE i = 1
            BY <3>1, <2>2
        <3>2. CASE i # 1
            <4>1. i - 1 \in 1 .. Len(Tail(s)) /\ Tail(s)[i - 1] = s[i]
                BY <3>2, <2>1, <2>2
            <4> QED
                BY <4>1, <2>1, <1>2
        <3> QED
            BY <3>1, <3>2
    <2>4. ASSUME NEW i \in 1 .. Len(Tail(s)) PROVE Tail(s)[i] \in ToSet(s)
        <3>1. i + 1 \in 1 .. Len(s) /\ Tail(s)[i] = s[i + 1]
            BY <2>1, <2>2
        <3> QED
            BY <3>1, <1>2
    <2>5. Head(s) \in ToSet(s)
        BY <2>2, <1>2
    <2>6. ToSet(s) \subseteq {Head(s)} \cup ToSet(Tail(s))
        BY <2>3, <1>2
    <2>7. ToSet(Tail(s)) \subseteq ToSet(s)
        <3> SUFFICES ASSUME NEW x \in ToSet(Tail(s)) PROVE x \in ToSet(s)
            OBVIOUS
        <3>1. PICK i \in 1 .. Len(Tail(s)) : x = Tail(s)[i]
            BY <2>1, <1>2
        <3> QED
            BY <3>1, <2>4
    <2> QED
        BY <2>1, <2>2, <2>5, <2>6, <2>7
<1>6. ASSUME NEW s \in Seq(RoleIds), NEW t \in Seq(RoleIds)
      PROVE  s \o t \in Seq(RoleIds) /\ ToSet(s \o t) = ToSet(s) \cup ToSet(t)
    <2> DEFINE u == s \o t
    <2>1. /\ u \in Seq(RoleIds) /\ Len(u) = Len(s) + Len(t)
          /\ \A i \in 1 .. Len(s) + Len(t) :
                u[i] = IF i <= Len(s) THEN s[i] ELSE t[i - Len(s)]
        BY ConcatProperties
    <2>2. Len(s) \in Nat /\ Len(t) \in Nat
        BY <1>1
    <2> HIDE DEF u
    <2>3. ASSUME NEW i \in 1 .. Len(u) PROVE u[i] \in ToSet(s) \cup ToSet(t)
        <3>1. CASE i <= Len(s)
            <4>1. i \in 1 .. Len(s) /\ u[i] = s[i]
                BY <3>1, <2>1, <2>2
            <4> QED
                BY <4>1, <1>2
        <3>2. CASE ~(i <= Len(s))
            <4>1. i - Len(s) \in 1 .. Len(t) /\ u[i] = t[i - Len(s)]
                BY <3>2, <2>1, <2>2
            <4> QED
                BY <4>1, <1>2
        <3> QED
            BY <3>1, <3>2
    <2>4. ASSUME NEW i \in 1 .. Len(s) PROVE s[i] \in ToSet(u)
        <3>1. i \in 1 .. Len(u) /\ u[i] = s[i]
            BY <2>1, <2>2
        <3> QED
            BY <3>1, <2>1, <1>2
    <2>5. ASSUME NEW i \in 1 .. Len(t) PROVE t[i] \in ToSet(u)
        <3>1. /\ i + Len(s) \in 1 .. Len(s) + Len(t)
              /\ ~(i + Len(s) <= Len(s)) /\ (i + Len(s)) - Len(s) = i
            BY <2>2
        <3>2. i + Len(s) \in 1 .. Len(u) /\ u[i + Len(s)] = t[i]
            BY <3>1, <2>1
        <3> QED
            BY <3>2, <2>1, <1>2
    <2>6. ToSet(u) \subseteq ToSet(s) \cup ToSet(t)
        BY <2>1, <2>3, <1>2
    <2>7. ToSet(s) \subseteq ToSet(u) /\ ToSet(t) \subseteq ToSet(u)
        BY <2>4, <2>5, <1>2
    <2> QED
        BY <2>1, <2>6, <2>7 DEF u
<1> QED
    BY <1>3, <1>4, <1>5, <1>6

LEMMA ParentsFacts ==
    ASSUME RolesTyped, NEW r \in RoleIds
    PROVE  /\ Parents(r) \in Seq(RoleIds)
           /\ roles[r] = Unknown => ToSet(Parents(r)) = {}
           /\ roles[r] # Unknown => Parents(r) = roles[r]
<1>1. <<>> \in Seq(RoleIds)
    BY EmptySeq
<1> QED
    BY <1>1, CallsFacts DEF Parents, RolesTyped

\* A call of traverseRole changes the walk and not where it leads, and either
\* visits a role for the first time or leaves one call less.
LEMMA WalkStep ==
    ASSUME RolesTyped, NEW walk \in Walks, walk.calls # <<>>
    PROVE  LET next == traverseRole(walk)
           IN  /\ next \in Walks
               /\ LeastFrom(next) = LeastFrom(walk)
               /\ \/ /\ next.visited = walk.visited
                     /\ Len(next.calls) = Len(walk.calls) - 1
                  \/ \E r \in RoleIds \ walk.visited : next.visited = walk.visited \cup {r}
<1> DEFINE next == traverseRole(walk)
           r == Head(walk.calls)
           V == walk.visited
           rest == Tail(walk.calls)
<1>1. V \in SUBSET RoleIds /\ walk.calls \in Seq(RoleIds)
    BY DEF Walks
<1>2. /\ r \in RoleIds /\ rest \in Seq(RoleIds) /\ Len(rest) = Len(walk.calls) - 1
      /\ ToSet(walk.calls) = {r} \cup ToSet(rest)
    BY <1>1, CallsFacts
<1>3. CASE r \in V
    <2>1. next.visited = V /\ next.calls = rest /\ next \in Walks
        BY <1>1, <1>2, <1>3 DEF traverseRole, Walks
    <2> HIDE DEF next
    <2>2. ASSUME NEW S PROVE ClosedFrom(next, S) <=> ClosedFrom(walk, S)
        BY <2>1, <1>2, <1>3 DEF ClosedFrom
    <2>3. LeastFrom(next) = LeastFrom(walk)
        BY <2>2 DEF LeastFrom
    <2> QED
        BY <2>1, <2>3, <1>2 DEF next
<1>4. CASE r \notin V
    <2> DEFINE p == Parents(r)
    <2>1. p \in Seq(RoleIds)
        BY <1>2, ParentsFacts
    <2>2. p \o rest \in Seq(RoleIds) /\ ToSet(p \o rest) = ToSet(p) \cup ToSet(rest)
        BY <2>1, <1>2, CallsFacts
    <2>3. next = [visited |-> V \cup {r}, calls |-> p \o rest]
        BY <1>4 DEF traverseRole
    <2> HIDE DEF next, p, V, rest, r
    <2>4. next.visited = V \cup {r} /\ next.calls = p \o rest
        BY <2>3
    <2>5. next \in Walks
        BY <2>2, <2>3, <1>1, <1>2 DEF Walks
    <2> USE DEF p, V, rest, r
    <2>6. ASSUME NEW S PROVE ClosedFrom(next, S) <=> ClosedFrom(walk, S)
        BY <2>2, <2>4, <1>2, <1>4 DEF ClosedFrom
    <2>7. LeastFrom(next) = LeastFrom(walk)
        BY <2>6 DEF LeastFrom
    <2> QED
        BY <2>4, <2>5, <2>7, <1>2, <1>4 DEF next
<1> QED
    BY <1>3, <1>4

\* A walk with no call left has visited all it leads to.
LEMMA WalkEnds ==
    ASSUME NEW walk \in Walks, walk.calls = <<>>
    PROVE  LeastFrom(walk) = walk.visited
<1>1. walk.visited \in SUBSET RoleIds /\ ToSet(walk.calls) = {}
    BY CallsFacts DEF Walks
<1>2. ClosedFrom(walk, walk.visited)
    BY <1>1 DEF ClosedFrom
<1>3. \A S : ClosedFrom(walk, S) => walk.visited \subseteq S
    BY DEF ClosedFrom
<1> QED
    BY <1>1, <1>2, <1>3 DEF LeastFrom

\* v is what the recursion defines.
Visits(v) ==
    v = [walk \in Walks |-> IF walk.calls = <<>> THEN walk.visited ELSE v[traverseRole(walk)]]

LEMMA VisitsExists == RolesTyped => \E v : Visits(v)
<1> SUFFICES ASSUME RolesTyped PROVE \E v : Visits(v)
    OBVIOUS
<1> DEFINE v == [walk \in Walks |-> LeastFrom(walk)]
<1>1. ASSUME NEW walk \in Walks
      PROVE  LeastFrom(walk) =
                IF walk.calls = <<>> THEN walk.visited ELSE v[traverseRole(walk)]
    BY WalkStep, WalkEnds
<1>2. v = [walk \in Walks |-> IF walk.calls = <<>> THEN walk.visited ELSE v[traverseRole(walk)]]
    BY <1>1
<1> HIDE DEF v
<1> QED
    BY <1>2 DEF Visits

\* The recursion ends, because a call visits a new role or is one call less:
\* it can only be what the walk leads to.
LEMMA VisitsLeast ==
    ASSUME RolesTyped, NEW v, Visits(v), NEW walk \in Walks
    PROVE  v[walk] = LeastFrom(walk)
<1> DEFINE Left(w) == Cardinality(RoleIds \ w.visited)
           P == {n \in Nat : \A w \in Walks : Left(w) <= n => v[w] = LeastFrom(w)}
<1>1. ASSUME NEW w \in Walks
      PROVE  /\ w.visited \in SUBSET RoleIds /\ Left(w) \in Nat
             /\ w.calls \in Seq(RoleIds) /\ Len(w.calls) \in Nat
    <2>1. IsFiniteSet(RoleIds \ w.visited)
        BY RolesAssumption, FS_Subset
    <2> QED
        BY <2>1, FS_CardinalityType, LenProperties DEF Walks
<1>2. ASSUME NEW w \in Walks, NEW w2 \in Walks, NEW r \in RoleIds \ w.visited,
             w2.visited = w.visited \cup {r}
      PROVE  Left(w2) = Left(w) - 1
    <2>1. RoleIds \ w2.visited = (RoleIds \ w.visited) \ {r}
        BY <1>2
    <2>2. IsFiniteSet(RoleIds \ w.visited)
        BY RolesAssumption, FS_Subset
    <2> QED
        BY <2>1, <2>2, FS_RemoveElement
<1>3. ASSUME NEW w \in Walks
      PROVE  /\ w.calls = <<>> => v[w] = LeastFrom(w)
             /\ w.calls # <<>> =>
                    /\ traverseRole(w) \in Walks
                    /\ v[w] = v[traverseRole(w)] /\ LeastFrom(w) = LeastFrom(traverseRole(w))
    <2>1. v[w] = IF w.calls = <<>> THEN w.visited ELSE v[traverseRole(w)]
        BY DEF Visits
    <2> QED
        BY <2>1, WalkStep, WalkEnds
<1>4. ASSUME NEW n \in Nat, \A w \in Walks : Left(w) < n => v[w] = LeastFrom(w)
      PROVE  \A w \in Walks : Left(w) <= n => v[w] = LeastFrom(w)
    <2> DEFINE Q == {k \in Nat : \A w \in Walks :
                        Left(w) <= n /\ Len(w.calls) <= k => v[w] = LeastFrom(w)}
    <2>1. ASSUME NEW k \in Nat,
                 \A w \in Walks : Left(w) <= n /\ Len(w.calls) < k => v[w] = LeastFrom(w),
                 NEW w \in Walks, Left(w) <= n, Len(w.calls) <= k
          PROVE  v[w] = LeastFrom(w)
        <3>1. CASE w.calls = <<>>
            BY <3>1, <1>3
        <3>2. CASE w.calls # <<>>
            <4> DEFINE w2 == traverseRole(w)
            <4>1. /\ w2 \in Walks /\ v[w] = v[w2] /\ LeastFrom(w) = LeastFrom(w2)
                BY <3>2, <1>3
            <4>2. \/ w2.visited = w.visited /\ Len(w2.calls) = Len(w.calls) - 1
                  \/ \E r \in RoleIds \ w.visited : w2.visited = w.visited \cup {r}
                BY <3>2, WalkStep
            <4> HIDE DEF w2
            <4>3. CASE w2.visited = w.visited /\ Len(w2.calls) = Len(w.calls) - 1
                <5>1. Left(w2) <= n /\ Len(w2.calls) < k
                    BY <4>3, <2>1, <1>1
                <5> QED
                    BY <5>1, <4>1, <2>1
            <4>4. CASE \E r \in RoleIds \ w.visited : w2.visited = w.visited \cup {r}
                <5>1. Left(w2) = Left(w) - 1
                    BY <4>1, <4>4, <1>2
                <5>2. Left(w2) < n
                    BY <5>1, <4>1, <2>1, <1>1
                <5> QED
                    BY <5>2, <4>1, <1>4
            <4> QED
                BY <4>2, <4>3, <4>4
        <3> QED
            BY <3>1, <3>2
    <2>2. 0 \in Q
        <3>1. \A w \in Walks : ~(Len(w.calls) < 0)
            BY <1>1
        <3> QED
            BY <3>1, <2>1
    <2>3. ASSUME NEW k \in Nat, k \in Q PROVE k + 1 \in Q
        <3>1. \A w \in Walks : Len(w.calls) < k + 1 => Len(w.calls) <= k
            BY <1>1
        <3>2. \A w \in Walks : Left(w) <= n /\ Len(w.calls) < k + 1 => v[w] = LeastFrom(w)
            BY <3>1, <2>3
        <3>3. k + 1 \in Nat
            OBVIOUS
        <3> QED
            BY <3>2, <3>3, <2>1
    <2>4. \A k \in Nat : k \in Q
        <3> HIDE DEF Q
        <3> QED
            BY <2>2, <2>3, SetInduction
    <2> QED
        <3> SUFFICES ASSUME NEW w \in Walks, Left(w) <= n PROVE v[w] = LeastFrom(w)
            OBVIOUS
        <3>1. Len(w.calls) \in Q /\ Len(w.calls) <= Len(w.calls)
            BY <2>4, <1>1
        <3> QED
            BY <3>1
<1>5. 0 \in P
    <2>1. \A w \in Walks : ~(Left(w) < 0)
        BY <1>1
    <2> QED
        BY <2>1, <1>4
<1>6. ASSUME NEW n \in Nat, n \in P PROVE n + 1 \in P
    <2>1. \A w \in Walks : Left(w) < n + 1 => Left(w) <= n
        BY <1>1
    <2>2. \A w \in Walks : Left(w) < n + 1 => v[w] = LeastFrom(w)
        BY <2>1, <1>6
    <2>3. n + 1 \in Nat
        OBVIOUS
    <2> QED
        BY <2>2, <2>3, <1>4
<1>7. \A n \in Nat : n \in P
    <2> HIDE DEF P
    <2> QED
        BY <1>5, <1>6, SetInduction
<1>8. Left(walk) \in P /\ Left(walk) <= Left(walk)
    BY <1>7, <1>1
<1> QED
    BY <1>8

\* The walk visits what it leads to.
LEMMA VisitedFacts ==
    ASSUME RolesTyped, NEW walk \in Walks
    PROVE  visitedRoles[walk] = LeastFrom(walk)
<1>1. visitedRoles = CHOOSE v : Visits(v)
    BY Zenon DEF visitedRoles, Visits
<1>2. Visits(visitedRoles)
    BY <1>1, VisitsExists, Zenon
<1> QED
    BY <1>2, VisitsLeast

\* With the walk from a list of roles, what the walk leads to is what
\* inheritance leads to.
LEMMA EffectiveIs ==
    ASSUME RolesTyped, NEW few \in Seq(RoleIds)
    PROVE  getEffectivePermissions(few) =
                {r \in RoleIds :
                    /\ roles[r] # Unknown
                    /\ \A S \in SUBSET RoleIds : ToSet(few) \subseteq S /\ Inherited(S) => r \in S}
<1> DEFINE walk == [visited |-> {}, calls |-> few]
<1>1. walk \in Walks /\ walk.visited = {} /\ walk.calls = few
    BY DEF Walks
<1> HIDE DEF walk
<1>2. visitedRoles[walk] = LeastFrom(walk)
    BY <1>1, VisitedFacts
<1>3. ASSUME NEW S \in SUBSET RoleIds
      PROVE  ClosedFrom(walk, S) <=> ToSet(few) \subseteq S /\ Inherited(S)
    <2>1. \A r \in S : roles[r] = Unknown => ToSet(Parents(r)) \subseteq S
        BY ParentsFacts
    <2>2. \A r \in S : roles[r] # Unknown => Parents(r) = roles[r]
        BY ParentsFacts
    <2>3. Inherited(S) <=> \A r \in S : ToSet(Parents(r)) \subseteq S
        BY <2>1, <2>2, Zenon DEF Inherited
    <2>4. ClosedFrom(walk, S) <=> ToSet(few) \subseteq S /\ \A r \in S : ToSet(Parents(r)) \subseteq S
        BY <1>1 DEF ClosedFrom
    <2> QED
        BY <2>3, <2>4
<1>4. LeastFrom(walk) =
        {r \in RoleIds : \A S \in SUBSET RoleIds : ToSet(few) \subseteq S /\ Inherited(S) => r \in S}
    BY <1>3, Zenon DEF LeastFrom
<1>5. getEffectivePermissions(few) = {r \in LeastFrom(walk) : roles[r] # Unknown}
    BY <1>2, Zenon DEF getEffectivePermissions, walk
<1> QED
    BY <1>4, <1>5, Zenon

\* Who has more roles leads to more.
LEMMA EffectiveGrows ==
    ASSUME RolesTyped, NEW few \in Seq(RoleIds), NEW many \in Seq(RoleIds),
           ToSet(few) \subseteq ToSet(many)
    PROVE  getEffectivePermissions(few) \subseteq getEffectivePermissions(many)
<1> SUFFICES ASSUME NEW r \in getEffectivePermissions(few)
             PROVE  r \in getEffectivePermissions(many)
    OBVIOUS
<1>1. /\ r \in RoleIds /\ roles[r] # Unknown
      /\ \A S \in SUBSET RoleIds : ToSet(few) \subseteq S /\ Inherited(S) => r \in S
    BY EffectiveIs
<1>2. \A S \in SUBSET RoleIds : ToSet(many) \subseteq S /\ Inherited(S) => r \in S
    BY <1>1, Zenon
<1> QED
    BY <1>1, <1>2, EffectiveIs

\* The roles and the last context are of their types whatever is registered,
\* and a registered list is never the mark of a role that is not there.
RolesInv ==
    /\ RolesTyped
    /\ ctx \in Contexts

LEMMA RolesStart == RolesInit => RolesInv
<1> SUFFICES ASSUME RolesInit PROVE RolesInv
    OBVIOUS
<1>1. <<>> \in Seq(RoleIds) /\ <<"DISPATCHER", "INVENTORY_MANAGER">> \in Seq(RoleIds)
    BY RolesAssumption
<1>2. ASSUME NEW r \in RoleIds
      PROVE  (CASE r \in {"SUPER_ADMIN", "DISPATCHER", "INVENTORY_MANAGER"} -> <<>>
                [] r = "OPERATIONS_MANAGER" -> <<"DISPATCHER", "INVENTORY_MANAGER">>
                [] OTHER -> Unknown) \in Seq(RoleIds) \cup {Unknown}
    BY <1>1
<1> QED
    BY <1>2 DEF RolesInit, RolesInv, RolesTyped

LEMMA RolesStep == RolesInv /\ [RolesNext]_roleVars => RolesInv'
<1> SUFFICES ASSUME RolesInv, [RolesNext]_roleVars PROVE RolesInv'
    OBVIOUS
<1>1. ASSUME NEW role \in RoleDefinitions, registerRole(role) PROVE RolesInv'
    <2>1. role.roleId \in RoleIds /\ role.inheritsFrom \in Seq(RoleIds)
        BY RolesAssumption
    <2> QED
        BY <1>1, <2>1 DEF registerRole, RolesInv, RolesTyped, Contexts
<1>2. ASSUME NEW c \in Contexts, evaluateAccess(c) PROVE RolesInv'
    BY <1>2 DEF evaluateAccess, RolesInv, RolesTyped, Contexts
<1>3. CASE UNCHANGED roleVars
    BY <1>3 DEF roleVars, RolesInv, RolesTyped, Contexts
<1> QED
    BY <1>1, <1>2, <1>3 DEF RolesNext

LEMMA GrantsGrow == RolesInv => GrantsAddUp
<1> SUFFICES ASSUME RolesInv, NEW few \in RoleLists,
                    ToSet(few) \subseteq ToSet(ctx.userRoles), Grants([ctx EXCEPT !.userRoles = few])
             PROVE  Grants(ctx)
    BY DEF GrantsAddUp
<1> DEFINE c == [ctx EXCEPT !.userRoles = few]
<1>1. /\ c.userRoles = few /\ c.sameTenant = ctx.sameTenant
      /\ c.required = ctx.required /\ c.isOwner = ctx.isOwner
    BY DEF RolesInv, Contexts
<1>2. few \in Seq(RoleIds) /\ ctx.userRoles \in Seq(RoleIds)
    BY RolesAssumption DEF RolesInv, Contexts
<1> HIDE DEF c
<1>3. getEffectivePermissions(few) \subseteq getEffectivePermissions(ctx.userRoles)
    BY <1>2, EffectiveGrows DEF RolesInv
<1>4. /\ PassesTenantGuard(few, ctx.sameTenant)
      /\ \/ "SUPER_ADMIN" \in getEffectivePermissions(few)
         \/ ctx.required \in getEffectivePermissions(few)
         \/ ctx.isOwner
    <2>1. Grants(c)
        BY Zenon DEF c
    <2> QED
        BY <2>1, <1>1, Zenon DEF Grants
<1>5. PassesTenantGuard(ctx.userRoles, ctx.sameTenant)
    BY <1>4 DEF PassesTenantGuard
<1> QED
    BY <1>3, <1>4, <1>5 DEF Grants

\* Which rules there are decides it, whatever the request.
LEMMA FirstRuleDenies == DenyFirst
<1> DEFINE super == "SUPER_ADMIN" \in request.roles
           admin == "TENANT_ADMIN" \in request.roles /\ request.sameTenant
           driver == /\ "DRIVER" \in request.roles /\ request.assigned
                     /\ request.action \in {"read", "update_telemetry", "submit_pod"}
           foreign == ~super /\ ~request.sameTenant
<1>1. /\ DOMAIN rules = 1 .. 4
      /\ rules[1] = [id |-> "SUPER_ADMIN_ALL_ACCESS", effect |-> "ALLOW"]
      /\ rules[2] = [id |-> "TENANT_ISOLATION_GUARD", effect |-> "DENY"]
      /\ rules[3] = [id |-> "TENANT_ADMIN_TENANT_ACCESS", effect |-> "ALLOW"]
      /\ rules[4] = [id |-> "DRIVER_ASSIGNED_SHIPMENT_ACCESS", effect |-> "ALLOW"]
    BY DEF rules, Rule
<1>2. /\ rules[1].effect = "ALLOW" /\ rules[2].effect = "DENY"
      /\ rules[3].effect = "ALLOW" /\ rules[4].effect = "ALLOW"
    BY <1>1
<1>3. /\ Applies(rules[1], request) <=> super
      /\ Applies(rules[2], request) <=> foreign
      /\ Applies(rules[3], request) <=> admin
      /\ Applies(rules[4], request) <=> driver
    BY <1>1 DEF Applies
<1> HIDE DEF super, admin, driver, foreign
<1>4. isAllowed(request) <=>
        \/ super
        \/ admin /\ ~super /\ ~foreign
        \/ driver /\ ~super /\ ~foreign /\ ~admin
    BY <1>1, <1>2, <1>3 DEF isAllowed
<1> DEFINE effects == {rules[i].effect : i \in {k \in DOMAIN rules : Applies(rules[k], request)}}
<1>5. "ALLOW" \in effects <=> super \/ admin \/ driver
    BY <1>1, <1>2, <1>3
<1>6. "DENY" \in effects <=> foreign
    BY <1>1, <1>2, <1>3
<1>7. super => ~foreign
    BY DEF foreign
<1> QED
    BY <1>4, <1>5, <1>6, <1>7 DEF DenyFirst

\* However roles are registered and replaced, in circles too, a user has the
\* permissions of exactly the roles inheritance leads to and more roles never
\* take one away; and the four rules decide as if denials came first
\* (getEffectivePermissions, evaluateAccess, PolicyEngine.evaluate).
THEOREM AccessAgreesCorrect == AuthSpec => []AccessAgrees
<1>1. AuthInit => RolesInv
    BY RolesStart DEF AuthInit
<1>2. RolesInv /\ [AuthNext]_authVars => RolesInv'
    <2>1. [AuthNext]_authVars => [RolesNext]_roleVars
        BY DEF AuthNext, authVars
    <2> QED
        BY <2>1, RolesStep
<1>3. RolesInv => AccessAgrees
    <2>1. RolesInv => EffectiveAgrees
        BY EffectiveIs, RolesAssumption, Zenon DEF EffectiveAgrees, RolesInv, Contexts
    <2> QED
        BY <2>1, GrantsGrow, FirstRuleDenies DEF AccessAgrees
<1> QED
    BY <1>1, <1>2, <1>3, PTL DEF AuthSpec
=============================================================================
