--------------------------- MODULE RevocationList ---------------------------
(***************************************************************************)
(* SessionTokenRevocationList (auth-service/src/security).  Entries are    *)
(* removed in two ways, when they are looked up and by purgeExpired; who   *)
(* revoked a token and why is only kept.  An entry is the set of its       *)
(* expiresAt, empty while there is none.                                   *)
(***************************************************************************)
EXTENDS Naturals

CONSTANTS
    Jtis,               \* token identifiers
    TtlSeconds,
    MaxListTime         \* bound: the clock

ASSUME ListAssumption == TtlSeconds \subseteq Nat

VARIABLES
    blacklist,          \* blacklist[jti]
    listTime,           \* the clock read by new Date()
    lastEnd             \* history: when the last revocation of jti ends, as a set

listVars == <<blacklist, listTime, lastEnd>>

ListInit ==
    /\ blacklist = [jti \in Jtis |-> {}]
    /\ listTime = 0
    /\ lastEnd = [jti \in Jtis |-> {}]

\* A later revocation replaces the entry, also by one that ends earlier.
revokeToken(jti, ttl) ==
    /\ blacklist' = [blacklist EXCEPT ![jti] = {listTime + ttl}]
    /\ lastEnd' = [lastEnd EXCEPT ![jti] = {listTime + ttl}]
    /\ UNCHANGED listTime

\* The answer of isRevoked
Revoked(jti) == \E expiresAt \in blacklist[jti] : ~(expiresAt < listTime)

\* isRevoked also removes an entry that is over.
isRevoked(jti) ==
    /\ blacklist' = [blacklist EXCEPT ![jti] = IF Revoked(jti) THEN @ ELSE {}]
    /\ UNCHANGED <<listTime, lastEnd>>

\* Variant with one plausible mistake: an entry is purged in its last moment.
KeptBefore(expiresAt) == expiresAt > listTime

Kept(expiresAt) == ~(expiresAt < listTime)

purgeExpired ==
    /\ blacklist' = [jti \in Jtis |-> {e \in blacklist[jti] : Kept(e)}]
    /\ UNCHANGED <<listTime, lastEnd>>

ListTick ==
    /\ listTime < MaxListTime
    /\ listTime' = listTime + 1
    /\ UNCHANGED <<blacklist, lastEnd>>

ListNext ==
    \/ ListTick
    \/ purgeExpired
    \/ \E jti \in Jtis : isRevoked(jti) \/ \E ttl \in TtlSeconds : revokeToken(jti, ttl)

ListSpec == ListInit /\ [][ListNext]_listVars

----------------------------------------------------------------------------
\* Look-ups and purges do not show: at every moment a token counts as revoked
\* if and only if its last revocation is not over.
RevocationAgrees ==
    \A jti \in Jtis : Revoked(jti) <=> \E e \in lastEnd[jti] : e >= listTime
=============================================================================
