------------------------- MODULE AuthorizationCodes -------------------------
(***************************************************************************)
(* OAuth2AuthorizationServer (auth-service/src/security): clients, and the *)
(* authorization codes that are issued to them and exchanged for tokens.   *)
(* A code is random and never repeated: it stands as the number of its     *)
(* issue.  Users, scopes and the contents of the tokens decide nothing.    *)
(* Of a code verifier it matters whether it is given and whether it is the *)
(* one the challenge of the code was made from; the code asks only whether *)
(* it is given, the second is what PKCE is about.                          *)
(***************************************************************************)
EXTENDS Naturals, Sequences

CONSTANTS
    ClientIds,
    Redirects,          \* redirect URIs
    CodeLifetime,       \* the ten minutes of a code, in ticks
    MaxCodes,           \* bound: codes issued
    MaxCodeTime         \* bound: the clock

ASSUME CodesAssumption == CodeLifetime \in Nat

VARIABLES
    clients,            \* clients[c]: its redirect URIs, {} while not registered
    authCodes,          \* authCodes[n]: code n, or Deleted
    codeTime,           \* the clock read by new Date()
    issued,             \* history: issued[n], code n as it was issued
    grants,             \* history: grants[n], the verifiers that tokens were
                        \* given for with code n, in turn
    presented           \* history: the codes that were presented in time, by
                        \* their client and with what is asked of it

codeVars == <<clients, authCodes, codeTime, issued, grants, presented>>

CodesInit ==
    /\ clients = [c \in ClientIds |-> {}]
    /\ authCodes = <<>>
    /\ codeTime = 0
    /\ issued = <<>>
    /\ grants = <<>>
    /\ presented = {}

Deleted == [clientId |-> "deleted"]

\* What a client gives as codeVerifier: nothing, the one that belongs to the
\* challenge of the code, or another one.
Verifiers == {"none", "matching", "other"}

\* A client without redirect URIs is refused; another one replaces its entry.
registerClient(c, uris) ==
    /\ uris # {}
    /\ clients' = [clients EXCEPT ![c] = uris]
    /\ UNCHANGED <<authCodes, codeTime, issued, grants, presented>>

issueAuthorizationCode(c, uri, challenged) ==
    /\ Len(authCodes) < MaxCodes
    /\ uri \in clients[c]
    /\ LET code == [clientId |-> c, redirectUri |-> uri, codeChallenge |-> challenged,
                    expiresAt |-> codeTime + CodeLifetime, isUsed |-> FALSE]
       IN  /\ authCodes' = Append(authCodes, code)
           /\ issued' = Append(issued, code)
    /\ grants' = Append(grants, <<>>)
    /\ UNCHANGED <<clients, codeTime, presented>>

Matches(code, c, uri, verifier) ==
    /\ code.clientId = c
    /\ code.redirectUri = uri
    /\ code.codeChallenge => verifier # "none"

Spent(code) == code.isUsed \/ code.expiresAt < codeTime

\* Variant with one plausible mistake: any refusal deletes the code.
RefuseAndDelete(n) == authCodes' = [authCodes EXCEPT ![n] = Deleted]

\* A code that is spent is deleted; one that does not match stays as it is.
Refuse(n) ==
    authCodes' = IF Spent(authCodes[n]) THEN [authCodes EXCEPT ![n] = Deleted] ELSE authCodes

exchangeCodeForTokens(n, c, uri, verifier) ==
    /\ \/ /\ authCodes[n] = Deleted
          /\ UNCHANGED <<authCodes, grants>>
       \/ /\ authCodes[n] # Deleted
          /\ Spent(authCodes[n]) \/ ~Matches(authCodes[n], c, uri, verifier)
          /\ Refuse(n)
          /\ UNCHANGED grants
       \/ /\ authCodes[n] # Deleted
          /\ ~Spent(authCodes[n]) /\ Matches(authCodes[n], c, uri, verifier)
          /\ authCodes' = [authCodes EXCEPT ![n].isUsed = TRUE]
          /\ grants' = [grants EXCEPT ![n] = Append(@, verifier)]
    /\ presented' = IF Matches(issued[n], c, uri, verifier) /\ issued[n].expiresAt >= codeTime
                    THEN presented \cup {n} ELSE presented
    /\ UNCHANGED <<clients, codeTime, issued>>

CodeTick ==
    /\ codeTime < MaxCodeTime
    /\ codeTime' = codeTime + 1
    /\ UNCHANGED <<clients, authCodes, issued, grants, presented>>

CodesNext ==
    \/ CodeTick
    \/ \E c \in ClientIds, uris \in SUBSET Redirects : registerClient(c, uris)
    \/ \E c \in ClientIds, uri \in Redirects, b \in BOOLEAN : issueAuthorizationCode(c, uri, b)
    \/ \E n \in DOMAIN authCodes, c \in ClientIds, uri \in Redirects, v \in Verifiers :
        exchangeCodeForTokens(n, c, uri, v)

CodesSpec == CodesInit /\ [][CodesNext]_codeVars

----------------------------------------------------------------------------
\* Whoever else has tried a code before, and whatever became of its client's
\* registration: the first exchange by the client it was issued to, with the
\* redirect URI it was issued for, in time, and with a verifier (any one) if it
\* was issued with a challenge, is given tokens, and no other exchange is.
SingleUse == \A n \in DOMAIN issued : Len(grants[n]) = IF n \in presented THEN 1 ELSE 0

\* A code that was issued with a challenge buys tokens only with the verifier
\* the challenge was made from: the "PKCE code challenge verification" that the
\* header of the class names.
ChallengeVerified ==
    \A n \in DOMAIN issued : issued[n].codeChallenge =>
        \A k \in DOMAIN grants[n] : grants[n][k] = "matching"
=============================================================================
