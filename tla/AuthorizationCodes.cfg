SPECIFICATION CodesSpec
CONSTANTS
    ClientIds = {"web", "app"}
    Redirects = {"u", "v"}
    CodeLifetime = 1
    MaxCodes = 2
    MaxCodeTime = 2
INVARIANT ChallengeVerified
CHECK_DEADLOCK FALSE
