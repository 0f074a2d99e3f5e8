SPECIFICATION FairSpec
CONSTANTS
    Requests = {r1, r2}
    NoRequest = NoRequest
    Retries = 1
    MaxTokens = 3
INVARIANTS
    TypeOK
    RefusedTokenNotReused
PROPERTIES
    ImplementsTokenLease
    CredentialVerdict
    RequestsEnd
