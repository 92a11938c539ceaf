\* Two calls and a login, any storage access may throw.  Two tokens are held at
\* a time: the stored one and one in a header, or the new one of a refresh.
SPECIFICATION Spec
CONSTANTS
    Calls = {c1, c2, login}
    Logins = {login}
    MaxTokens = 2
INVARIANTS
    WaitersHaveTheirRefresh
    LastTryHasNewToken
PROPERTIES
    WaitersAreReleased
