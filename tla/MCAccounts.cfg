\* Two browsers, two tasks that refresh at once, an account that is opened twice;
\* two sign-ins and a rotation, or one and two rotations.
CONSTANTS
    Browsers = {b1, b2}
    Workers = {w1, w2}
    MaxAccounts = 2
    MaxTokens = 3
SPECIFICATION FairSpec
INVARIANTS
    StoredTokenWorks
PROPERTIES
    SessionOnlyByLogin
    TokenComesBack
