SPECIFICATION FairSpec
CONSTANTS
    Servants = {s1, s2}
    Clients = {c1}
    MaxTokens = 9
    MaxRestarts = 1
INVARIANT TokensAgree
PROPERTIES TokensAgreeAgain
