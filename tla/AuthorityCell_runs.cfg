SPECIFICATION FairSpec
CONSTANTS
    hunt = hunt
    sync = sync
    takeover = takeover
    Runs = {hunt, sync, takeover}
    Tokens <- TokensOfTheBinary
    TokenOf <- TokenOfTheBinary
    Takeovers = {takeover}
    Guarded = {hunt}
    Senders = {s1}
    Quitters = {q1}
    InboxBound = 6
    Nobody = Nobody
    s1 = s1
    q1 = q1
INVARIANT HoldsWhatItWasTold
INVARIANT NeverStranded
PROPERTY AuthorityReturns
CHECK_DEADLOCK FALSE
