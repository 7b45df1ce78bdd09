SPECIFICATION FairSpec
CONSTANTS
    r1 = r1 r2 = r2 r3 = r3 s1 = s1 s2 = s2 w1 = w1 o1 = o1
    Requests = {r1, r2, r3} Sites = {s1, s2} Warnings = {w1}
    StartKids <- MCStartKids Rank <- MCRank Calls <- MCCalls
    PoolSize = 3 Readers = {o1}
    None = None
INVARIANTS TypeOK DeadlocksTakeTwo
PROPERTIES ImplementsStore EveryRequestAnswered
