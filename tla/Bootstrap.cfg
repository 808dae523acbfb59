\* Two pods, which may run different releases, on any database.
SPECIFICATION FairSpec
CONSTANTS
    Pod = {p1, p2}
    Release = {r1, r2}
    MaxRestarts = 2
    Free = Free  Ghost = Ghost
INVARIANTS
    TypeOK
    ServesOnlyItsSchema
    IInv
PROPERTIES
    RefusalsAreJustified
    ImplementsPromise
    EveryPodServes
