SPECIFICATION Spec
CONSTANTS
    ann = ann
    bob = bob
    ask1 = ask1
    ask2 = ask2
    look = look
    old = old
    new1 = new1
    new2 = new2
    Ops = {ann, bob, ask1, ask2, look}
    Ids = {old, new1, new2}
    KindOf <- MCKindOf
    IdOf <- MCIdOf
    OutcomeOf <- MCOutcomeOf
    Lockings <- MCLockings
    MayCrash = TRUE
INVARIANT FileNeverTorn
INVARIANT AckedIsDurable
PROPERTY ReviewsAreKept
PROPERTY SaveRepairs
\* Every call is made once.
CHECK_DEADLOCK FALSE
