SPECIFICATION FairSpec
CONSTANTS
    r1 = r1 r2 = r2 a = a b = b f = f d = d l = l k = k p = p
    Readers <- MCReaders
    Jobs <- MCJobs
    Listings <- MCListings
    Names <- MCNames
    Dots = {"."}
    NameBytes <- MCNameBytes
    Objects <- MCObjects
    KindOf <- MCKindOf
    Mode <- MCMode
    Text <- MCText
    Others <- MCOthers
    Values <- MCValues
    MaxLen = 4
    Block = 2
    Initial = 2
    NameMax = 3
    Usize = 6
    Absent = Absent
CHECK_DEADLOCK FALSE
INVARIANT ResultIsGenuine
INVARIANT WithinCeiling
INVARIANT LimitIsReal
INVARIANT ListingComplete
PROPERTY EveryReadReturns
