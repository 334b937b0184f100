SPECIFICATION ChainSpec
CONSTANTS
    Request <- MCRequest
    BaseSubdomain = "s3"
    Short <- MCShort
    MaxLength = 2
    AccessKey = AccessKey
    SecretKey = SecretKey
    MaxSkew = 1
    Absent = Absent
    Unreadable = Unreadable
    Arrival <- MCArrival
    MaxNow <- MCMaxNow
CHECK_DEADLOCK FALSE
INVARIANTS
    ChainTypeOK
    HandlersGetTheirPaths
    AddressingStylesAgree
    WellMadeIsJudgedByItsAge
    UnsignedReachesNoHandler
