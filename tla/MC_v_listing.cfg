SPECIFICATION Spec
CONSTANTS
    Request <- MCRequest
    BaseSubdomain = "s3"
    Short <- MCShort
    MaxLength = 2
CHECK_DEADLOCK FALSE
INVARIANTS
    BucketIsListedByItsName
