SPECIFICATION Spec
CONSTANTS
    Name <- MCName
    Begins <- MCBegins
    Prefix <- MCPrefix
    MaxKeys <- MCMaxKeys
    Unlimited = Unlimited
    Default = 2
CHECK_DEADLOCK FALSE
INVARIANTS
    TypeOK
    CompleteWithoutLimits
    LimitIsMet
