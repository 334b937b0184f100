SPECIFICATION FairConfigSpec
CONSTANTS
    File <- MCFile
    Variable <- MCVariable
    Env <- MCEnv
    KeyFile <- MCKeyFile
    DefaultKeyPath <- MCDefaultKeyPath
    Portless <- MCPortless
CHECK_DEADLOCK FALSE
INVARIANTS
    ConfigTypeOK
    ListeningIsConfigured
    CheckedUnlessToldOtherwise

    
