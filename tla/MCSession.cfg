CONSTANTS
    Letters <- MCLetters
    Upper <- MCUpper
    MinInt <- MCMinInt
    MaxInt = 1
    CharOrder <- MCCharOrder
    Scripts <- MCScripts
    Databases <- MCDatabases
    Size <- MCSize
    MaxLine = 60
    MaxPending = 2
SPECIFICATION Spec
CHECK_DEADLOCK FALSE
INVARIANTS
    LinesOfTheStream
    
    
    StatementsAreAsSpelled
    RowsFitTheirSchema
PROPERTIES
    QueriesMeanWhatTheySay
