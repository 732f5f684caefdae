SPECIFICATION FairSpec
CONSTANTS
    Words <- SomeWords
    Numeral <- SomeNumerals
    MaxWords = 4
    MaxStart = 2
INVARIANTS
    TypeOK
    ParsesWhatIsMeant
    StopsAtFirst
PROPERTIES
    ParseEnds
