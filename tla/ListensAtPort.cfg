SPECIFICATION Spec
CONSTANTS
    Words <- SomeWords
    Numeral <- SomeNumerals
    MaxWords = 4
    MaxStart = 2
INVARIANT
    ListensAtPort
