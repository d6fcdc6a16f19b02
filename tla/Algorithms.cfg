SPECIFICATION Spec
CONSTANTS
    Numbers <- SomeNumbers
    Texts <- SomeTexts
    Rules <- SomeRules
    Founds <- SomeFounds
    Samples <- SomeSamples
    Ends <- SomeEnds
    Data <- SomeData
    Values <- SomeValues
    Documents <- SomeDocuments
    Policies <- SomePolicies
    Words = {0, 1}
    Hash <- SomeHash
    K = 2
    Window = 2
    Threshold = 100
    Sniffed = 3
    Characters = {"letter", "equals", "bar", "backslash", "newline"}
INVARIANTS
    MisreadDigitIsCaught
    GenericMatchesShipped
    SharedRunIsFound
    ExcerptIsMatched
    RuleFiresAsDocumented
    MaskHides
    TextIsReadAsText
    AlertReadsBack
    CleanInlineAlertNamesGaps
    CleanScanAlertHidesNoHold
CHECK_DEADLOCK FALSE
