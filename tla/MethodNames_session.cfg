\* Every name of up to three words.
SPECIFICATION Spec
CONSTANTS
    Words <- SomeWords
    WithResource <- ContainResource
    WithRead <- ContainRead
    WithTool <- ContainTool
    WithCall <- ContainCall
    Lower <- ToLower
    Inside <- InsideWords
    Ending <- EndWords
    Beginning <- BeginWords
    Names <- ShortNames
    Accepted <- SomeAccepted
INVARIANTS
    IInv
    SpellingsAgree
    SuggestionsSettle
    AnsweredAsAsked
