SPECIFICATION Spec
CONSTANTS
    Support <- MCSupport
    Reference <- MCReference
    VerseNames <- MCVerseNames
    RatioUnit = 6
    LengthKnobs <- MCLengthKnobs
    WordKnobs <- MCWordKnobs
    MaxPackedGap = 1
    MaxPackedLen = 3
    Rules <- JustGlyphs
    Alphabet <- MCAlphabet
    BookCount <- MCBookCount
    MaxSize <- MCMaxSize
    RareCap = 1
    Knee = 1
    ClosurePercent = 100
INVARIANTS
    DiscountsAreCorpusWide
