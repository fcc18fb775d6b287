SPECIFICATION CheckSpec
CONSTANTS
    Chars <- MCChars
    Nfkc <- MCNfkc
    Simple <- MCSimple
    Dropped = {"*", "m"}
    Alnum = {"w", "x"}
    Class <- MCClass
    Phrases <- MCPhrases
    Aliases <- MCAliases
    SureAlias = 3
    Star = "*"
    Entries <- MCEntries
    Rules <- MCRules
    MaxText = 4
INVARIANTS
    KeywordHitsExact
    
