SPECIFICATION Spec
CONSTANTS
    BankKeys <- MCBankKeys
    Query <- Queries
    LIMIT = 3
    REPLAY = 1
VIEW View
INVARIANT
    TreesCompact
PROPERTY
    ImplementsBanks
