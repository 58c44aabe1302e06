SPECIFICATION Spec
CONSTANTS
    MaxTokens = 6
    IntDigits = 4
    Tables <- MCTables
CHECK_DEADLOCK FALSE
INVARIANT TextsAreUnderstood
INVARIANT RowsAgree
INVARIANT FunctionsAgree
PROPERTY TextsAreAnswered
