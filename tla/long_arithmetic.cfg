CONSTANTS
    WordBits = 5
    MAX_UNSIGNED_VALUE = 31
SPECIFICATION Spec
CHECK_DEADLOCK FALSE
INVARIANTS
    CheckedArithmeticSaturates
    MultiplyDivideExact
    RoundingExact
