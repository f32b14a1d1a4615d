SPECIFICATION Spec
CONSTANTS
    digit = digit
    letter = letter
    Null = Null
    TimeoutMs = 3
    MaxChars = 2
    Statuses = {200, 302, 500}
    Chars = {digit, letter}
    Texts <- MCTexts
    JsonTexts <- MCJsonTexts
INVARIANTS
    FetchWithinTimeout
