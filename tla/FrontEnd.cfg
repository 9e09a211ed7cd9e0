SPECIFICATION Spec
CONSTANTS
    Calls <- MCCalls
    Garbage <- MCGarbage
    BufferEncoding = "UTF-8"
    unicode_alpha_codepoints <- alpha_codepoints
    unicode_alnum_codepoints <- alnum_codepoints
    unicode_isupper_codepoints <- isupper_codepoints
INVARIANTS TypeOK PositionsAreAFullScan LexerIsLongestMatch CommentIsTheBlockAbove RangesNest VariablesAreLexical WasmAgreesWithNative CharacterClassesAgree
