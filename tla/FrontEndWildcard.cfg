SPECIFICATION Spec
CONSTANTS
    Calls <- WildcardCalls
    Garbage <- MCGarbage
    BufferEncoding = "UTF-8"
    unicode_alpha_codepoints <- alpha_codepoints
    unicode_alnum_codepoints <- alnum_codepoints
    unicode_isupper_codepoints <- isupper_codepoints
INVARIANT AnswersAgree
