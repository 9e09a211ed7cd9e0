-------------------------------- MODULE Lexer --------------------------------
(***************************************************************************)
(* The lexer (src/lexer.c, src/lexstate.c, and rbs_lexer_new of parser.c). *)
(* It walks over the bytes of the source character by character, keeps its *)
(* position in bytes, characters, lines and columns, and recognizes the    *)
(* longest token that starts where the last one ended.                     *)
(*                                                                         *)
(* lexer.c is an automaton that re2c generated from lexer.re.  The state   *)
(* yyN is entered with the character that led to it already skipped.  It   *)
(* is written here as the token it stops with ("none" if the code goes     *)
(* back to the last state that could stop, by restoring the backup of the  *)
(* lexer it made there) and the next state for each character with one.    *)
(* The first of two overlapping moves is the one taken, as @@ does.        *)
(***************************************************************************)
EXTENDS Integers, Sequences, TLC, Encodings

(***************************************************************************)
(* Characters, as rbs_next_char reports them: an ASCII character by its    *)
(* code, the others by a number only said to be above, a byte that starts  *)
(* no character by U+FFFD, and the end of the input by 0.  (The number of a *)
(* non-ASCII character of one byte depends on the signedness of char; no   *)
(* state tells it from the others.)                                        *)
(***************************************************************************)
Invalid == 65533
Multibyte == 12523
NonAscii == 128..255 \cup {Multibyte}
Byte == 0..255 \cup {Multibyte, Invalid}
NotNul == Byte \ {0}
Newline == 10
Return == 13
Space == 32
Colon == 58
Low_line == 95
Blank == {9, Space}
LineEnd == {Newline, Return}
Digit == 48..57
Upper == 65..90
Lower == 97..122
Hex == Digit \cup 65..70 \cup 97..102
IdentChar == Digit \cup Upper \cup Lower \cup {Low_line} \cup NonAscii
IdentStart == IdentChar \ Digit
CodesIn(string) == {Code(SubSeq(string, i, i)) : i \in 1..Len(string)}
GlobalMark == CodesIn("!\"$&'*+,./:;<=>\\~")
GlobalChar == NotNul \ (GlobalMark \cup Blank \cup LineEnd \cup CodesIn("%()[]^{|}"))

(***************************************************************************)
(* States and moves.                                                       *)
(***************************************************************************)
Each(chars, target) == [c \in chars |-> target]
On(string, target) == Each(CodesIn(string), target)
OnEach(string, targets) ==
    [c \in CodesIn(string) |->
        targets[CHOOSE i \in 1..Len(string) : Code(SubSeq(string, i, i)) = c]]
Ident(target) == On("!", 112) @@ On("=", 113) @@ Each(IdentChar, target)

State(type, moves) == [stop |-> type, moves |-> moves]
Stop(type) == State(type, <<>>)
Through(moves) == State("none", moves)
Keyword(type) == State(type, Ident(53))
Spells(letter, target) == State("tLIDENT", On(letter, target) @@ Ident(53))

yy0 == 0 :> Through(
        OnEach("!\"#$%&'()*+,-./", <<7, 9, 10, 12, 13, 14, 15, 16, 17, 18, 19, 20, 21, 22, 24>>) @@
        OnEach(":<=>?@[]^_{|}~", <<27, 29, 31, 33, 35, 36, 39, 40, 41, 42, 65, 66, 67, 24>>) @@
        OnEach("abcdefimnop", <<46, 48, 49, 50, 51, 52, 55, 56, 57, 58, 59>>) @@
        OnEach("rstuv", <<60, 61, 62, 63, 64>>) @@ Each({Tick}, 44) @@
        Each({0}, 1) @@ Each(Blank, 4) @@ Each(LineEnd, 6) @@ Each(Digit, 25) @@ Each(Upper, 37) @@
        Each(Lower, 53) @@ Each(NonAscii, 68) @@ Each(Byte, 2))

yy1_16 ==
    1 :> Stop("pEOF") @@ 2 :> Stop("ErrorToken") @@ 4 :> State("tTRIVIA", Each(Blank, 4)) @@
    6 :> Stop("tTRIVIA") @@ 7 :> State("tOPERATOR", On("=~", 24)) @@
    9 :> State("ErrorToken", On("\"", 73) @@ On("\\", 74) @@ Each(NotNul, 70)) @@
    10 :> State("tCOMMENT", Each(NotNul \ {Newline, Invalid}, 10)) @@
    12 :> State("ErrorToken", Each(GlobalMark, 77) @@ Each(GlobalChar, 75)) @@
    13 :> State("tOPERATOR", On("a", 78)) @@ 14 :> Stop("pAMP") @@
    15 :> State("ErrorToken", On("'", 81) @@ On("\\", 83) @@ Each(NotNul, 79)) @@
    16 :> Stop("pLPAREN")

yy17_25 ==
    17 :> Stop("pRPAREN") @@ 18 :> State("pSTAR", On("*", 84)) @@
    19 :> State("tOPERATOR", On("@", 24) @@ Each(Digit, 25)) @@ 20 :> Stop("pCOMMA") @@
    21 :> State("tOPERATOR", On("-", 85) @@ On(">", 86) @@ On("@", 24) @@ Each(Digit, 25)) @@
    22 :> State("pDOT", On(".", 87)) @@ 24 :> Stop("tOPERATOR") @@
    25 :> State("tINTEGER", Each(Digit \cup {Low_line}, 25))

yy27_36 ==
    27 :> State("pCOLON", On("!", 88) @@ On("\"", 90) @@ On("$", 91) @@ On("'", 93) @@
        On("*", 94) @@ On(":", 96) @@ On("<", 97) @@ On("=", 98) @@ On(">", 99) @@ On("@", 100) @@
        On("[", 103) @@ On("+-", 95) @@ On("%&/^|~", 92) @@ Each({Tick}, 92) @@
        Each(IdentStart, 101)) @@
    29 :> State("pLT", On("<", 24) @@ On("=", 104)) @@
    31 :> State("pEQ", On("=", 105) @@ On(">", 106) @@ On("~", 24)) @@
    33 :> State("pGT", On("=>", 24)) @@ 35 :> Stop("pQUESTION") @@
    36 :> State("ErrorToken", On("@", 107) @@ On("r", 111) @@ Each(IdentStart, 108))

yy37_52 ==
    37 :> State("tUIDENT", Ident(37)) @@ 39 :> State("pLBRACKET", On("]", 114)) @@
    40 :> Stop("pRBRACKET") @@ 41 :> Stop("pHAT") @@
    42 :> State("tULLIDENT", Each(Digit \cup Lower, 115) @@ Each(Upper, 118) @@ On("_", 120) @@
        Ident(68)) @@
    44 :> State("tOPERATOR", Each(NotNul \ {Space, Colon}, 121)) @@
    46 :> State("tLIDENT", On("l", 122) @@ On("s", 123) @@ On("t", 125) @@ Ident(53)) @@
    48 :> Spells("o", 126) @@ 49 :> Spells("l", 127) @@ 50 :> Spells("e", 128) @@
    51 :> State("tLIDENT", On("n", 129) @@ On("x", 130) @@ Ident(53)) @@ 52 :> Spells("a", 131)

yy53_68 ==
    53 :> Keyword("tLIDENT") @@ 55 :> Spells("n", 132) @@ 56 :> Spells("o", 134) @@
    57 :> Spells("i", 135) @@ 58 :> Spells("u", 136) @@
    59 :> State("tLIDENT", On("r", 137) @@ On("u", 138) @@ Ident(53)) @@ 60 :> Spells("e", 139) @@
    61 :> State("tLIDENT", On("e", 140) @@ On("i", 141) @@ On("k", 142) @@ Ident(53)) @@
    62 :> State("tLIDENT", On("o", 143) @@ On("r", 144) @@ On("y", 145) @@ Ident(53)) @@
    63 :> State("tLIDENT", On("n", 146) @@ On("s", 147) @@ Ident(53)) @@ 64 :> Spells("o", 148) @@
    65 :> Stop("pLBRACE") @@ 66 :> Stop("pBAR") @@ 67 :> Stop("pRBRACE") @@
    68 :> State("tNONASCIIIDENT", Ident(68))

yy70_84 ==
    70 :> State("none", On("\"", 73) @@ On("\\", 74) @@ Each(NotNul, 70)) @@
    73 :> Stop("tDQSTRING") @@
    74 :> State("none", On("u", 149) @@ On("x", 150) @@ Each(Byte, 70)) @@
    75 :> State("tGIDENT", Each(GlobalChar, 75)) @@ 77 :> Stop("tGIDENT") @@
    78 :> State("none", On("(", 151) @@ On("<", 152) @@ On("[", 153) @@ On("{", 154) @@ On("|", 155)) @@
    79 :> State("none", On("'", 81) @@ On("\\", 83) @@ Each(NotNul, 79)) @@
    81 :> Stop("tSQSTRING") @@
    83 :> State("none", On("'", 156) @@ On("\\", 83) @@ Each(NotNul, 79)) @@ 84 :> Stop("pSTAR2")

yy85_99 ==
    85 :> State("tINLINECOMMENT", Each(NotNul, 85)) @@ 86 :> Stop("pARROW") @@
    87 :> Through(On(".", 157)) @@ 88 :> State("tSYMBOL", On("=~", 92)) @@
    90 :> State("none", On("\"", 158) @@ On("\\", 159) @@ Each(NotNul, 90)) @@
    91 :> State("none", Each(GlobalMark, 162) @@ Each(GlobalChar, 160)) @@ 92 :> Stop("tSYMBOL") @@
    93 :> State("none", On("'", 163) @@ On("\\", 165) @@ Each(NotNul, 93)) @@
    94 :> State("tSYMBOL", On("*", 92)) @@ 95 :> State("tSYMBOL", On("@", 92)) @@
    96 :> Stop("pCOLON2") @@ 97 :> State("tSYMBOL", On("<", 92) @@ On("=", 166)) @@
    98 :> State("none", On("=", 167) @@ On("~", 92)) @@ 99 :> State("tSYMBOL", On("=>", 92))

yy100_114 ==
    100 :> State("none", On("@", 168) @@ Each(IdentStart, 101)) @@
    101 :> State("tSYMBOL", On("!=?", 169) @@ Each(IdentChar, 101)) @@
    103 :> Through(On("]", 167)) @@ 104 :> State("tOPERATOR", On(">", 24)) @@
    105 :> State("tOPERATOR", On("=", 24)) @@ 106 :> Stop("pFATARROW") @@
    107 :> Through(Each(IdentStart, 170)) @@ 108 :> State("tAIDENT", Each(IdentChar, 108)) @@
    111 :> State("tAIDENT", On("b", 172) @@ Each(IdentChar, 108)) @@ 112 :> Stop("tBANGIDENT") @@
    113 :> Stop("tEQIDENT") @@ 114 :> State("pAREF_OPR", On("=", 24))

yy115_131 ==
    115 :> State("tULLIDENT", Ident(115)) @@ 118 :> State("tULIDENT", Ident(118)) @@
    120 :> State("tULLIDENT", On("t", 173) @@ Ident(115)) @@
    121 :> State("none", Each({Tick}, 174) @@ Each(NotNul, 121)) @@ 122 :> Spells("i", 175) @@
    123 :> Keyword("kAS") @@ 125 :> Spells("t", 176) @@
    126 :> State("tLIDENT", On("o", 177) @@ On("t", 178) @@ Ident(53)) @@ 127 :> Spells("a", 180) @@
    128 :> Spells("f", 181) @@ 129 :> Spells("d", 183) @@ 130 :> Spells("t", 185) @@
    131 :> Spells("l", 186)

yy132_150 ==
    132 :> State("kIN", On("c", 187) @@ On("s", 188) @@ On("t", 189) @@ Ident(53)) @@
    134 :> Spells("d", 190) @@ 135 :> Spells("l", 191) @@ 136 :> Spells("t", 193) @@
    137 :> State("tLIDENT", On("e", 195) @@ On("i", 196) @@ Ident(53)) @@ 138 :> Spells("b", 197) @@
    139 :> Spells("t", 198) @@ 140 :> Spells("l", 199) @@ 141 :> Spells("n", 200) @@
    142 :> Spells("i", 201) @@ 143 :> Spells("p", 202) @@ 144 :> Spells("u", 204) @@
    145 :> Spells("p", 205) @@ 146 :> State("tLIDENT", On("c", 206) @@ On("t", 207) @@ Ident(53)) @@
    147 :> Spells("e", 208) @@ 148 :> Spells("i", 210) @@ 149 :> Through(Each(Hex, 211)) @@
    150 :> Through(Each(Hex, 70))

yy151_168 ==
    151 :> State("none", On(")", 212) @@ Each(NotNul, 151)) @@
    152 :> State("none", On(">", 213) @@ Each(NotNul, 152)) @@
    153 :> State("none", On("]", 214) @@ Each(NotNul, 153)) @@
    154 :> State("none", On("}", 215) @@ Each(NotNul, 154)) @@
    155 :> State("none", On("|", 216) @@ Each(NotNul, 155)) @@
    156 :> State("tSQSTRING", On("'", 81) @@ On("\\", 83) @@ Each(NotNul, 79)) @@
    157 :> Stop("pDOT3") @@ 158 :> Stop("tDQSYMBOL") @@
    159 :> State("none", On("u", 217) @@ On("x", 218) @@ Each(Byte, 90)) @@
    160 :> State("tSYMBOL", Each(GlobalChar, 160)) @@ 162 :> Stop("tSYMBOL") @@
    163 :> Stop("tSQSYMBOL") @@
    165 :> State("none", On("'", 219) @@ On("\\", 165) @@ Each(NotNul, 93)) @@
    166 :> State("tSYMBOL", On(">", 92)) @@ 167 :> State("tSYMBOL", On("=", 92)) @@
    168 :> Through(Each(IdentStart, 101))

yy169_185 ==
    169 :> Stop("tSYMBOL") @@ 170 :> State("tA2IDENT", Each(IdentChar, 170)) @@
    172 :> State("tAIDENT", On("s", 220) @@ Each(IdentChar, 108)) @@
    173 :> State("tULLIDENT", On("o", 222) @@ Ident(115)) @@ 174 :> Stop("tQIDENT") @@
    175 :> Spells("a", 223) @@ 176 :> Spells("r", 224) @@ 177 :> Spells("l", 225) @@
    178 :> Keyword("kBOT") @@ 180 :> Spells("s", 227) @@ 181 :> Keyword("kDEF") @@
    183 :> Keyword("kEND") @@ 185 :> Spells("e", 228)

yy186_205 ==
    186 :> Spells("s", 229) @@ 187 :> Spells("l", 230) @@ 188 :> Spells("t", 231) @@
    189 :> Spells("e", 232) @@ 190 :> Spells("u", 233) @@ 191 :> Keyword("kNIL") @@
    193 :> Keyword("kOUT") @@ 195 :> Spells("p", 234) @@ 196 :> Spells("v", 235) @@
    197 :> Spells("l", 236) @@ 198 :> Spells("u", 237) @@ 199 :> Spells("f", 238) @@
    200 :> Spells("g", 240) @@ 201 :> Spells("p", 241) @@ 202 :> Keyword("kTOP") @@
    204 :> Spells("e", 243) @@ 205 :> Spells("e", 245)

yy206_219 ==
    206 :> Spells("h", 247) @@ 207 :> Spells("y", 248) @@ 208 :> Keyword("kUSE") @@
    210 :> Spells("d", 249) @@ 211 :> Through(Each(Hex, 251)) @@ 212 :> Stop("tANNOTATION") @@
    213 :> Stop("tANNOTATION") @@ 214 :> Stop("tANNOTATION") @@ 215 :> Stop("tANNOTATION") @@
    216 :> Stop("tANNOTATION") @@ 217 :> Through(Each(Hex, 252)) @@ 218 :> Through(Each(Hex, 90)) @@
    219 :> State("tSQSYMBOL", On("'", 163) @@ On("\\", 165) @@ Each(NotNul, 93))

yy220_238 ==
    220 :> State("kATRBS", Each(IdentChar, 108)) @@
    222 :> State("tULLIDENT", On("d", 253) @@ Ident(115)) @@ 223 :> Spells("s", 254) @@
    224 :> Spells("_", 256) @@ 225 :> Keyword("kBOOL") @@ 227 :> Spells("s", 257) @@
    228 :> Spells("n", 259) @@ 229 :> Spells("e", 260) @@ 230 :> Spells("u", 262) @@
    231 :> Spells("a", 263) @@ 232 :> Spells("r", 264) @@ 233 :> Spells("l", 265) @@
    234 :> Spells("e", 266) @@ 235 :> Spells("a", 267) @@ 236 :> Spells("i", 268) @@
    237 :> Spells("r", 269) @@ 238 :> Keyword("kSELF")

yy240_253 ==
    240 :> Spells("l", 270) @@ 241 :> Keyword("kSKIP") @@ 243 :> Keyword("kTRUE") @@
    245 :> Keyword("kTYPE") @@ 247 :> Spells("e", 271) @@ 248 :> Spells("p", 272) @@
    249 :> Keyword("kVOID") @@ 251 :> Through(Each(Hex, 150)) @@ 252 :> Through(Each(Hex, 273)) @@
    253 :> State("tULLIDENT", On("o", 274) @@ Ident(115))

yy254_270 ==
    254 :> Keyword("kALIAS") @@
    256 :> State("tLIDENT", On("a", 275) @@ On("r", 276) @@ On("w", 277) @@ Ident(53)) @@
    257 :> State("kCLASS", On("-", 278) @@ Ident(53)) @@ 259 :> Spells("d", 279) @@
    260 :> Keyword("kFALSE") @@ 262 :> Spells("d", 281) @@ 263 :> Spells("n", 282) @@
    264 :> Spells("f", 283) @@ 265 :> Spells("e", 284) @@ 266 :> Spells("n", 286) @@
    267 :> Spells("t", 287) @@ 268 :> Spells("c", 288) @@ 269 :> Spells("n", 290) @@
    270 :> Spells("e", 292)

yy271_287 ==
    271 :> Spells("c", 293) @@ 272 :> Spells("e", 294) @@ 273 :> Through(Each(Hex, 218)) @@
    274 :> State("tULLIDENT", On("_", 295) @@ Ident(115)) @@ 275 :> Spells("c", 296) @@
    276 :> Spells("e", 297) @@ 277 :> Spells("r", 298) @@ 278 :> Through(On("a", 299)) @@
    279 :> Keyword("kEXTEND") @@ 281 :> Spells("e", 300) @@ 282 :> Spells("c", 302) @@
    283 :> Spells("a", 303) @@ 284 :> State("kMODULE", On("-", 304) @@ Ident(53)) @@
    286 :> Spells("d", 305) @@ 287 :> Spells("e", 307)

yy288_304 ==
    288 :> Keyword("kPUBLIC") @@ 290 :> Keyword("kRETURN") @@ 292 :> Spells("t", 309) @@
    293 :> Spells("k", 310) @@ 294 :> Spells("d", 311) @@
    295 :> State("tULLIDENT", On("_", 313) @@ Ident(115)) @@ 296 :> Spells("c", 315) @@
    297 :> Spells("a", 316) @@ 298 :> Spells("i", 317) @@ 299 :> Through(On("l", 318)) @@
    300 :> Keyword("kINCLUDE") @@ 302 :> Spells("e", 319) @@ 303 :> Spells("c", 321) @@
    304 :> State("none", On("a", 322) @@ On("s", 323))

yy305_318 ==
    305 :> Keyword("kPREPEND") @@ 307 :> Keyword("kPRIVATE") @@ 309 :> Spells("o", 324) @@
    310 :> Spells("e", 325) @@ 311 :> Keyword("kUNTYPED") @@
    313 :> State("k__TODO__", Ident(115)) @@ 315 :> Spells("e", 326) @@ 316 :> Spells("d", 327) @@
    317 :> Spells("t", 328) @@ 318 :> Through(On("i", 329))

yy319_334 ==
    319 :> Keyword("kINSTANCE") @@ 321 :> Spells("e", 330) @@ 322 :> Through(On("l", 332)) @@
    323 :> Through(On("e", 333)) @@ 324 :> Spells("n", 334) @@ 325 :> Spells("d", 336) @@
    326 :> Spells("s", 338) @@ 327 :> Spells("e", 339) @@ 328 :> Spells("e", 340) @@
    329 :> Through(On("a", 341)) @@ 330 :> Keyword("kINTERFACE") @@ 332 :> Through(On("i", 342)) @@
    333 :> Through(On("l", 343)) @@ 334 :> Keyword("kSINGLETON")

yy336_353 ==
    336 :> Keyword("kUNCHECKED") @@ 338 :> Spells("s", 344) @@ 339 :> Spells("r", 345) @@
    340 :> Spells("r", 347) @@ 341 :> Through(On("s", 349)) @@ 342 :> Through(On("a", 350)) @@
    343 :> Through(On("f", 351)) @@ 344 :> Spells("o", 352) @@ 345 :> Keyword("kATTRREADER") @@
    347 :> Keyword("kATTRWRITER") @@ 349 :> Stop("kCLASSALIAS") @@ 350 :> Through(On("s", 353)) @@
    351 :> Stop("kMODULESELF") @@ 352 :> Spells("r", 354) @@ 353 :> Stop("kMODULEALIAS")

yy354_354 ==
    354 :> Keyword("kATTRACCESSOR")

yy ==
    yy0 @@ yy1_16 @@ yy17_25 @@ yy27_36 @@ yy37_52 @@ yy53_68 @@ yy70_84 @@ yy85_99 @@
    yy100_114 @@ yy115_131 @@ yy132_150 @@ yy151_168 @@ yy169_185 @@ yy186_205 @@ yy206_219 @@
    yy220_238 @@ yy240_253 @@ yy254_270 @@ yy271_287 @@ yy288_304 @@ yy305_318 @@ yy319_334 @@
    yy336_353 @@ yy354_354

(***************************************************************************)
(* Walking (src/lexstate.c).                                               *)
(***************************************************************************)
Eof == 0
CR == Return

(* The byte at a position: behind the last one there is a NUL. *)
ByteAt(string, byte_pos) == IF byte_pos < Len(string) THEN string[byte_pos + 1] ELSE 0

Wide(byte, width) ==
    CASE width = 0 -> [codepoint |-> Invalid, bytes |-> 1]
      [] width = 1 -> [codepoint |-> byte, bytes |-> 1]
      [] OTHER -> [codepoint |-> Multibyte, bytes |-> width]

rbs_next_char(lexer) ==
    LET byte == ByteAt(lexer.string, lexer.current.byte)
    IN  CASE lexer.current.byte >= lexer.end_pos -> [codepoint |-> Eof, bytes |-> 1]
          [] lexer.current.byte < lexer.end_pos /\ byte < 128 -> [codepoint |-> byte, bytes |-> 1]
          [] OTHER -> Wide(byte, char_width(lexer.encoding,
                                            SubSeq(lexer.string, lexer.current.byte + 1, Len(lexer.string))))

rbs_peek(lexer) == lexer.current_code_point

Reading(lexer, next) ==
    [lexer EXCEPT !.current_code_point = next.codepoint, !.current_character_bytes = next.bytes]
AtNextChar(lexer) == Reading(lexer, rbs_next_char(lexer))

rbs_skip(lexer) ==
    LET newline == rbs_peek(lexer) = Newline
        moved == [lexer EXCEPT
                    !.current = [byte   |-> @.byte + lexer.current_character_bytes,
                                 char   |-> @.char + 1,
                                 line   |-> IF newline THEN @.line + 1 ELSE @.line,
                                 column |-> IF newline THEN 0 ELSE @.column + 1],
                    !.first_token_of_line = @ \/ newline]
    IN  IF rbs_peek(lexer) = Eof THEN lexer ELSE AtNextChar(moved)

(* A mutant of rbs_next_token: a token does not end the beginning of its line. *)
TokenKeepingLineStart(lexer, type) ==
    [token |-> [type |-> type, start |-> lexer.start, end |-> lexer.current,
                text |-> SubSeq(lexer.string, lexer.start.byte + 1, lexer.current.byte)],
     lexer |-> [lexer EXCEPT !.start = lexer.current]]

rbs_next_token(lexer, type) ==
    [token |-> [type |-> type, start |-> lexer.start, end |-> lexer.current,
                text |-> SubSeq(lexer.string, lexer.start.byte + 1, lexer.current.byte)],
     lexer |-> [lexer EXCEPT !.start = lexer.current,
                             !.first_token_of_line = @ /\ type = "tTRIVIA"]]

(* One byte behind the end the token is empty; that far no lexer gets, rbs_skip stays at a NUL. *)
rbs_next_eof_token(lexer) ==
    IF lexer.current.byte = Len(lexer.string) + 1
    THEN [token |-> [type |-> "pEOF", start |-> lexer.start, end |-> lexer.start, text |-> <<>>],
          lexer |-> [lexer EXCEPT !.start = lexer.current]]
    ELSE rbs_next_token(lexer, "pEOF")

(***************************************************************************)
(* The first character of a range.  NULL if no character starts there.     *)
(***************************************************************************)
RECURSIVE WalkTo(_, _)
WalkTo(lexer, start_pos) ==
    IF lexer.current.byte < start_pos /\ rbs_peek(lexer) # Eof
    THEN WalkTo(rbs_skip(lexer), start_pos)
    ELSE lexer

NullLexer == [tag |-> "NULL"]
StartAt(walked, start_pos) ==
    IF walked.current.byte # start_pos THEN NullLexer ELSE [walked EXCEPT !.start = walked.current]
rbs_lexer_new(string, encoding, start_pos, end_pos) ==
    LET first == [byte |-> 0, char |-> 0, line |-> 1, column |-> 0]
        new == [string |-> string, start_pos |-> start_pos, end_pos |-> end_pos,
                current |-> first, start |-> first, first_token_of_line |-> TRUE,
                current_character_bytes |-> 0, current_code_point |-> Eof, encoding |-> encoding]
    IN  StartAt(WalkTo(AtNextChar(new), start_pos), start_pos)

(***************************************************************************)
(* The next token.  "stopped" is the lexer at the last state that could    *)
(* stop and the token to stop with there.                                  *)
(***************************************************************************)
NotStopped == [type |-> "none", lexer |-> NullLexer]

RECURSIVE RunFrom(_, _, _), MoveFrom(_, _, _)
RunFrom(n, lexer, stopped) == MoveFrom(yy[n], IF n = 0 THEN lexer ELSE rbs_skip(lexer), stopped)
MoveFrom(state, lexer, stopped) ==
    LET last == IF state.stop = "none" THEN stopped ELSE [type |-> state.stop, lexer |-> lexer]
    IN  IF rbs_peek(lexer) \in DOMAIN state.moves
        THEN RunFrom(state.moves[rbs_peek(lexer)], lexer, last)
        ELSE last

(* A mutant of WithoutCR: the column stays ahead of the character. *)
WithoutCRKeepingColumn(lexer) ==
    IF rbs_peek(lexer) = Newline /\ ByteAt(lexer.string, lexer.current.byte - 1) = CR
    THEN [lexer EXCEPT !.current.byte = @ - 1, !.current.char = @ - 1,
                       !.current_code_point = CR, !.current_character_bytes = 1]
    ELSE lexer

(* A comment leaves the carriage return of a line end of two characters to the trivia. *)
WithoutCR(lexer) ==
    IF rbs_peek(lexer) = Newline /\ ByteAt(lexer.string, lexer.current.byte - 1) = CR
    THEN [lexer EXCEPT !.current.byte = @ - 1, !.current.char = @ - 1, !.current.column = @ - 1,
                       !.current_code_point = CR, !.current_character_bytes = 1]
    ELSE lexer

TokenAt(stopped) ==
    LET comment == WithoutCR(stopped.lexer)
    IN  CASE stopped.type = "pEOF" -> rbs_next_eof_token(stopped.lexer)
          [] stopped.type = "tCOMMENT" ->
                rbs_next_token(comment, IF comment.first_token_of_line THEN "tLINECOMMENT" ELSE "tCOMMENT")
          [] OTHER -> rbs_next_token(stopped.lexer, stopped.type)

rbs_lexer_next_token(lexer) == TokenAt(RunFrom(0, lexer, NotStopped))
=============================================================================
