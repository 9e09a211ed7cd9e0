------------------------------ MODULE Encodings ------------------------------
(***************************************************************************)
(* The encodings a source may have (src/util/rbs_encoding.c): of how many  *)
(* bytes the next character is, what kind of character it is, and which    *)
(* encoding a name stands for.                                             *)
(*                                                                         *)
(* "b" are the bytes that remain, b[1] the next one (b[0] in the code) and *)
(* Len(b) the number n the code is given.  A width of 0 says that no       *)
(* character starts there.                                                 *)
(***************************************************************************)
EXTENDS Integers, Sequences, SequencesExt, FiniteSetsExt, TLC

CONSTANTS
    unicode_alpha_codepoints,       \* the ranges of the Unicode characters of
    unicode_alnum_codepoints,       \* each kind, first and last of each range,
    unicode_isupper_codepoints      \* in increasing order

(***************************************************************************)
(* Bytes.  Sources, names and messages are sequences of numbers below 256; *)
(* Ascii("...") is the sequence a string spells (the back tick cannot be   *)
(* written in a string, and has the name Tick).                            *)
(***************************************************************************)
LOCAL Printable ==
    " !\"#$%&'()*+,-./0123456789:;<=>?@ABCDEFGHIJKLMNOPQRSTUVWXYZ[\\]^_"
LOCAL Small == "abcdefghijklmnopqrstuvwxyz{|}~"
LOCAL CodesOf(string, first) ==
    [c \in {SubSeq(string, i, i) : i \in 1..Len(string)} |->
        first + (CHOOSE i \in 1..Len(string) : SubSeq(string, i, i) = c)]
LOCAL Upper == CodesOf(Printable, 31)
LOCAL Lower == CodesOf(Small, 96)
LOCAL Control == CodesOf("\n", 9)

Code(c) ==
    CASE c \in DOMAIN Upper -> Upper[c]
      [] c \in DOMAIN Lower -> Lower[c]
      [] OTHER -> Control[c]

Ascii(string) == [i \in 1..Len(string) |-> Code(SubSeq(string, i, i))]

Tick == 96

(***************************************************************************)
(* The tables.  A table of an encoding of one byte says of each byte which *)
(* of the three bits ALPHABETIC, ALPHANUMERIC and UPPERCASE it has (the    *)
(* code sums them up to a number); every table agrees with that of ASCII   *)
(* on the bytes below 0x80, and above it has letters only, so it is        *)
(* written here as what it adds to ASCII.                                  *)
(*                                                                         *)
(* The table of UTF-8 is the transition table of a decoder: the class of   *)
(* each byte, then the next state for each state and class.                *)
(***************************************************************************)
LOCAL Byte == 0..255
LOCAL Digits == 48..57
LOCAL Capitals == 65..90
LOCAL Smalls == 97..122

ascii_table ==
    [b \in Byte |-> [alphabetic   |-> b \in Capitals \cup Smalls,
                     alphanumeric |-> b \in Capitals \cup Smalls \cup Digits,
                     uppercase    |-> b \in Capitals]]

(* Letters and capitals above 0x7F are added to those of ASCII. *)
LOCAL Extending(letters, capitals) ==
    [b \in Byte |-> [alphabetic   |-> ascii_table[b].alphabetic \/ b \in letters,
                     alphanumeric |-> ascii_table[b].alphanumeric \/ b \in letters,
                     uppercase    |-> ascii_table[b].uppercase \/ b \in capitals]]

unicode_table == Extending(
    (192..214) \cup (216..246) \cup (248..255) \cup {170, 181, 186},
    (192..214) \cup (216..222))
cp850_table == ascii_table
cp852_table == ascii_table
cp855_table == ascii_table
gb1988_table == ascii_table
ibm437_table == ascii_table
ibm720_table == ascii_table
ibm737_table == ascii_table
ibm775_table == ascii_table
ibm852_table == ascii_table
ibm855_table == ascii_table
ibm857_table == ascii_table
ibm860_table == ascii_table
ibm861_table == ascii_table
ibm862_table == ascii_table
ibm863_table == ascii_table
ibm864_table == ascii_table
ibm865_table == ascii_table
ibm866_table == ascii_table
ibm869_table == ascii_table
iso_8859_1_table == unicode_table
iso_8859_2_table == Extending(
    (165..166) \cup (169..172) \cup (174..175) \cup (181..182) \cup (185..188) \cup
    (190..214) \cup (216..246) \cup (248..254) \cup {161, 163, 177, 179},
    (165..166) \cup (169..172) \cup (174..175) \cup (192..214) \cup (216..222) \cup {161,
    163})
iso_8859_3_table == Extending(
    (169..172) \cup (181..182) \cup (185..188) \cup (191..194) \cup (196..207) \cup
    (209..214) \cup (216..226) \cup (228..239) \cup (241..246) \cup (248..254) \cup {161,
    166, 175, 177},
    (169..172) \cup (192..194) \cup (196..207) \cup (209..214) \cup (216..222) \cup {161,
    166, 175})
iso_8859_4_table == Extending(
    (161..163) \cup (165..166) \cup (169..172) \cup (181..182) \cup (185..214) \cup
    (216..246) \cup (248..254) \cup {174, 177, 179},
    (165..166) \cup (169..172) \cup (192..214) \cup (216..222) \cup {161, 163, 174, 189})
iso_8859_5_table == Extending(
    (161..172) \cup (174..239) \cup (241..252) \cup (254..255),
    (161..172) \cup (174..207))
iso_8859_6_table == Extending((193..218) \cup (224..242), {})
iso_8859_7_table == Extending(
    (184..186) \cup (190..209) \cup (211..254) \cup {182, 188},
    (184..186) \cup (190..191) \cup (193..209) \cup (211..219) \cup {182, 188})
iso_8859_8_table == Extending((224..250) \cup {181}, {})
iso_8859_9_table == unicode_table
iso_8859_10_table == Extending(
    (161..166) \cup (168..172) \cup (174..175) \cup (177..182) \cup (184..188) \cup
    (190..255),
    (161..166) \cup (168..172) \cup (174..175) \cup (192..222))
iso_8859_11_table == Extending((161..218) \cup (223..251), {})
iso_8859_13_table == Extending(
    (191..214) \cup (216..246) \cup (248..254) \cup {168, 170, 175, 181, 184, 186},
    (192..214) \cup (216..222) \cup {168, 170, 175})
iso_8859_14_table == Extending(
    (161..162) \cup (164..166) \cup (170..172) \cup (175..181) \cup (183..255) \cup {168},
    (175..176) \cup (192..222) \cup {161, 164, 166, 168, 170, 172, 178, 180, 183, 187,
    189})
iso_8859_15_table == Extending(
    (180..181) \cup (188..190) \cup (192..214) \cup (216..246) \cup (248..255) \cup {166,
    168, 170, 184, 186},
    (192..214) \cup (216..222) \cup {166, 180, 188, 190})
iso_8859_16_table == Extending(
    (161..163) \cup (174..175) \cup (178..180) \cup (184..186) \cup (188..255) \cup {166,
    168, 170, 172},
    (192..222) \cup {161, 163, 166, 170, 172, 175, 178, 180, 188, 190})
koi8_r_table == Extending((192..255) \cup {163, 179}, (224..255) \cup {179})
koi8_u_table == Extending(
    (163..164) \cup (166..167) \cup (179..180) \cup (182..183) \cup (192..255) \cup {173,
    189},
    (179..180) \cup (182..183) \cup (224..255) \cup {189})
mac_cent_euro_table == ascii_table
mac_croatian_table == ascii_table
mac_cyrillic_table == ascii_table
mac_greek_table == ascii_table
mac_iceland_table == ascii_table
mac_roman_table == ascii_table
mac_romania_table == ascii_table
mac_thai_table == ascii_table
tis_620_table == iso_8859_11_table
mac_turkish_table == ascii_table
mac_ukraine_table == ascii_table
windows_1250_table == Extending(
    (140..143) \cup (156..159) \cup (185..186) \cup (190..246) \cup (248..254) \cup {138,
    154, 163, 165, 170, 175, 179, 181, 188},
    (140..143) \cup (192..222) \cup {138, 163, 165, 170, 175, 188})
windows_1251_table == Extending(
    (128..129) \cup (140..144) \cup (156..159) \cup (161..163) \cup (178..181) \cup
    (188..255) \cup {131, 138, 154, 165, 168, 170, 175, 184, 186},
    (128..129) \cup (140..143) \cup (192..223) \cup {138, 161, 163, 165, 168, 170, 175,
    178, 189})
windows_1252_table == Extending(
    (158..159) \cup (192..246) \cup (248..255) \cup {138, 140, 142, 154, 156, 170, 181,
    186},
    (192..222) \cup {138, 140, 142, 159})
windows_1253_table == Extending(
    (181..182) \cup (184..186) \cup (190..209) \cup (211..254) \cup {162, 188},
    (184..186) \cup (190..191) \cup (193..209) \cup (211..219) \cup {162, 182, 188})
windows_1254_table == Extending(
    (192..214) \cup (216..246) \cup (248..255) \cup {138, 140, 154, 156, 159, 170, 181,
    186},
    (192..214) \cup (216..222) \cup {138, 140, 159})
windows_1255_table == iso_8859_8_table
windows_1256_table == iso_8859_6_table
windows_1257_table == iso_8859_13_table
windows_1258_table == ascii_table
windows_874_table == ascii_table

(* The UTF-8 decoder: the class of a byte, and the next state. *)
utf_8_class ==
    [b \in Byte |->
        CASE b \in 0..127 -> 0
          [] b \in 128..143 -> 1
          [] b \in 144..159 -> 9
          [] b \in 160..191 -> 7
          [] b \in 192..193 -> 8
          [] b \in 194..223 -> 2
          [] b = 224 -> 10
          [] b \in 225..236 -> 3
          [] b = 237 -> 4
          [] b \in 238..239 -> 3
          [] b = 240 -> 11
          [] b \in 241..243 -> 6
          [] b = 244 -> 5
          [] b \in 245..255 -> 8]

utf_8_next == <<
    <<0, 1, 2, 3, 5, 8, 7, 1, 1, 1, 4, 6>>,
    <<1, 1, 1, 1, 1, 1, 1, 1, 1, 1, 1, 1>>,
    <<1, 0, 1, 1, 1, 1, 1, 0, 1, 0, 1, 1>>,
    <<1, 2, 1, 1, 1, 1, 1, 2, 1, 2, 1, 1>>,
    <<1, 1, 1, 1, 1, 1, 1, 2, 1, 1, 1, 1>>,
    <<1, 2, 1, 1, 1, 1, 1, 1, 1, 2, 1, 1>>,
    <<1, 1, 1, 1, 1, 1, 1, 3, 1, 3, 1, 1>>,
    <<1, 3, 1, 1, 1, 1, 1, 3, 1, 3, 1, 1>>,
    <<1, 3, 1, 1, 1, 1, 1, 1, 1, 1, 1, 1>>>>
utf_8_state(state, class) == utf_8_next[state + 1][class + 1]

LOCAL Between(b, i, lo, hi) == i <= Len(b) /\ b[i] \in lo..hi

(***************************************************************************)
(* UTF-8: a decoder of nine states.  State 0 accepts, state 1 is reached   *)
(* by an ill-formed sequence and never left.                               *)
(***************************************************************************)
LOCAL MostBytes(b) == Min({4, Len(b)})
LOCAL StateAfter(b, i) ==
    FoldLeft(LAMBDA state, byte : utf_8_state(state, utf_8_class[byte]), 0, SubSeq(b, 1, i))

rbs_encoding_utf_8_char_width(b) ==
    LET accepting == {i \in 1..MostBytes(b) : StateAfter(b, i) = 0}
    IN  IF accepting = {} THEN 0 ELSE Min(accepting)

(* The first byte keeps what its class leaves of it, each other one six bits. *)
rbs_utf_8_codepoint(b) ==
    LET width == rbs_encoding_utf_8_char_width(b)
        first == b[1] % (2 ^ Max({0, 8 - utf_8_class[b[1]]}))
    IN  IF width = 0
        THEN [codepoint |-> 0, width |-> 0]
        ELSE [codepoint |-> FoldLeft(LAMBDA c, byte : (c * 64) + (byte % 64), first, SubSeq(b, 2, width)),
              width |-> width]

(***************************************************************************)
(* CESU-8: as UTF-8 up to three bytes; what lies beyond is written as a    *)
(* pair of surrogates of three bytes each.  A surrogate on its own is taken *)
(* for a character, whatever its last byte is.                             *)
(***************************************************************************)
LOCAL Tail6(byte) == byte % 64
LOCAL Decoded(width, codepoint) == [codepoint |-> codepoint, width |-> width]
LOCAL IsPair(b) ==
    /\ b[1] = 237 /\ Between(b, 2, 160, 175) /\ Between(b, 3, 128, 191)
    /\ Between(b, 4, 237, 237) /\ Between(b, 5, 176, 191) /\ Between(b, 6, 128, 191)

rbs_cesu_8_codepoint(b) ==
    CASE b[1] < 128 -> Decoded(1, b[1])
      [] b[1] \in 194..223 /\ Between(b, 2, 128, 191) -> Decoded(2, ((b[1] % 32) * 64) + Tail6(b[2]))
      [] IsPair(b) ->
            Decoded(6, 65536 + ((b[2] % 16) * 65536) + (Tail6(b[3]) * 1024) + ((b[5] % 16) * 64) + Tail6(b[6]))
      [] ~IsPair(b) /\ Len(b) > 2 /\ b[1] = 237 /\ b[2] \in 160..191 ->
            Decoded(3, 65536 + ((b[1] % 4) * 65536) + (Tail6(b[2]) * 1024) + Tail6(b[3]))
      [] /\ ~(b[1] = 237 /\ Between(b, 2, 160, 191))
         /\ b[1] \in 224..239
         /\ Between(b, 2, IF b[1] = 224 THEN 160 ELSE 128, 191)
         /\ Between(b, 3, 128, 191) ->
            Decoded(3, ((b[1] % 16) * 4096) + (Tail6(b[2]) * 64) + Tail6(b[3]))
      [] OTHER -> Decoded(0, 0)

rbs_encoding_cesu_8_char_width(b) == rbs_cesu_8_codepoint(b).width

(***************************************************************************)
(* The other encodings of several bytes.                                   *)
(***************************************************************************)
LOCAL First(widths, holds(_)) ==
    LET found == SelectInSeq(widths, holds) IN IF found = 0 THEN 0 ELSE widths[found]

rbs_encoding_ascii_char_width(b) == IF b[1] < 128 THEN 1 ELSE 0

rbs_encoding_euc_jp_char_width(b) ==
    LET Is(w) ==
            CASE w = 1 -> b[1] < 128
              [] w = 2 -> b[1] \in {142} \cup (161..254) /\ Between(b, 2, 161, 254)
              [] w = 3 -> b[1] = 143 /\ Between(b, 2, 161, 255) /\ Between(b, 3, 161, 254)
    IN  First(<<1, 2, 3>>, Is)

rbs_encoding_shift_jis_char_width(b) ==
    LET Is(w) ==
            CASE w = 1 -> b[1] < 128 \/ b[1] \in 161..223
              [] w = 2 -> b[1] \in (129..159) \cup (224..252) /\ Between(b, 2, 64, 252) /\ b[2] # 127
    IN  First(<<1, 2>>, Is)

rbs_encoding_big5_char_width(b) ==
    LET Is(w) ==
            CASE w = 1 -> b[1] < 128
              [] w = 2 -> b[1] \in 161..254 /\ (Between(b, 2, 64, 126) \/ Between(b, 2, 161, 254))
    IN  First(<<1, 2>>, Is)

rbs_encoding_cp949_char_width(b) ==
    LET Is(w) ==
            CASE w = 1 -> b[1] <= 128
              [] w = 2 -> b[1] \in 129..254
                          /\ \E r \in {<<65, 90>>, <<97, 122>>, <<129, 254>>} : Between(b, 2, r[1], r[2])
    IN  First(<<1, 2>>, Is)

rbs_encoding_emacs_mule_char_width(b) ==
    LET High(i) == Between(b, i, 160, 255)
        Is(w) ==
            CASE w = 1 -> b[1] < 128
              [] w = 2 -> b[1] \in 129..143 /\ High(2)
              [] w = 3 -> /\ \/ b[1] \in 144..153 /\ High(2)
                             \/ b[1] \in 154..155 /\ Between(b, 2, 224, 239)
                          /\ High(3)
              [] w = 4 -> /\ \/ b[1] = 156 /\ Between(b, 2, 240, 244)
                             \/ b[1] = 157 /\ Between(b, 2, 245, 254)
                          /\ High(3) /\ High(4)
    IN  First(<<1, 2, 3, 4>>, Is)

rbs_encoding_euc_kr_char_width(b) ==
    LET Is(w) ==
            CASE w = 1 -> b[1] < 128
              [] w = 2 -> b[1] \in 161..254 /\ Between(b, 2, 161, 254)
    IN  First(<<1, 2>>, Is)

rbs_encoding_euc_tw_char_width(b) ==
    LET Is(w) ==
            CASE w = 1 -> b[1] < 128
              [] w = 2 -> b[1] \in 161..254 /\ Between(b, 2, 161, 254)
              [] w = 4 -> b[1] = 142 /\ Between(b, 2, 161, 176)
                          /\ Between(b, 3, 161, 254) /\ Between(b, 4, 161, 254)
    IN  First(<<1, 2, 4>>, Is)

rbs_encoding_gb18030_char_width(b) ==
    LET Is(w) ==
            CASE w = 1 -> b[1] < 128
              [] w = 2 -> b[1] \in 129..254 /\ Between(b, 2, 64, 254) /\ b[2] # 127
              [] w = 4 -> b[1] \in 129..254 /\ Between(b, 2, 48, 57)
                          /\ Between(b, 3, 129, 254) /\ Between(b, 4, 48, 57)
    IN  First(<<1, 2, 4>>, Is)

rbs_encoding_gbk_char_width(b) ==
    LET Is(w) ==
            CASE w = 1 -> b[1] <= 128
              [] w = 2 ->
                    \/ /\ b[1] \in (161..169) \cup (176..247) \cup (170..175) \cup (248..254)
                       /\ Between(b, 2, 161, 254)
                    \/ b[1] \in 129..160 /\ Between(b, 2, 64, 254) /\ b[2] # 127
                    \/ /\ b[1] \in (170..254) \cup (168..169) \cup (161..167)
                       /\ Between(b, 2, 64, 160) /\ b[2] # 127
    IN  First(<<1, 2>>, Is)

(***************************************************************************)
(* Is the code point in one of the ranges?  A binary search that always    *)
(* looks at the first of two neighbours.                                   *)
(***************************************************************************)
RECURSIVE Search(_, _, _, _)
Search(codepoint, codepoints, start, end) ==
    LET half == start + (end - start) \div 2
        middle == half - (half % 2)
    IN  CASE start >= end -> FALSE
          [] start < end /\ codepoints[middle + 1] <= codepoint /\ codepoint <= codepoints[middle + 2] -> TRUE
          [] start < end /\ codepoint < codepoints[middle + 1] -> Search(codepoint, codepoints, start, middle)
          [] start < end /\ codepoint > codepoints[middle + 2] -> Search(codepoint, codepoints, middle + 2, end)

rbs_unicode_codepoint_match(codepoint, codepoints) == Search(codepoint, codepoints, 0, Len(codepoints))

(***************************************************************************)
(* The kinds of characters.  What classes an encoding has is the name of a *)
(* family of functions, or says that the encoding has a table of its own.   *)
(***************************************************************************)
LOCAL UnicodeIs(decoded, bit, codepoints) ==
    IF decoded.codepoint <= 255
    THEN unicode_table[decoded.codepoint][bit]
    ELSE rbs_unicode_codepoint_match(decoded.codepoint, codepoints)

rbs_encoding_utf_8_alpha_char(decoded) ==
    IF UnicodeIs(decoded, "alphabetic", unicode_alpha_codepoints) THEN decoded.width ELSE 0
rbs_encoding_utf_8_alnum_char(decoded) ==
    IF UnicodeIs(decoded, "alphanumeric", unicode_alnum_codepoints) THEN decoded.width ELSE 0
rbs_encoding_utf_8_isupper_char(decoded) == UnicodeIs(decoded, "uppercase", unicode_isupper_codepoints)

LOCAL OneIf(condition) == IF condition THEN 1 ELSE 0
rbs_encoding_ascii_alpha_char_7bit(b) == OneIf(b[1] < 128 /\ ascii_table[b[1]].alphabetic)
rbs_encoding_ascii_alnum_char_7bit(b) == OneIf(b[1] < 128 /\ ascii_table[b[1]].alphanumeric)
rbs_encoding_ascii_isupper_char_7bit(b) == b[1] < 128 /\ ascii_table[b[1]].uppercase

LOCAL ShiftJis(b, ascii) ==
    LET width == rbs_encoding_shift_jis_char_width(b)
    IN  IF width = 1 THEN OneIf(b[1] >= 128 \/ ascii) ELSE width
rbs_encoding_shift_jis_alpha_char(b) == ShiftJis(b, ascii_table[b[1]].alphabetic)
(* A mutant of rbs_encoding_shift_jis_alnum_char: a character of two bytes is looked up by its first. *)
ShiftJisAlnumOfByte(b) == OneIf(ascii_table[b[1]].alphanumeric)
rbs_encoding_shift_jis_alnum_char(b) == ShiftJis(b, ascii_table[b[1]].alphanumeric)

LOCAL CapitalOf(b, width, ranges) ==
    CASE width = 1 -> ascii_table[b[1]].uppercase
      [] width = 2 -> \E r \in ranges : b[1] = r[1] /\ b[2] \in r[2]..r[3]
      [] OTHER -> FALSE
rbs_encoding_shift_jis_isupper_char(b) ==
    CapitalOf(b, rbs_encoding_shift_jis_char_width(b), {<<130, 96, 121>>, <<131, 159, 182>>, <<132, 64, 96>>})
rbs_encoding_euc_jp_isupper_char(b) ==
    CapitalOf(b, rbs_encoding_euc_jp_char_width(b), {<<163, 193, 218>>, <<166, 161, 184>>, <<167, 161, 193>>})

(***************************************************************************)
(* The encodings by their names.                                           *)
(***************************************************************************)
LOCAL Encoding(width, classes, capitals) == [char_width |-> width, classes |-> classes, isupper |-> capitals]

LOCAL Family(names, encoding) == [name \in names |-> encoding]
LOCAL AsciiBelow(names, width) == Family(names, Encoding(width, "ascii_7bit", "ascii_7bit"))
LOCAL OneByte(rows) == [name \in {row[1] : row \in rows} |-> (CHOOSE row \in rows : row[1] = name)[2]]

RBS_ENCODING_TABLES ==
    OneByte({<<"US-ASCII", ascii_table>>, <<"ASCII-8BIT", ascii_table>>,
          <<"CP850", cp850_table>>, <<"CP852", cp852_table>>, <<"CP855", cp855_table>>,
          <<"GB1988", gb1988_table>>, <<"IBM437", ibm437_table>>, <<"IBM720", ibm720_table>>,
          <<"IBM737", ibm737_table>>, <<"IBM775", ibm775_table>>, <<"IBM852", ibm852_table>>,
          <<"IBM855", ibm855_table>>, <<"IBM857", ibm857_table>>, <<"IBM860", ibm860_table>>,
          <<"IBM861", ibm861_table>>, <<"IBM862", ibm862_table>>, <<"IBM863", ibm863_table>>,
          <<"IBM864", ibm864_table>>, <<"IBM865", ibm865_table>>, <<"IBM866", ibm866_table>>,
          <<"IBM869", ibm869_table>>, <<"ISO-8859-1", iso_8859_1_table>>,
          <<"ISO-8859-2", iso_8859_2_table>>, <<"ISO-8859-3", iso_8859_3_table>>,
          <<"ISO-8859-4", iso_8859_4_table>>, <<"ISO-8859-5", iso_8859_5_table>>,
          <<"ISO-8859-6", iso_8859_6_table>>, <<"ISO-8859-7", iso_8859_7_table>>,
          <<"ISO-8859-8", iso_8859_8_table>>, <<"ISO-8859-9", iso_8859_9_table>>,
          <<"ISO-8859-10", iso_8859_10_table>>, <<"ISO-8859-11", iso_8859_11_table>>,
          <<"ISO-8859-13", iso_8859_13_table>>, <<"ISO-8859-14", iso_8859_14_table>>,
          <<"ISO-8859-15", iso_8859_15_table>>, <<"ISO-8859-16", iso_8859_16_table>>,
          <<"KOI8-R", koi8_r_table>>, <<"KOI8-U", koi8_u_table>>,
          <<"macCentEuro", mac_cent_euro_table>>, <<"macCroatian", mac_croatian_table>>,
          <<"macCyrillic", mac_cyrillic_table>>, <<"macGreek", mac_greek_table>>,
          <<"macIceland", mac_iceland_table>>, <<"macRoman", mac_roman_table>>,
          <<"macRomania", mac_romania_table>>, <<"macThai", mac_thai_table>>,
          <<"macTurkish", mac_turkish_table>>, <<"macUkraine", mac_ukraine_table>>,
          <<"TIS-620", tis_620_table>>, <<"Windows-1250", windows_1250_table>>,
          <<"Windows-1251", windows_1251_table>>, <<"Windows-1252", windows_1252_table>>,
          <<"Windows-1253", windows_1253_table>>, <<"Windows-1254", windows_1254_table>>,
          <<"Windows-1255", windows_1255_table>>, <<"Windows-1256", windows_1256_table>>,
          <<"Windows-1257", windows_1257_table>>, <<"Windows-1258", windows_1258_table>>,
          <<"Windows-874", windows_874_table>>})

rbs_encodings ==
    Family({"UTF-8", "UTF8-MAC", "UTF8-DoCoMo", "UTF8-KDDI", "UTF8-SoftBank"}, Encoding("utf_8", "utf_8", "utf_8"))
    @@ Family({"CESU-8"}, Encoding("cesu_8", "cesu_8", "cesu_8"))
    @@ Family({"EUC-JP", "CP51932", "eucJP-ms", "EUC-JIS-2004"}, Encoding("euc_jp", "ascii_7bit", "euc_jp"))
    @@ Family({"Windows-31J", "MacJapanese", "Shift_JIS", "SJIS-DoCoMo", "SJIS-KDDI", "SJIS-SoftBank"},
              Encoding("shift_jis", "shift_jis", "shift_jis"))
    @@ AsciiBelow({"Big5", "Big5-HKSCS", "Big5-UAO", "CP950", "CP951"}, "big5")
    @@ AsciiBelow({"CP949"}, "cp949")
    @@ AsciiBelow({"Emacs-Mule", "stateless-ISO-2022-JP", "stateless-ISO-2022-JP-KDDI"}, "emacs_mule")
    @@ AsciiBelow({"EUC-KR", "GB12345", "GB2312"}, "euc_kr")
    @@ AsciiBelow({"EUC-TW"}, "euc_tw") @@ AsciiBelow({"GB18030"}, "gb18030") @@ AsciiBelow({"GBK"}, "gbk")
    @@ Family({"US-ASCII"}, Encoding("ascii", "table", "table"))
    @@ Family(DOMAIN RBS_ENCODING_TABLES, Encoding("single", "table", "table"))

WidthBy(family, b) ==
    CASE family = "utf_8" -> rbs_encoding_utf_8_char_width(b)
      [] family = "single" -> 1
      [] family = "ascii" -> rbs_encoding_ascii_char_width(b)
      [] family = "cesu_8" -> rbs_encoding_cesu_8_char_width(b)
      [] family = "euc_jp" -> rbs_encoding_euc_jp_char_width(b)
      [] family = "shift_jis" -> rbs_encoding_shift_jis_char_width(b)
      [] family = "big5" -> rbs_encoding_big5_char_width(b)
      [] family = "cp949" -> rbs_encoding_cp949_char_width(b)
      [] family = "emacs_mule" -> rbs_encoding_emacs_mule_char_width(b)
      [] family = "euc_kr" -> rbs_encoding_euc_kr_char_width(b)
      [] family = "euc_tw" -> rbs_encoding_euc_tw_char_width(b)
      [] family = "gb18030" -> rbs_encoding_gb18030_char_width(b)
      [] family = "gbk" -> rbs_encoding_gbk_char_width(b)
char_width(encoding, b) == WidthBy(rbs_encodings[encoding].char_width, b)

AlphaBy(family, encoding, b) ==
    CASE family = "utf_8" -> rbs_encoding_utf_8_alpha_char(rbs_utf_8_codepoint(b))
      [] family = "cesu_8" -> rbs_encoding_utf_8_alpha_char(rbs_cesu_8_codepoint(b))
      [] family = "shift_jis" -> rbs_encoding_shift_jis_alpha_char(b)
      [] family = "ascii_7bit" -> rbs_encoding_ascii_alpha_char_7bit(b)
      [] OTHER -> OneIf(RBS_ENCODING_TABLES[encoding][b[1]].alphabetic)
alpha_char(encoding, b) == AlphaBy(rbs_encodings[encoding].classes, encoding, b)

AlnumBy(family, encoding, b) ==
    CASE family = "utf_8" -> rbs_encoding_utf_8_alnum_char(rbs_utf_8_codepoint(b))
      [] family = "cesu_8" -> rbs_encoding_utf_8_alnum_char(rbs_cesu_8_codepoint(b))
      [] family = "shift_jis" -> rbs_encoding_shift_jis_alnum_char(b)
      [] family = "ascii_7bit" -> rbs_encoding_ascii_alnum_char_7bit(b)
      [] OTHER -> OneIf(RBS_ENCODING_TABLES[encoding][b[1]].alphanumeric)
alnum_char(encoding, b) == AlnumBy(rbs_encodings[encoding].classes, encoding, b)

IsUpperBy(family, encoding, b) ==
    CASE family = "utf_8" -> rbs_encoding_utf_8_isupper_char(rbs_utf_8_codepoint(b))
      [] family = "cesu_8" -> rbs_encoding_utf_8_isupper_char(rbs_cesu_8_codepoint(b))
      [] family = "shift_jis" -> rbs_encoding_shift_jis_isupper_char(b)
      [] family = "euc_jp" -> rbs_encoding_euc_jp_isupper_char(b)
      [] family = "ascii_7bit" -> rbs_encoding_ascii_isupper_char_7bit(b)
      [] OTHER -> RBS_ENCODING_TABLES[encoding][b[1]].uppercase
isupper_char(encoding, b) == IsUpperBy(rbs_encodings[encoding].isupper, encoding, b)

(***************************************************************************)
(* Finding an encoding by its name.                                        *)
(***************************************************************************)
LOCAL tolower(byte) == IF byte \in 65..90 THEN byte + 32 ELSE byte
LOCAL Lowered(bytes) == [i \in DOMAIN bytes |-> tolower(bytes[i])]

(* Do the first "length" bytes agree, the case of letters aside?  A NUL in the first ends it. *)
rbs_strncasecmp(string1, string2, length) ==
    LET upto == Min({length} \cup {i - 1 : i \in {j \in DOMAIN string1 : string1[j] = 0}})
    IN  /\ upto <= Len(string2)
        /\ Lowered(SubSeq(string1, 1, upto)) = Lowered(SubSeq(string2, 1, upto))

(* The names tried for each first letter, with the encoding each stands for. *)
LOCAL Named(names) == {<<name, name>> : name \in names}
ENCODING ==
    Code("a") :> (Named({
            "ASCII-8BIT"}) \cup {
            <<"ASCII", "US-ASCII">>, <<"ANSI_X3.4-1968", "US-ASCII">>}) @@
    Code("b") :> (Named({
            "Big5", "Big5-HKSCS", "Big5-UAO"}) \cup {
            <<"BINARY", "ASCII-8BIT">>, <<"Big5-HKSCS:2008", "Big5-HKSCS">>}) @@
    Code("c") :> (Named({
            "CESU-8", "CP850", "CP852", "CP855", "CP949", "CP950", "CP951", "CP51932"}) \cup {
            <<"CP65001", "UTF-8">>, <<"CP932", "Windows-31J">>, <<"csWindows31J", "Windows-31J">>,
            <<"CP437", "IBM437">>, <<"CP720", "IBM720">>, <<"CP737", "IBM737">>,
            <<"CP775", "IBM775">>, <<"CP857", "IBM857">>, <<"CP860", "IBM860">>,
            <<"CP861", "IBM861">>, <<"CP862", "IBM862">>, <<"CP864", "IBM864">>,
            <<"CP865", "IBM865">>, <<"CP866", "IBM866">>, <<"CP869", "IBM869">>,
            <<"CP874", "Windows-874">>, <<"CP878", "KOI8-R">>, <<"CP863", "IBM863">>,
            <<"CP936", "GBK">>, <<"CP1250", "Windows-1250">>, <<"CP1251", "Windows-1251">>,
            <<"CP1252", "Windows-1252">>, <<"CP1253", "Windows-1253">>,
            <<"CP1254", "Windows-1254">>, <<"CP1255", "Windows-1255">>,
            <<"CP1256", "Windows-1256">>, <<"CP1257", "Windows-1257">>,
            <<"CP1258", "Windows-1258">>}) @@
    Code("e") :> (Named({
            "EUC-JP", "eucJP-ms", "EUC-JIS-2004", "EUC-KR", "EUC-TW", "Emacs-Mule"}) \cup {
            <<"eucJP", "EUC-JP">>, <<"euc-jp-ms", "eucJP-ms">>,
            <<"EUC-JISX0213", "EUC-JIS-2004">>, <<"eucKR", "EUC-KR">>, <<"EUC-CN", "GB2312">>,
            <<"eucCN", "GB2312">>, <<"eucTW", "EUC-TW">>}) @@
    Code("g") :> (Named({
            "GBK", "GB12345", "GB18030", "GB1988", "GB2312"})) @@
    Code("i") :> (Named({
            "IBM437", "IBM720", "IBM737", "IBM775", "IBM852", "IBM855", "IBM857", "IBM860",
            "IBM861", "IBM862", "IBM863", "IBM864", "IBM865", "IBM866", "IBM869", "ISO-8859-1",
            "ISO-8859-2", "ISO-8859-3", "ISO-8859-4", "ISO-8859-5", "ISO-8859-6", "ISO-8859-7",
            "ISO-8859-8", "ISO-8859-9", "ISO-8859-10", "ISO-8859-11", "ISO-8859-13",
            "ISO-8859-14", "ISO-8859-15", "ISO-8859-16"}) \cup {
            <<"IBM850", "CP850">>, <<"ISO8859-1", "ISO-8859-1">>, <<"ISO8859-2", "ISO-8859-2">>,
            <<"ISO8859-3", "ISO-8859-3">>, <<"ISO8859-4", "ISO-8859-4">>,
            <<"ISO8859-5", "ISO-8859-5">>, <<"ISO8859-6", "ISO-8859-6">>,
            <<"ISO8859-7", "ISO-8859-7">>, <<"ISO8859-8", "ISO-8859-8">>,
            <<"ISO8859-9", "ISO-8859-9">>, <<"ISO8859-10", "ISO-8859-10">>,
            <<"ISO8859-11", "ISO-8859-11">>, <<"ISO8859-13", "ISO-8859-13">>,
            <<"ISO8859-14", "ISO-8859-14">>, <<"ISO8859-15", "ISO-8859-15">>,
            <<"ISO8859-16", "ISO-8859-16">>}) @@
    Code("k") :> (Named({
            "KOI8-R", "KOI8-U"})) @@
    Code("m") :> (Named({
            "macCentEuro", "macCroatian", "macCyrillic", "macGreek", "macIceland", "MacJapanese",
            "macRoman", "macRomania", "macThai", "macTurkish", "macUkraine"}) \cup {
            <<"MacJapan", "MacJapanese">>}) @@
    Code("p") :> ({
            <<"PCK", "Windows-31J">>}) @@
    Code("s") :> (Named({
            "Shift_JIS", "SJIS-DoCoMo", "SJIS-KDDI", "SJIS-SoftBank", "stateless-ISO-2022-JP",
            "stateless-ISO-2022-JP-KDDI"}) \cup {
            <<"SJIS", "Windows-31J">>}) @@
    Code("t") :> (Named({
            "TIS-620"})) @@
    Code("u") :> (Named({
            "US-ASCII", "UTF8-MAC", "UTF8-DoCoMo", "UTF8-KDDI", "UTF8-SoftBank"}) \cup {
            <<"UTF-8-HFS", "UTF8-MAC">>}) @@
    Code("w") :> (Named({
            "Windows-31J", "Windows-874", "Windows-1250", "Windows-1251", "Windows-1252",
            "Windows-1253", "Windows-1254", "Windows-1255", "Windows-1256", "Windows-1257",
            "Windows-1258"})) @@
    Code("6") :> ({
            <<"646", "US-ASCII">>})

NoEncoding == "NULL"
LOCAL FindAmong(name, encodings) ==
    LET matching == {row \in encodings[tolower(name[1])] :
                        Len(name) = Len(row[1]) /\ rbs_strncasecmp(name, Ascii(row[1]), Len(name))}
    IN  IF tolower(name[1]) \in DOMAIN encodings /\ matching # {}
        THEN (CHOOSE row \in matching : TRUE)[2]
        ELSE NoEncoding
rbs_encoding_find(name) ==
    CASE Len(name) >= 5 /\ rbs_strncasecmp(name, Ascii("UTF-8"), 5) ->
            IF Len(name) = 9 /\ rbs_strncasecmp(SubSeq(name, 6, 9), Ascii("-HFS"), 4)
            THEN "UTF8-MAC"
            ELSE "UTF-8"
      [] Len(name) < 3 -> NoEncoding
      [] OTHER -> FindAmong(name, ENCODING)
=============================================================================
