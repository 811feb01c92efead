-------------------------------- MODULE Text --------------------------------
(***************************************************************************)
(* How the kernel turns numbers and log calls into text: decimal_utils.h,   *)
(* hex_utils.h and the helpers of log.cpp.                                  *)
(*                                                                          *)
(* A text is a sequence of characters. The radix of decimal numbers, the    *)
(* values of a hexadecimal digit and the widths of words are constants, to  *)
(* let TLC reach the largest values of small words.                         *)
(***************************************************************************)
EXTENDS Integers, SequencesExt, FiniteSetsExt

CONSTANTS
    Ten,                        \* the radix of decimal numbers
    Nibble,                     \* the values of one hexadecimal digit
    Word32, Word64,             \* the values of uint32_t and uint64_t
    DECIMAL_UINT32_MAX_DIGITS,
    DECIMAL_UINT64_MAX_DIGITS,
    HexDigits32, HexDigits64,   \* nibbles of uint32_t and uint64_t
    LOG_BUFFER_SIZE,
    Margin                      \* what log_output's buffer has beyond that

ASSUME TextAssumption ==
    /\ Ten \in 2 .. 16 /\ Nibble \in 2 .. 16
    /\ Word32 \in Nat \ (0 .. 2) /\ Word64 \in Nat /\ Word32 < Word64
    /\ {DECIMAL_UINT32_MAX_DIGITS, DECIMAL_UINT64_MAX_DIGITS, HexDigits32, HexDigits64} \subseteq Nat
    /\ LOG_BUFFER_SIZE \in Nat \ (0 .. 3)
    /\ Margin \in Nat \ (0 .. 5)    \* room for the rest of the kernel's lines

LF == "\n"
CR == "\r"
TAB == "\t"
CRLF == <<CR, LF>>

Digit(d) == <<"0", "1", "2", "3", "4", "5", "6", "7",
              "8", "9", "A", "B", "C", "D", "E", "F">>[d + 1]

Cut(text, room) == SubSeq(text, 1, IF Len(text) < room THEN Len(text) ELSE room)

-----------------------------------------------------------------------------
(* Numbers: the loops that divide until nothing is left, the last digit     *)
(* found first and written rightmost.                                       *)
Digits(value, radix) ==
    LET digits[v \in Nat] ==
            IF v = 0 THEN <<>> ELSE Append(digits[v \div radix], Digit(v % radix))
    IN  digits[value]

(* Mutant: zero is left to the loop.                                        *)
NumeralNoZero(value, radix) == Digits(value, radix)

Numeral(value, radix) == IF value = 0 THEN <<"0">> ELSE Digits(value, radix)

(* No number without all its digits.                                        *)
decimal_string(value, most) ==
    LET text == Numeral(value, Ten) IN IF Len(text) > most THEN <<>> ELSE text
uint32_to_decimal_string(value) == decimal_string(value % Word32, DECIMAL_UINT32_MAX_DIGITS)
uint64_to_decimal_string(value) == decimal_string(value % Word64, DECIMAL_UINT64_MAX_DIGITS)

(* value >> (4 * nibbles).                                                  *)
Shift(value, nibbles) ==
    LET shifted[n \in Nat] == IF n = 0 THEN value ELSE shifted[n - 1] \div Nibble
    IN  shifted[nibbles]

hex_string(value, width) ==
    <<"0", "x">> \o [i \in 1 .. width |-> Digit(Shift(value, width - i) % Nibble)]
uint32_to_hex_string(value) == hex_string(value % Word32, HexDigits32)
uint64_to_hex_string(value) == hex_string(value % Word64, HexDigits64)

(* The greatest values have room in the buffers and in the fixed widths, and *)
(* what %x makes of one is not longer than the longest decimal number.      *)
ASSUME NumbersFit ==
    /\ Len(Numeral(Word32 - 1, Ten)) <= DECIMAL_UINT32_MAX_DIGITS
    /\ Len(Numeral(Word64 - 1, Ten)) <= DECIMAL_UINT64_MAX_DIGITS
    /\ Len(Numeral(Word32 - 1, Nibble)) <= DECIMAL_UINT64_MAX_DIGITS
    /\ Shift(Word32 - 1, HexDigits32) = 0 /\ Shift(Word64 - 1, HexDigits64) = 0

(* 0 - static_cast<uintN_t>(value).                                         *)
Magnitude(value, word) == (0 - (value % word)) % word

-----------------------------------------------------------------------------
(* Log messages. A format is a sequence of items, a literal character or a  *)
(* conversion with its argument.                                            *)
Item(spec, value) == <<spec, value>>

(* What a conversion takes, 0 standing for nothing.                         *)
Arguments(spec) ==
    CASE spec = "%d" -> -(Word32 \div 2) .. Word32 \div 2 - 1
      [] spec = "%lld" -> -(Word64 \div 2) .. Word64 \div 2 - 1
      [] spec \in {"%u", "%x"} -> 0 .. Word32 - 1
      [] spec \in {"%llu", "%zu", "%llx", "%p"} -> 0 .. Word64 - 1
      [] spec = "%s" -> Seq(STRING)
      [] spec \in {"%%", "%"} -> {0}
      [] OTHER -> STRING

(* (uintN_t)(-(val + 1)) + 1.                                               *)
SafeNegation(value, word) == ((-(value + 1)) % word) + 1

signed_text(value, word) ==
    IF value < 0 THEN <<"-">> \o Numeral(SafeNegation(value, word), Ten) ELSE Numeral(value, Ten)
append_hex(value) == <<"0", "x">> \o Numeral(value, Nibble)

(* format_append_arg, and the two-character conversions of build_message; a *)
(* % that ends the format says nothing, any other letter is given back with *)
(* what it follows, a % or, for "%ll", a % and the two letters.             *)
ItemText(item) ==
    CASE item[1] = "literal" -> <<item[2]>>
      [] item[1] = "%d" -> signed_text(item[2], Word32)
      [] item[1] = "%lld" -> signed_text(item[2], Word64)
      [] item[1] \in {"%u", "%llu", "%zu"} -> Numeral(item[2], Ten)
      [] item[1] = "%x" -> append_hex(item[2])
      [] item[1] \in {"%llx", "%p"} -> hex_string(item[2], HexDigits64)
      [] item[1] = "%s" -> item[2]
      [] item[1] = "%c" -> <<item[2]>>
      [] item[1] = "%%" -> <<"%">>
      [] item[1] = "%" -> <<>>
      [] item[1] = "%ll" -> <<"%", "l", "l", item[2]>>
      [] OTHER -> <<"%", item[2]>>

(* One round of the loop of build_message: once the buffer is full, what is *)
(* left of the format is not looked at.                                     *)
AppendItem(message, item) ==
    IF Len(message.text) = LOG_BUFFER_SIZE - 1
    THEN [message EXCEPT !.left = TRUE]
    ELSE [message EXCEPT !.text = Cut(@ \o ItemText(item), LOG_BUFFER_SIZE - 1)]

(* Mutant: the mark is put after the text.                                  *)
build_messageMarkAfter(format) ==
    LET message == FoldLeft(AppendItem, [text |-> <<>>, left |-> FALSE], format)
    IN  IF message.left THEN message.text \o <<".", ".", ".">> ELSE message.text

(* "..." takes the place of the last characters if the format has some left. *)
build_message(format) ==
    LET message == FoldLeft(AppendItem, [text |-> <<>>, left |-> FALSE], format)
    IN  IF message.left
        THEN Cut(message.text, Len(message.text) - 3) \o <<".", ".", ".">>
        ELSE message.text

extract_filename(file) ==
    LET slashes == {i \in DOMAIN file : file[i] \in {"/", "\\"}}
    IN  SubSeq(file, Max(slashes \union {0}) + 1, Len(file))

(* The line, but for its brackets and colons; the level's name is one       *)
(* character here.                                                          *)
LevelName(level) == <<"D", "I", "W", "E", "P">>[level + 1]
build_output_string(level, file, line, message) ==
    Cut(<<LevelName(level)>> \o extract_filename(file) \o Numeral(line, Ten) \o message \o CRLF,
        LOG_BUFFER_SIZE + Margin - 1)
build_simple_output_string(level, message) ==
    Cut(<<LevelName(level)>> \o message \o CRLF, LOG_BUFFER_SIZE + Margin \div 2 - 1)
=============================================================================
