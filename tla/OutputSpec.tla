----------------------------- MODULE OutputSpec -----------------------------
(***************************************************************************)
(* What the output of the kernel promises: the text of each call, and the   *)
(* page that the texts fill, of which the screen shows the last lines.      *)
(***************************************************************************)
EXTENDS Screen

(* The numeral of a value: the one sequence of digits that has this value   *)
(* and does not begin with a superfluous zero.                              *)
ValueOf(digits, radix) ==
    LET value[n \in 0 .. Len(digits)] ==
            IF n = 0 THEN 0 ELSE value[n - 1] * radix + digits[n]
    IN  value[Len(digits)]

Digitals(radix, lengths) == UNION {[1 .. n -> 0 .. radix - 1] : n \in lengths}
Shown(digits) == [n \in DOMAIN digits |-> Digit(digits[n])]

SaysNumber(value, radix) ==
    Shown(CHOOSE s \in Digitals(radix, 1 .. DECIMAL_UINT64_MAX_DIGITS) :
              ValueOf(s, radix) = value /\ (Len(s) > 1 => s[1] # 0))
SaysHex(value, width) ==
    <<"0", "x">> \o Shown(CHOOSE s \in Digitals(Nibble, {width}) : ValueOf(s, Nibble) = value)
SaysSigned(value) ==
    IF value < 0 THEN <<"-">> \o SaysNumber(-value, Ten) ELSE SaysNumber(value, Ten)

-----------------------------------------------------------------------------
SaysItem(item) ==
    CASE item[1] \in {"%d", "%lld"} -> SaysSigned(item[2])
      [] item[1] \in {"%u", "%llu", "%zu"} -> SaysNumber(item[2], Ten)
      [] item[1] = "%x" -> <<"0", "x">> \o SaysNumber(item[2], Nibble)
      [] item[1] \in {"%llx", "%p"} -> SaysHex(item[2], HexDigits64)
      [] OTHER -> ItemText(item)

Says(format) == FlattenSeq([n \in DOMAIN format |-> SaysItem(format[n])])

(* A message is marked if it has no room for an item, even for one that says *)
(* nothing, and cut if it has some.                                         *)
SaysMessage(format) ==
    LET room == LOG_BUFFER_SIZE - 1
        full == Says(format)
    IN  IF format = <<>> \/ Len(Says(Front(format))) < room
        THEN Cut(full, room)
        ELSE Cut(full, room - 3) \o <<".", ".", ".">>

-----------------------------------------------------------------------------
(* The page: all lines since reset, the last VGA_ROWS of them on the screen. *)
PageAtReset ==
    [lines |-> [n \in 1 .. VGA_ROWS |-> FirmwareCells[0]],
     line |-> 1, col |-> 0, color |-> <<0, 0>>]

FirstShown(page) == Len(page.lines) - VGA_ROWS + 1
BlankLine(page) == [c \in Col |-> <<" ", page.color>>]

EndLine(page) ==
    [page EXCEPT !.lines = IF page.line = Len(@) THEN Append(@, BlankLine(page)) ELSE @,
                 !.line = @ + 1, !.col = 0]

TypeCharacter(page, character) ==
    LET next == CHOOSE c \in page.col + 1 .. page.col + TabStop : c % TabStop = 0
        here == IF page.col < VGA_COLS THEN page ELSE EndLine(page)
    IN  CASE character = LF -> EndLine(page)
          [] character = CR -> [page EXCEPT !.col = 0]
          [] character = TAB -> IF next < VGA_COLS THEN [page EXCEPT !.col = next] ELSE EndLine(page)
          [] OTHER -> [here EXCEPT !.lines[here.line][here.col] = <<character, here.color>>,
                                   !.col = @ + 1]

(* A call types no more than a screenful.                                   *)
TypeText(page, text) == FoldLeft(TypeCharacter, page, Cut(text, VGA_ROWS * VGA_COLS))

WipeLine(page, row) == [page EXCEPT !.lines[FirstShown(page) + row] = BlankLine(page)]
WipePage(page) ==
    [page EXCEPT !.lines = [n \in DOMAIN @ |-> IF n < FirstShown(page) THEN @[n] ELSE BlankLine(page)],
                 !.line = FirstShown(page), !.col = 0]
MoveTo(page, col, row) == [page EXCEPT !.line = FirstShown(page) + row, !.col = col]
Stamp(page, col, row, cell) == [page EXCEPT !.lines[FirstShown(page) + row][col] = cell]
=============================================================================
