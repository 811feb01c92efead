------------------------------- MODULE Screen -------------------------------
(***************************************************************************)
(* The VGA text driver (vga.cpp): the buffer of cells, the cursor and the   *)
(* colour, and what each call does to them under the VGA lock.              *)
(*                                                                          *)
(* A screen is a record. Colours are pairs of foreground and background, a  *)
(* cell is a character and a colour. Without an adapter no store reaches    *)
(* the buffer.                                                              *)
(***************************************************************************)
EXTENDS Text

CONSTANTS VGA_ROWS, VGA_COLS, TabStop

ASSUME ScreenAssumption ==
    /\ {VGA_ROWS, VGA_COLS, TabStop} \subseteq Nat \ {0}
    /\ VGA_COLS % TabStop = 0

Row == 0 .. VGA_ROWS - 1
Col == 0 .. VGA_COLS - 1
Color == (0 .. 15) \X (0 .. 15)
Cell(character, color) == <<character, color>>

(* VGA_COLOR_WHITE on VGA_COLOR_BLACK; the BSS is black on black.           *)
WhiteOnBlack == <<15, 0>>

(* What firmware leaves on the screen.                                      *)
FirmwareCells == [r \in Row |-> [c \in Col |-> Cell("?", <<7, 0>>)]]
ScreenAtReset(present) ==
    [present |-> present, cells |-> FirmwareCells, col |-> 0, row |-> 0,
     color |-> <<0, 0>>, detected |-> FALSE, initialized |-> FALSE]

-----------------------------------------------------------------------------
is_valid_position(row, col) == row \in Row /\ col \in Col
is_valid_color(color) == color \in 0 .. 15

Store(s, row, col, cell) == IF s.present THEN [s EXCEPT !.cells[row][col] = cell] ELSE s

vga_clear_row_internal(s, row) ==
    IF is_valid_position(row, 0) /\ s.present
    THEN [s EXCEPT !.cells[row] = [c \in Col |-> Cell(" ", s.color)]]
    ELSE s

(* Mutant: rows are moved from the last to the first, each over the next    *)
(* source.                                                                  *)
ScrolledDownwards(cells) == [r \in Row |-> cells[VGA_ROWS - 1]]

(* Each row takes the one below it, from the first to the last but one.     *)
Scrolled(cells) == [r \in Row |-> IF r < VGA_ROWS - 1 THEN cells[r + 1] ELSE cells[r]]

vga_newline_internal(s) ==
    IF s.row < VGA_ROWS - 1
    THEN [s EXCEPT !.col = 0, !.row = @ + 1]
    ELSE vga_clear_row_internal(
             [s EXCEPT !.col = 0, !.cells = IF s.present THEN Scrolled(@) ELSE @], VGA_ROWS - 1)

-----------------------------------------------------------------------------
(* The write test finds the adapter and leaves the cell as it was.          *)
vga_detect(s) == [s EXCEPT !.detected = s.present]

vga_init(s) ==
    LET found == IF s.detected THEN s ELSE vga_detect(s)
    IN  IF found.detected
        THEN [found EXCEPT !.color = WhiteOnBlack, !.col = 0, !.row = 0, !.initialized = TRUE]
        ELSE found

vga_clear(s) ==
    IF s.initialized
    THEN [s EXCEPT !.cells = [r \in Row |-> vga_clear_row_internal(s, r).cells[r]],
                   !.col = 0, !.row = 0]
    ELSE s

vga_clear_row(s, row) == IF s.initialized THEN vga_clear_row_internal(s, row) ELSE s

vga_make_color(fg, bg) == <<fg % 16, bg % 16>>

vga_set_color(s, fg, bg) ==
    [s EXCEPT !.color = IF is_valid_color(fg) /\ is_valid_color(bg)
                        THEN vga_make_color(fg, bg)
                        ELSE WhiteOnBlack]

vga_set_cursor(s, col, row) ==
    [s EXCEPT !.col = IF col >= VGA_COLS THEN VGA_COLS - 1 ELSE col,
              !.row = IF row >= VGA_ROWS THEN VGA_ROWS - 1 ELSE row]

vga_advance_cursor(s) ==
    IF s.col + 1 >= VGA_COLS THEN vga_newline_internal(s) ELSE [s EXCEPT !.col = @ + 1]

vga_put_char_at(s, character, col, row, fg, bg) ==
    IF is_valid_position(row, col)
    THEN Store(s, row, col,
               Cell(character, vga_make_color(IF is_valid_color(fg) THEN fg ELSE 15,
                                              IF is_valid_color(bg) THEN bg ELSE 0)))
    ELSE s

-----------------------------------------------------------------------------
(* A tab goes to the next multiple of TabStop, on the next line if that is  *)
(* past the end of this one.                                                *)
Tabbed(s) ==
    LET t == [s EXCEPT !.col = ((@ + TabStop) \div TabStop) * TabStop]
    IN  IF t.col >= VGA_COLS THEN vga_newline_internal(t) ELSE t

(* A line ends only when one more character comes.                          *)
Printed(s, character) ==
    LET t == IF s.col >= VGA_COLS THEN vga_newline_internal(s) ELSE s
    IN  IF is_valid_position(t.row, t.col)
        THEN [Store(t, t.row, t.col, Cell(character, t.color)) EXCEPT !.col = @ + 1]
        ELSE t

PutOne(s, character) ==
    CASE character = LF -> vga_newline_internal(s)
      [] character = CR -> [s EXCEPT !.col = 0]
      [] character = TAB -> Tabbed(s)
      [] OTHER -> Printed(s, character)

vga_put_char(s, character) == IF s.initialized THEN PutOne(s, character) ELSE s

vga_put_string(s, text) ==
    IF s.initialized THEN FoldLeft(PutOne, s, Cut(text, VGA_ROWS * VGA_COLS)) ELSE s

vga_newline(s) == IF s.initialized THEN vga_newline_internal(s) ELSE s

-----------------------------------------------------------------------------
(* Output without the lock, initialised or not.                             *)
vga_put_char_early(s, character, col, row, color) ==
    IF is_valid_position(row, col) THEN Store(s, row, col, Cell(character, color)) ELSE s

(* One character of vga_put_string_early, with the position it keeps itself. *)
EarlyOne(m, character) ==
    CASE m.stopped -> m
      [] character = LF ->
            [m EXCEPT !.col = m.start, !.row = IF @ + 1 < VGA_ROWS THEN @ + 1 ELSE VGA_ROWS - 1]
      [] character = CR -> [m EXCEPT !.col = m.start]
      [] OTHER ->
            IF m.col >= VGA_COLS \/ m.row >= VGA_ROWS
            THEN [m EXCEPT !.stopped = TRUE]
            ELSE [m EXCEPT !.screen = vga_put_char_early(@, character, m.col, m.row, m.color),
                           !.col = @ + 1]

vga_put_string_early(s, text, col, row, color) ==
    FoldLeft(EarlyOne,
             [screen |-> s, col |-> col, row |-> row, start |-> col, color |-> color,
              stopped |-> FALSE],
             Cut(text, VGA_ROWS * VGA_COLS)).screen
=============================================================================
