------------------------------- MODULE Output -------------------------------
(***************************************************************************)
(* The kernel's main line as it finds its output devices, initialises their *)
(* drivers and uses them: main.cpp over the serial driver, the screen with  *)
(* its print functions, the log and the early allocator.                    *)
(*                                                                          *)
(* todo is what the main line has still to do, as a sequence of sections:   *)
(* what it does under one lock, or one store without a lock. An interrupt   *)
(* handler prints between any two of them; under a lock it cannot run. All  *)
(* is on one CPU. A section that writes carries the text that the code      *)
(* makes and the text that the call asks for.                               *)
(***************************************************************************)
EXTENDS OutputSpec, Serial, EarlyAlloc

CONSTANTS
    Texts,                      \* strings to print
    Values32, Values64,         \* numbers to print, and then signed ones
    Signed32, Signed64,
    Formats,                    \* what is logged
    Requests,                   \* arguments of early_alloc_align
    SlabPoolSize,               \* what slab_init asks for
    MaxCalls,                   \* bounds: calls of the main line once it is up,
    MaxPrints,                  \* lines that handlers print,
    MaxTimeouts                 \* and transmissions that time out

ASSUME OutputAssumption ==
    /\ Texts \subseteq Seq(STRING)
    /\ \A format \in Formats :
           /\ format \in Seq(Range(format))
           /\ \A item \in Range(format) : item[2] \in Arguments(item[1])
    /\ Values32 \subseteq 0 .. Word32 - 1 /\ Values64 \subseteq 0 .. Word64 - 1
    /\ Signed32 \subseteq -(Word32 \div 2) .. Word32 \div 2 - 1
    /\ Signed64 \subseteq -(Word64 \div 2) .. Word64 \div 2 - 1
    /\ SlabPoolSize \in 0 .. Word32 - 1
    /\ Requests \subseteq (0 .. SizeWord - 1) \X (0 .. SizeWord - 1)
    /\ {MaxCalls, MaxPrints, MaxTimeouts} \subseteq Nat

VARIABLES
    serial,     \* g_serial_state
    uart,       \* the UART of COM1
    screen,     \* vga_buffer, the cursor, the colour, vga_initialized
    log,        \* g_log_initialized, g_log_level
    pool,       \* g_early_pool, g_early_size, g_early_used
    todo,       \* the sections that the main line has still to run
    handlers,   \* interrupts are on and have handlers that print
    calls, prints, timeouts,
    reported,   \* history: what the serial calls were to send, as far as they
                \* reported it sent
    unsent,     \* history: a write has timed out since failed was last cleared
    rate,       \* history: the divisor of the last initialisation
    page,       \* history: what was printed, on a page without end
    blocks      \* history: the blocks of the early allocator

devices == <<serial, uart, screen>>
counted == <<calls, prints, timeouts>>
history == <<reported, unsent, rate, page, blocks>>
vars == <<devices, log, pool, todo, handlers, counted, history>>

-----------------------------------------------------------------------------
(* The functions that write, as sections. A number is written with what it  *)
(* says; a negative one in two sections.                                    *)
SerialText(text, says) == << <<"serial", text, says>> >>
serial_write_str(text) == SerialText(text, text)
serial_write_char(character) == serial_write_str(<<character>>)
serial_write_hex(v) == SerialText(uint32_to_hex_string(v), SaysHex(v % Word32, HexDigits32))
serial_write_dec(v) == SerialText(uint32_to_decimal_string(v), SaysNumber(v % Word32, Ten))
serial_write_hex64(v) == SerialText(uint64_to_hex_string(v), SaysHex(v, HexDigits64))
serial_write_dec64(v) == SerialText(uint64_to_decimal_string(v), SaysNumber(v, Ten))
SerialNegative(v) ==
    serial_write_char("-")
        \o SerialText(uint64_to_decimal_string(Magnitude(v, Word64)), Tail(SaysSigned(v)))
serial_write_dec_signed(v) == IF v < 0 THEN SerialNegative(v) ELSE serial_write_dec(v)
serial_write_dec64_signed(v) == IF v < 0 THEN SerialNegative(v) ELSE serial_write_dec64(v)

ScreenText(text, says) == << <<"print", text, says>> >>
print_str(text) == ScreenText(text, text)
print_char(character) == << <<"put_char", character>> >>
print_hex(v) == ScreenText(uint32_to_hex_string(v), SaysHex(v % Word32, HexDigits32))
print_dec(v) == ScreenText(uint32_to_decimal_string(v), SaysNumber(v % Word32, Ten))
print_hex64(v) == ScreenText(uint64_to_hex_string(v), SaysHex(v, HexDigits64))
print_dec64(v) == ScreenText(uint64_to_decimal_string(v), SaysNumber(v, Ten))
print_dec_signed(v) ==
    IF v < 0
    THEN print_char("-")
             \o ScreenText(uint32_to_decimal_string(Magnitude(v, Word32)), Tail(SaysSigned(v)))
    ELSE print_dec(v)
print_dec64_signed(v) ==
    IF v < 0
    THEN print_char("-")
             \o ScreenText(uint64_to_decimal_string(Magnitude(v, Word64)), Tail(SaysSigned(v)))
    ELSE print_dec64(v)
print_clear == << <<"clear">> >>
print_newline == << <<"newline">> >>
print_clear_row(row) == << <<"clear_row", row>> >>
print_set_color(fg, bg) == << <<"set_color", fg, bg>> >>
print_set_cursor(col, row) == << <<"set_cursor", col, row>> >>
print_advance_cursor == << <<"advance_cursor">> >>
put_char_at(character, col, row, fg, bg) == << <<"put_char_at", character, col, row, fg, bg>> >>

log_output(level, directory, name, line, format) ==
    << <<"log", level,
         build_output_string(level, directory \o name, line, build_message(format)),
         <<LevelName(level)>> \o name \o SaysNumber(line, Ten) \o SaysMessage(format) \o CRLF>> >>
log_output_simple(level, format) ==
    << <<"log", level,
         build_simple_output_string(level, build_message(format)),
         <<LevelName(level)>> \o SaysMessage(format) \o CRLF>> >>
LOG_INFO(format) == log_output(1, <<"s", "/">>, <<"m">>, 1, format)

-----------------------------------------------------------------------------
(* kernel_main, its messages a character each.                              *)
Message(character) == <<Item("literal", character)>>
halt == << <<"halt">> >>
interrupts_enable == << <<"handlers", TRUE>> >>
early_panic(message) == << <<"early_panic", message>> >> \o halt

early_alloc(size, alignment) == << <<"early_alloc_align", size, alignment>> >>
slab_init ==
    early_alloc(SlabPoolSize, EARLY_ALLOC_ALIGNMENT) \o serial_write_dec(SlabPoolSize)

kernel_main == serial_init("COM1", 115200) \o << <<"choose_output">> >>

(* Serial failed: the messages that main has for the screen. print_init has *)
(* not been called, and so none of them gets there.                         *)
VgaOnly ==
    << <<"detect">> >> \o print_clear \o print_set_color(14, 0) \o print_str(<<"F", CR, LF>>)
        \o print_hex(serial.error_code) \o print_dec(serial.timeout_count) \o halt

SerialMode ==
    serial_write_str(<<"b">>) \o << <<"warn_if_failed">>, <<"detect">>, <<"start_vga">>, <<"log_init">> >>
        \o LOG_INFO(Message("k")) \o << <<"banner">> >>
        \o interrupts_enable \o << <<"early_alloc_init">> >> \o slab_init

ChooseOutput ==
    IF serial.initialized = 1 THEN SerialMode
    ELSE IF screen.present THEN VgaOnly ELSE early_panic(<<"N">>)

StartVga ==
    IF screen.detected
    THEN << <<"init">> >> \o print_clear \o print_set_color(10, 0) \o serial_write_str(<<"v">>)
    ELSE serial_write_str(<<"w">>)

early_alloc_print_stats ==
    serial_write_dec(pool.size) \o serial_write_dec(pool.used)
        \o serial_write_dec(pool.size - pool.used)
        \o IF pool.size > 0 THEN serial_write_dec((pool.used * 100) \div pool.size) ELSE <<>>

(* The sections that turn out to be others.                                 *)
Decision(section) ==
    CASE section[1] = "choose_output" -> ChooseOutput
      [] section[1] = "warn_if_failed" ->
            IF serial.failed = 1 THEN serial_write_str(<<"e">>) ELSE <<>>
      [] section[1] = "start_vga" -> StartVga
      [] section[1] = "banner" -> IF screen.detected THEN print_str(<<"W", CR, LF>>) ELSE <<>>
      [] section[1] = "serial_init" ->
            IF Acceptable(uart, section[2], section[3])
            THEN InitStores(section[2], section[3])
            ELSE InitFailed
      [] section[1] = "reinit_result" -> IF serial.initialized = 0 THEN InitFailed ELSE <<>>
      [] section[1] = "stats" -> early_alloc_print_stats
Decisions ==
    {"choose_output", "warn_if_failed", "start_vga", "banner", "serial_init", "reinit_result", "stats"}

-----------------------------------------------------------------------------
(* Before the kernel: no driver initialised, any device missing, and the    *)
(* BSS as it should be or not.                                              *)
Init ==
    /\ serial = SerialAtReset
    /\ uart \in {UartAtReset(present) : present \in BOOLEAN}
    /\ screen \in {ScreenAtReset(present) : present \in BOOLEAN}
    /\ log = [initialized |-> FALSE, level |-> 0]
    /\ pool = PoolAtReset
    /\ todo \in {kernel_main, early_panic(<<"B">>)}
    /\ handlers = FALSE
    /\ calls = 0 /\ prints = 0 /\ timeouts = 0
    /\ reported = <<>>
    /\ unsent = FALSE
    /\ rate = 0
    /\ page = PageAtReset
    /\ blocks = {}

(* A text written to the serial port: the transmitter is ready in time for  *)
(* its first ready characters.                                              *)
SerialWrite(text, says, ready) ==
    /\ ready < Len(text) => serial.initialized = 1 /\ timeouts < MaxTimeouts
    /\ serial' = SerialAfter(serial, text, ready)
    /\ uart' = UartAfter(serial, uart, text, ready)
    /\ LET sent == Written(serial, text, ready)
       IN  reported' = reported \o (IF sent = Len(text) /\ serial.initialized = 1
                                     THEN says ELSE Cut(says, sent))
    /\ unsent' = (unsent \/ ready < Len(text))
    /\ timeouts' = IF ready < Len(text) THEN timeouts + 1 ELSE timeouts

ScreenWrite(text, says) ==
    /\ screen' = vga_put_string(screen, text)
    /\ page' = IF screen.initialized THEN TypeText(page, says) ELSE page

Logged(level) == log.initialized /\ level >= log.level

LogWrite(section, ready) ==
    IF Logged(section[2])
    THEN SerialWrite(section[3], section[4], ready) /\ ScreenWrite(section[3], section[4])
    ELSE /\ ready = Len(section[3])
         /\ UNCHANGED <<devices, reported, unsent, timeouts, page>>

Write(section, ready) ==
    CASE section[1] = "serial" ->
            SerialWrite(section[2], section[3], ready) /\ UNCHANGED <<screen, page>>
      [] section[1] = "log" -> LogWrite(section, ready)
TextOf(section) == IF section[1] = "log" THEN section[3] ELSE section[2]

-----------------------------------------------------------------------------
(* What a section does to the screen, and what it asks of the page. The     *)
(* tag of early_panic is one character.                                     *)
WhiteOnRed == <<15, 4>>
EarlyPanicOn(s, message) ==
    LET tagged == vga_put_string_early(s, <<"E">>, 0, 0, WhiteOnRed)
        said == vga_put_string_early(tagged, message, 1, 0, WhiteOnRed)
    IN  IF s.present
        THEN [said EXCEPT !.cells[0] = [c \in Col |-> IF c > Len(message) THEN Cell(" ", WhiteOnRed) ELSE @[c]]]
        ELSE s

OnScreen(s) ==
    CASE s[1] = "print" -> vga_put_string(screen, s[2])
      [] s[1] = "put_char" -> vga_put_char(screen, s[2])
      [] s[1] = "clear" -> vga_clear(screen)
      [] s[1] = "newline" -> vga_newline(screen)
      [] s[1] = "clear_row" -> vga_clear_row(screen, s[2])
      [] s[1] = "set_color" -> vga_set_color(screen, s[2], s[3])
      [] s[1] = "set_cursor" -> vga_set_cursor(screen, s[2], s[3])
      [] s[1] = "advance_cursor" -> vga_advance_cursor(screen)
      [] s[1] = "put_char_at" -> vga_put_char_at(screen, s[2], s[3], s[4], s[5], s[6])
      [] s[1] = "detect" -> vga_detect(screen)
      [] s[1] = "init" -> vga_init(screen)
      [] s[1] = "early_panic" -> EarlyPanicOn(screen, s[2])
ScreenSections ==
    {"print", "put_char", "clear", "newline", "clear_row", "set_color", "set_cursor",
     "advance_cursor", "put_char_at", "detect", "init", "early_panic"}

OnPage(s) ==
    CASE s[1] = "print" -> TypeText(page, s[3])
      [] s[1] = "put_char" -> TypeText(page, <<s[2]>>)
      [] s[1] = "clear" -> WipePage(page)
      [] s[1] = "newline" -> EndLine(page)
      [] s[1] = "clear_row" -> IF s[2] \in Row THEN WipeLine(page, s[2]) ELSE page
      [] s[1] = "set_color" -> [page EXCEPT !.color = IF <<s[2], s[3]>> \in Color THEN <<s[2], s[3]>> ELSE WhiteOnBlack]
      [] s[1] = "set_cursor" -> MoveTo(page, IF s[2] \in Col THEN s[2] ELSE VGA_COLS - 1,
                                             IF s[3] \in Row THEN s[3] ELSE VGA_ROWS - 1)
      [] s[1] = "advance_cursor" -> IF page.col + 1 < VGA_COLS THEN [page EXCEPT !.col = @ + 1] ELSE EndLine(page)
      [] s[1] = "put_char_at" ->
            IF s[3] \in Col /\ s[4] \in Row
            THEN Stamp(page, s[3], s[4], <<s[2], <<IF s[5] < 16 THEN s[5] ELSE 15, IF s[6] < 16 THEN s[6] ELSE 0>> >>)
            ELSE page
      [] s[1] = "init" -> [MoveTo(page, 0, 0) EXCEPT !.color = WhiteOnBlack]
      [] s[1] = "early_panic" ->
            [page EXCEPT !.lines[FirstShown(page)] =
                [c \in Col |-> <<CASE c = 0 -> "E" [] c \in DOMAIN s[2] -> s[2][c] [] OTHER -> " ",
                                 WhiteOnRed>>]]
      [] OTHER -> page

(* Without print_init the driver refuses to print, and nothing is asked.    *)
Refused(s) == ~screen.initialized /\ s[1] \in {"print", "put_char", "clear", "newline", "clear_row"}

-----------------------------------------------------------------------------
(* The main line runs its next section.                                     *)
Done == todo' = Tail(todo)
Doing(kinds) == todo # <<>> /\ Head(todo)[1] \in kinds

WriteSection ==
    /\ Doing({"serial", "log"})
    /\ \E ready \in 0 .. Len(TextOf(Head(todo))) : Write(Head(todo), ready)
    /\ Done
    /\ UNCHANGED <<log, pool, handlers, calls, prints, rate, blocks>>

ScreenSection ==
    /\ Doing(ScreenSections)
    /\ screen' = OnScreen(Head(todo))
    /\ page' = IF Refused(Head(todo)) \/ (Head(todo)[1] = "init" /\ ~screen.present)
               THEN page ELSE OnPage(Head(todo))
    /\ Done
    /\ UNCHANGED <<serial, uart, log, pool, handlers, counted, reported, unsent, rate, blocks>>

(* A store to the driver's state, or to a register of the UART.             *)
StoreSection ==
    /\ Doing({"set", "out"})
    /\ LET field == Head(todo)[2]
           value == Head(todo)[3]
       IN  IF Head(todo)[1] = "set"
           THEN serial' = [serial EXCEPT ![field] = value] /\ UNCHANGED uart
           ELSE uart' = [uart EXCEPT ![field] = value] /\ UNCHANGED serial
    /\ unsent' = (unsent /\ Head(todo) # Set("failed", 0))
    /\ Done
    /\ UNCHANGED <<screen, log, pool, handlers, counted, reported, rate, page, blocks>>

Decide ==
    /\ Doing(Decisions)
    /\ todo' = Decision(Head(todo)) \o Tail(todo)
    /\ rate' = IF Head(todo)[1] = "serial_init" /\ Acceptable(uart, Head(todo)[2], Head(todo)[3])
               THEN 115200 \div Head(todo)[3] ELSE rate
    /\ UNCHANGED <<devices, log, pool, handlers, counted, reported, unsent, page, blocks>>

(* log_init sets the level and then logs; log_set_level clamps.             *)
LogSection ==
    /\ Doing({"log_init", "log_set_level"})
    /\ IF Head(todo)[1] = "log_init"
       THEN /\ log' = [initialized |-> TRUE, level |-> 0]
            /\ todo' = LOG_INFO(Message("l")) \o Tail(todo)
       ELSE /\ log' = [log EXCEPT !.level = IF Head(todo)[2] > 4 THEN 4
                                            ELSE IF Head(todo)[2] < 0 THEN 0 ELSE Head(todo)[2]]
            /\ Done
    /\ UNCHANGED <<devices, pool, handlers, counted, history>>

(* sti; and, around a test that reprograms the open port, what the kernel   *)
(* then relies on: no handler of its own prints.                            *)
HandlersSection ==
    /\ Doing({"handlers"})
    /\ handlers' = Head(todo)[2]
    /\ Done
    /\ UNCHANGED <<devices, log, pool, counted, history>>

PoolSection ==
    /\ Doing({"early_alloc_init"})
    /\ pool' = early_alloc_init_default(pool)
    /\ Done
    /\ UNCHANGED <<devices, log, handlers, counted, history>>

(* A request, and what it reports if it fails.                              *)
AllocSection ==
    /\ Doing({"early_alloc_align"})
    /\ LET size == Head(todo)[2]
           alignment == Head(todo)[3]
           got == early_alloc_align(pool, size, alignment)
       IN  /\ pool' = got.pool
           /\ blocks' = IF got.ptr = NULL THEN blocks
                        ELSE blocks \union {[at |-> got.ptr, size |-> size, alignment |-> alignment]}
           /\ todo' = (CASE got.ptr # NULL \/ ~pool.initialized -> <<>>
                         [] TooLarge(pool, UsableSize(size)) ->
                               serial_write_dec(UsableSize(size)) \o serial_write_dec(pool.size)
                         [] OTHER -> serial_write_dec(UsableSize(size)))
                      \o Tail(todo)
    /\ UNCHANGED <<devices, log, handlers, counted, reported, unsent, rate, page>>

-----------------------------------------------------------------------------
log_set_level(level) == << <<"log_set_level", level>> >>
test_serial_baud_rates(baud) ==
    << <<"handlers", FALSE>> >> \o serial_init("COM1", baud) \o interrupts_enable

SerialCalls ==
    {serial_write_str(t) : t \in Texts}
        \union (UNION {{serial_write_hex(v), serial_write_dec(v)} : v \in Values32})
        \union (UNION {{serial_write_hex64(v), serial_write_dec64(v)} : v \in Values64})
        \union {serial_write_dec_signed(v) : v \in Signed32}
        \union {serial_write_dec64_signed(v) : v \in Signed64}
        \union {serial_write_null, serial_clear_error}
        \union {serial_reinit(port, baud) : port \in {"COM1", "COM2"}, baud \in {0, 110}}
        \union {test_serial_baud_rates(baud) : baud \in {50, 9600}}

ScreenCalls ==
    {print_str(t) : t \in Texts}
        \union (UNION {{print_hex(v), print_dec(v)} : v \in Values32})
        \union (UNION {{print_hex64(v), print_dec64(v)} : v \in Values64})
        \union {print_dec_signed(v) : v \in Signed32}
        \union {print_dec64_signed(v) : v \in Signed64}
        \union {print_char("c"), print_clear, print_newline, print_advance_cursor}
        \union {print_clear_row(row) : row \in {0, VGA_ROWS}}
        \union {print_set_color(1, bg) : bg \in {2, 16}}
        \union {print_set_cursor(1, VGA_ROWS), print_set_cursor(VGA_COLS, 1)}
        \union {put_char_at("a", 1, row, 16, 3) : row \in {1, VGA_ROWS}}

LogCalls ==
    (UNION {{log_output(2, <<"a", "/">>, <<"f">>, 2, f), log_output_simple(1, f)} : f \in Formats})
        \union {log_set_level(level) : level \in {2, 5}}

PoolCalls == {early_alloc(r[1], r[2]) : r \in Requests} \union {<< <<"stats">> >>}

Calls == SerialCalls \union ScreenCalls \union LogCalls \union PoolCalls

(* Once it is up, the main line calls what it likes; a handler prints a     *)
(* line to the serial port or to the log.                                   *)
Call ==
    /\ todo = <<>>
    /\ calls < MaxCalls
    /\ todo' \in Calls
    /\ calls' = calls + 1
    /\ UNCHANGED <<devices, log, pool, handlers, prints, timeouts, history>>

HandlerCalls ==
    {serial_write_str(<<"i">>)[1], log_output(3, <<>>, <<"h">>, 1, Message("j"))[1]}

HandlerPrints ==
    /\ handlers
    /\ prints < MaxPrints
    /\ \E section \in HandlerCalls :
           \E ready \in 0 .. Len(TextOf(section)) : Write(section, ready)
    /\ prints' = prints + 1
    /\ UNCHANGED <<log, pool, todo, handlers, calls, rate, blocks>>

Next ==
    \/ WriteSection \/ ScreenSection \/ StoreSection \/ Decide
    \/ LogSection \/ HandlersSection \/ PoolSection \/ AllocSection
    \/ Call \/ HandlerPrints

Spec == Init /\ [][Next]_vars

-----------------------------------------------------------------------------
(* What went out on the serial line is what the calls asked for, as far as  *)
(* they report to have sent it, in the order of their critical sections:    *)
(* every number with the digits of its value, in words of the least and the *)
(* greatest values too, every log line whole or marked as cut, nothing      *)
(* twice, nothing lost, and nothing stored to the divisor, which stays the  *)
(* one of the last initialisation. A timeout shows in the failed flag until *)
(* somebody clears it (serial.cpp, decimal_utils.h, hex_utils.h, log.cpp).  *)
Initialising == \E n \in DOMAIN todo : todo[n] = Set("initialized", 1)
WireShowsReports ==
    /\ uart.wire = reported
    /\ serial.initialized = 1 /\ ~Initialising => ~uart.dlab /\ uart.dll + 256 * uart.dlm = rate
    /\ unsent => serial.failed = 1

(* The screen shows the last lines of all that was printed, where it was    *)
(* printed and in its colours, and the cursor where printing will go on:    *)
(* scrolling, wrapping at the end of a line, tabs and clearing lose and     *)
(* repeat nothing (vga.cpp, print.cpp).                                     *)
ScreenShowsPage ==
    screen.present =>
        /\ \A r \in Row : screen.cells[r] = page.lines[FirstShown(page) + r]
        /\ screen.initialized =>
               /\ screen.row = page.line - FirstShown(page)
               /\ screen.col = page.col
               /\ screen.color = page.color

(* Blocks of the early allocator are aligned as asked, inside the pool and  *)
(* disjoint, whatever was asked of it before, and what it calls used ends   *)
(* exactly where its last block ends, with nothing used before the first:   *)
(* no request, failed or served, takes more than its padding and its size   *)
(* (early_alloc_align).                                                     *)
Bytes(block) == block.at .. block.at + UsableSize(block.size) - 1
EarlyBlocksDisjoint ==
    /\ \A b \in blocks :
           /\ b.at % UsableAlignment(b.alignment) = 0
           /\ Bytes(b) \subseteq pool.base .. pool.base + pool.used - 1
    /\ \A b, c \in blocks : b # c => Bytes(b) \intersect Bytes(c) = {}
    /\ IF blocks = {}
       THEN pool.used = 0
       ELSE \E b \in blocks : pool.base + pool.used = b.at + UsableSize(b.size)
    /\ pool.used <= pool.size
=============================================================================
