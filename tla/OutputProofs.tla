---------------------------- MODULE OutputProofs ----------------------------
(***************************************************************************)
(* The output of the kernel: for any pool and any requests the blocks of    *)
(* the early allocator are apart, and for any texts, numbers, formats and   *)
(* sizes the serial line and the screen show what was asked for.            *)
(*                                                                          *)
(* Blocks. Two things make them disjoint. Arithmetic: an aligned address    *)
(* that wraps shows as a padding no pool has room for. And order: the pool  *)
(* is set up once, though the main line may go on to call anything it       *)
(* knows; the section that sets it up leaves none behind it that could do   *)
(* so again (IInv).                                                         *)
(*                                                                          *)
(* Texts. The code makes a text by loops that divide, shift and append; the *)
(* specification chooses the sequence of digits with the right value. The   *)
(* two are the same text: so each section asks for what it writes.          *)
(*                                                                          *)
(* The line. The port is programmed only while no one can write to it, so   *)
(* that no text goes into the divisor (WireInv).                            *)
(*                                                                          *)
(* The screen. Each operation of the driver, on a window of VGA_ROWS lines, *)
(* does what its like does at the end of the page (Agree, PageInv).         *)
(***************************************************************************)
EXTENDS Output, SetLemmas, SequenceTheorems

(* The next multiple is one.                                              *)
LEMMA AlignedIs ==
    ASSUME NEW address \in Nat, NEW alignment \in Nat \ {0}
    PROVE  /\ Aligned(address, alignment) \in 0 .. SizeWord - 1
           /\ Aligned(address, alignment) % alignment = 0
<1>1. SizeWord \in Nat \ {0}
  BY EarlyAllocAssumption
<1>2. PICK sum \in Int : sum = (address + alignment - 1) % SizeWord
  BY <1>1
<1>3. sum \in 0 .. SizeWord - 1
  <2>1. address + alignment - 1 \in Nat
    OBVIOUS
  <2>2. QED  BY <1>1, <1>2, <2>1
<1>4. PICK q \in Nat, r \in 0 .. alignment - 1 : sum = alignment * q + r /\ r = (sum % alignment)
  <2>1. sum \div alignment \in Nat /\ sum % alignment \in 0 .. alignment - 1
    BY <1>3
  <2>2. sum = alignment * (sum \div alignment) + (sum % alignment)
    BY <1>3
  <2>3. QED  BY <2>1, <2>2
<1>5. Aligned(address, alignment) = alignment * q
  <2>1. Aligned(address, alignment) = sum - (sum % alignment)
    BY <1>2 DEF Aligned
  <2>2. sum - (sum % alignment) = sum - r
    BY <1>4
  <2>3. sum - r = alignment * q
    <3>1. alignment * q \in Int /\ r \in Int
      BY <1>4
    <3>2. QED  BY <1>4, <3>1
  <2>4. QED  BY <2>1, <2>2, <2>3
<1>6. (alignment * q) % alignment = 0
  OBVIOUS
<1>7. alignment * q >= 0 /\ alignment * q <= sum
  BY <1>4
<1>8. QED  BY <1>1, <1>3, <1>5, <1>6, <1>7

(* A block that fits comes behind what is used and ends inside the pool.  *)
LEMMA BlockFits ==
    ASSUME NEW used \in 0 .. EARLY_ALLOC_POOL_SIZE, NEW pl,
           pl = [base |-> PoolBase, size |-> EARLY_ALLOC_POOL_SIZE, used |-> used,
                 initialized |-> TRUE],
           NEW alignment \in Nat \ {0}, NEW size \in Nat \ {0},
           ~OutOfMemory(pl, size, alignment)
    PROVE  /\ Padding(pl, alignment) \in Nat
           /\ Aligned(Current(pl), alignment) = PoolBase + used + Padding(pl, alignment)
           /\ used + Padding(pl, alignment) + size <= EARLY_ALLOC_POOL_SIZE
           /\ Aligned(Current(pl), alignment) % alignment = 0
<1>1. /\ SizeWord \in Nat \ {0} /\ PoolBase \in Nat \ {0}
      /\ EARLY_ALLOC_POOL_SIZE \in Nat \ {0}
      /\ PoolBase + EARLY_ALLOC_POOL_SIZE < SizeWord
  BY EarlyAllocAssumption
<1>2. PICK cur \in Nat : cur = PoolBase + used /\ cur < SizeWord
  BY <1>1
<1>3. Current(pl) = cur
  BY <1>1, <1>2 DEF Current
<1>4. PICK at \in 0 .. SizeWord - 1 : at = Aligned(cur, alignment) /\ at % alignment = 0
  BY AlignedIs
<1>5. Padding(pl, alignment) = (at - cur) % SizeWord
  BY <1>3, <1>4 DEF Padding
<1>6. PICK p \in Int : p = Padding(pl, alignment) /\ p = (at - cur) % SizeWord
  BY <1>1, <1>2, <1>5
<1>7. /\ ~(p > EARLY_ALLOC_POOL_SIZE - used)
      /\ ~(size > EARLY_ALLOC_POOL_SIZE - used - p)
  BY <1>6 DEF OutOfMemory
<1>8. at >= cur
  <2>1. SUFFICES ASSUME at < cur PROVE FALSE
    BY <1>2
  <2>2. p = at - cur + SizeWord
    <3>1. at - cur + SizeWord \in 0 .. SizeWord - 1
      BY <1>1, <1>2, <2>1
    <3>2. QED  BY <1>1, <1>2, <1>6, <3>1
  <2>3. QED  BY <1>1, <1>2, <1>7, <2>2
<1>9. p = at - cur
  <2>1. at - cur \in 0 .. SizeWord - 1
    BY <1>1, <1>2, <1>8
  <2>2. QED  BY <1>1, <1>6, <2>1
<1>10. QED  BY <1>1, <1>2, <1>3, <1>4, <1>6, <1>7, <1>8, <1>9

-----------------------------------------------------------------------------
(* What is still to do: sections with sizes and alignments that are numbers, *)
(* and, quiet or booting, no section or one that sets the pool up.        *)
Typed(section) == section[1] = "early_alloc_align" => section[2] \in Nat /\ section[3] \in Nat
Starts(section) == section[1] \in {"choose_output", "early_alloc_init"}
Sections(s) == (\E S : s \in Seq(S)) /\ \A i \in 1 .. Len(s) : Typed(s[i])
Quiet(s) == Sections(s) /\ \A i \in 1 .. Len(s) : ~Starts(s[i])
Booting(s) ==
    /\ Sections(s)
    /\ \A i, j \in 1 .. Len(s) : Starts(s[i]) /\ Starts(s[j]) => i = j

(* One sequence after another.                                            *)
LEMMA Chained ==
    ASSUME NEW s, NEW S, s \in Seq(S), NEW t, NEW T, t \in Seq(T), NEW u, u = s \o t
    PROVE  /\ u \in Seq(S \union T)
           /\ Len(u) = Len(s) + Len(t) /\ Len(s) \in Nat /\ Len(t) \in Nat
           /\ \A i \in 1 .. Len(u) : \/ i \in 1 .. Len(s) /\ u[i] = s[i]
                                     \/ i - Len(s) \in 1 .. Len(t) /\ u[i] = t[i - Len(s)]
<1>1. s \in Seq(S \union T) /\ t \in Seq(S \union T)
  OBVIOUS
<1>2. /\ u \in Seq(S \union T) /\ Len(u) = Len(s) + Len(t)
      /\ \A i \in 1 .. Len(s) + Len(t) : u[i] = IF i <= Len(s) THEN s[i] ELSE t[i - Len(s)]
  BY <1>1
<1>3. QED  BY <1>1, <1>2

(* What is to do stays so when it is put behind what sets nothing up.     *)
LEMMA SectionsChained ==
    ASSUME NEW s, Sections(s), NEW t, Sections(t)
    PROVE  /\ Sections(s \o t)
           /\ Quiet(s) /\ Quiet(t) => Quiet(s \o t)
           /\ Quiet(s) /\ Booting(t) => Booting(s \o t)
           /\ Booting(s) /\ Quiet(t) => Booting(s \o t)
<1>1. PICK u : u = s \o t
  OBVIOUS
<1>2. PICK S : s \in Seq(S)
  BY DEF Sections
<1>3. PICK T : t \in Seq(T)
  BY DEF Sections
<1>4. /\ u \in Seq(S \union T)
      /\ Len(u) = Len(s) + Len(t) /\ Len(s) \in Nat /\ Len(t) \in Nat
      /\ \A i \in 1 .. Len(u) : \/ i \in 1 .. Len(s) /\ u[i] = s[i]
                                \/ i - Len(s) \in 1 .. Len(t) /\ u[i] = t[i - Len(s)]
  BY ONLY <1>1, <1>2, <1>3, Chained
<1>5. Sections(u)
  BY <1>4 DEF Sections
<1>6. Quiet(s) /\ Quiet(t) => Quiet(u)
  BY <1>4, <1>5 DEF Quiet
<1>7. ASSUME Quiet(s), Booting(t), NEW i \in 1 .. Len(u), NEW j \in 1 .. Len(u),
             Starts(u[i]), Starts(u[j])
      PROVE  i = j
  <2>1. /\ i - Len(s) \in 1 .. Len(t) /\ Starts(t[i - Len(s)])
        /\ j - Len(s) \in 1 .. Len(t) /\ Starts(t[j - Len(s)])
    BY <1>4, <1>7 DEF Quiet
  <2>2. i - Len(s) = j - Len(s)
    BY <1>7, <2>1 DEF Booting
  <2>3. QED  BY <1>4, <2>2
<1>8. ASSUME Booting(s), Quiet(t), NEW i \in 1 .. Len(u), NEW j \in 1 .. Len(u),
             Starts(u[i]), Starts(u[j])
      PROVE  i = j
  <2>1. i \in 1 .. Len(s) /\ Starts(s[i]) /\ j \in 1 .. Len(s) /\ Starts(s[j])
    BY <1>4, <1>8 DEF Quiet
  <2>2. QED  BY <1>8, <2>1 DEF Booting
<1>9. QED  BY <1>1, <1>5, <1>6, <1>7, <1>8 DEF Booting

(* One section of its own.                                                *)
LEMMA OneSection ==
    ASSUME NEW x, Typed(x)
    PROVE  /\ Booting(<<x>>)
           /\ ~Starts(x) => Quiet(<<x>>)
<1>1. PICK s : s = <<x>>
  OBVIOUS
<1>2. s \in Seq({x}) /\ Len(s) = 1 /\ s[1] = x
  BY <1>1
<1>3. Sections(s)
  BY <1>2 DEF Sections
<1>4. QED  BY <1>1, <1>2, <1>3 DEF Booting, Quiet

(* Nothing to do.                                                         *)
LEMMA NothingToDo == Quiet(<<>>)
<1>1. <<>> \in Seq({}) /\ Len(<<>>) = 0
  OBVIOUS
<1>2. QED  BY <1>1 DEF Quiet, Sections

(* What is left when the first section is done.                           *)
LEMMA AfterFirst ==
    ASSUME NEW s, Booting(s), s # <<>>
    PROVE  /\ Typed(Head(s)) /\ Booting(Tail(s))
           /\ Starts(Head(s)) => Quiet(Tail(s))
           /\ Quiet(s) => ~Starts(Head(s)) /\ Quiet(Tail(s))
<1>1. PICK S : s \in Seq(S)
  BY DEF Booting, Sections
<1>2. PICK t : t = Tail(s)
  OBVIOUS
<1>3. /\ Len(s) \in Nat /\ Len(s) >= 1 /\ Head(s) = s[1]
      /\ t \in Seq(S) /\ Len(t) = Len(s) - 1
      /\ \A i \in 1 .. Len(t) : t[i] = s[i + 1]
  BY <1>1, <1>2
<1>4. \A i \in 1 .. Len(t) : i + 1 \in 1 .. Len(s) /\ i + 1 # 1
  BY <1>3
<1>5. 1 \in 1 .. Len(s)
  BY <1>3
<1>6. Typed(Head(s)) /\ Sections(t)
  BY <1>3, <1>4, <1>5 DEF Booting, Sections
<1>7. Booting(t)
  <2>1. ASSUME NEW i \in 1 .. Len(t), NEW j \in 1 .. Len(t), Starts(t[i]), Starts(t[j])
        PROVE  i = j
    <3>1. i + 1 = j + 1
      BY <1>3, <1>4, <2>1 DEF Booting
    <3>2. QED  BY <1>3, <3>1
  <2>2. QED  BY <1>6, <2>1 DEF Booting
<1>8. Starts(Head(s)) => Quiet(t)
  BY <1>3, <1>4, <1>5, <1>6 DEF Booting, Quiet
<1>9. Quiet(s) => ~Starts(Head(s)) /\ Quiet(t)
  BY <1>3, <1>4, <1>5, <1>6 DEF Quiet
<1>10. QED  BY <1>2, <1>6, <1>7, <1>8, <1>9

(* Two sequences that set nothing up, one after the other.                *)
LEMMA QuietThen ==
    ASSUME NEW s, Quiet(s), NEW t, Quiet(t)
    PROVE  Quiet(s \o t)
  BY SectionsChained DEF Quiet

(* A section of any kind but three.                                       *)
LEMMA OfKind ==
    ASSUME NEW kind, kind \notin {"early_alloc_align", "choose_output", "early_alloc_init"},
           NEW x, x[1] = kind
    PROVE  Quiet(<<x>>)
<1>1. Typed(x) /\ ~Starts(x)
  BY DEF Typed, Starts
<1>2. QED  BY <1>1, OneSection

(* A sequence of stores.                                                  *)
LEMMA OfStores ==
    ASSUME NEW S, NEW s \in Seq(S),
           \A x \in S : x[1] = "set" \/ x[1] = "out"
    PROVE  Quiet(s)
<1>1. \A i \in 1 .. Len(s) : s[i] \in S
  OBVIOUS
<1>2. ASSUME NEW x \in S PROVE Typed(x) /\ ~Starts(x)
  <2>1. CASE x[1] = "set"
    BY <2>1 DEF Typed, Starts
  <2>2. CASE x[1] = "out"
    BY <2>2 DEF Typed, Starts
  <2>3. QED  BY <2>1, <2>2
<1>3. QED  BY <1>1, <1>2 DEF Quiet, Sections

(* What the main line calls of the serial driver.                         *)
LEMMA SerialQuiet ==
    /\ \A text, says : Quiet(SerialText(text, says))
    /\ \A text : Quiet(serial_write_str(text))
    /\ \A v : Quiet(serial_write_dec(v))
    /\ \A port, baud : Quiet(serial_init(port, baud)) /\ Quiet(InitStores(port, baud))
    /\ Quiet(InitFailed)
    /\ \A call \in SerialCalls : Quiet(call)
<1>1. \A text, says : Quiet(SerialText(text, says))
  BY OfKind DEF SerialText
<1>2. \A text : Quiet(serial_write_str(text)) /\ Quiet(serial_write_char(text))
  BY <1>1 DEF serial_write_str, serial_write_char
<1>3. \A v : /\ Quiet(serial_write_hex(v)) /\ Quiet(serial_write_dec(v))
             /\ Quiet(serial_write_hex64(v)) /\ Quiet(serial_write_dec64(v))
  BY <1>1 DEF serial_write_hex, serial_write_dec, serial_write_hex64, serial_write_dec64
<1>4. \A v : Quiet(SerialNegative(v))
  BY <1>1, <1>2, QuietThen DEF SerialNegative
<1>5. \A v : Quiet(serial_write_dec_signed(v)) /\ Quiet(serial_write_dec64_signed(v))
  BY <1>3, <1>4 DEF serial_write_dec_signed, serial_write_dec64_signed
<1>6. \A field, value : Quiet(<<Set(field, value)>>)
  BY OfKind DEF Set
<1>7. \A port, baud : Quiet(serial_init(port, baud))
  BY OfKind DEF serial_init
<1>8. ASSUME NEW port, NEW baud PROVE Quiet(InitStores(port, baud))
  <2>1. PICK divisor : divisor = 115200 \div baud
    OBVIOUS
  <2>2. PICK a, b, c, d, e, f, g, h, i :
            /\ a = Set("failed", 0) /\ b = Set("error_code", SERIAL_ERROR_NONE)
            /\ c = Set("timeout_count", 0) /\ d = Set("port", port)
            /\ e = <<"out", "dlab", TRUE>> /\ f = <<"out", "dll", divisor % 256>>
            /\ g = <<"out", "dlm", (divisor \div 256) % 256>>
            /\ h = <<"out", "dlab", FALSE>> /\ i = Set("initialized", 1)
    OBVIOUS
  <2>3. InitStores(port, baud) = <<a, b, c, d, e, f, g, h, i>>
    BY <2>1, <2>2 DEF InitStores
  <2>4. <<a, b, c, d, e, f, g, h, i>> \in Seq({a, b, c, d, e, f, g, h, i})
    OBVIOUS
  <2>5. /\ a[1] = "set" /\ b[1] = "set" /\ c[1] = "set" /\ d[1] = "set" /\ i[1] = "set"
        /\ e[1] = "out" /\ f[1] = "out" /\ g[1] = "out" /\ h[1] = "out"
    BY <2>2 DEF Set
  <2>6. PICK s : s = <<a, b, c, d, e, f, g, h, i>>
    OBVIOUS
  <2>7. PICK S : S = {a, b, c, d, e, f, g, h, i}
    OBVIOUS
  <2>8. s \in Seq(S) /\ \A x \in S : x[1] = "set" \/ x[1] = "out"
    BY <2>4, <2>5, <2>6, <2>7
  <2>9. Quiet(s)
    BY ONLY <2>8, OfStores
  <2>10. QED  BY <2>3, <2>6, <2>9
<1>9. ASSUME NEW a, NEW b, a[1] = "set", b[1] = "set" PROVE Quiet(<<a, b>>)
  <2>1. PICK s, S : s = <<a, b>> /\ S = {a, b}
    OBVIOUS
  <2>2. s \in Seq(S) /\ \A x \in S : x[1] = "set" \/ x[1] = "out"
    BY <1>9, <2>1
  <2>3. Quiet(s)
    BY ONLY <2>2, OfStores
  <2>4. QED  BY <2>1, <2>3
<1>10. Quiet(InitFailed) /\ Quiet(serial_write_null) /\ Quiet(serial_clear_error)
  <2>1. \A field, value : Set(field, value)[1] = "set"
    BY DEF Set
  <2>2. QED  BY <1>6, <1>9, <2>1 DEF InitFailed, serial_write_null, serial_clear_error
<1>11. ASSUME NEW port, NEW baud PROVE Quiet(serial_reinit(port, baud))
  <2>1. PICK a, b, c, d : /\ a = Set("failed", 0) /\ b = Set("error_code", SERIAL_ERROR_NONE)
                          /\ c = Set("timeout_count", 0) /\ d = Set("initialized", 0)
    OBVIOUS
  <2>2. PICK s, S : s = <<a, b, c, d>> /\ S = {a, b, c, d}
    OBVIOUS
  <2>3. s \in Seq(S) /\ \A x \in S : x[1] = "set" \/ x[1] = "out"
    BY <2>1, <2>2 DEF Set
  <2>4. Quiet(s)
    BY ONLY <2>3, OfStores
  <2>5. Quiet(<< <<"reinit_result">> >>)
    BY OfKind
  <2>6. serial_reinit(port, baud) =
            (s \o serial_init(port, baud)) \o << <<"reinit_result">> >>
    BY <2>1, <2>2 DEF serial_reinit
  <2>7. QED  BY <1>7, <2>4, <2>5, <2>6, QuietThen
<1>12. Quiet(interrupts_enable) /\ \A baud : Quiet(test_serial_baud_rates(baud))
  BY <1>7, OfKind, QuietThen DEF test_serial_baud_rates, interrupts_enable
<1>13. ASSUME NEW call \in SerialCalls PROVE Quiet(call)
  <2>1. \/ \E t : call = serial_write_str(t)
        \/ \E v : \/ call = serial_write_hex(v) \/ call = serial_write_dec(v)
                  \/ call = serial_write_hex64(v) \/ call = serial_write_dec64(v)
                  \/ call = serial_write_dec_signed(v) \/ call = serial_write_dec64_signed(v)
        \/ call = serial_write_null \/ call = serial_clear_error
        \/ \E port, baud : call = serial_reinit(port, baud)
        \/ \E baud : call = test_serial_baud_rates(baud)
    BY DEF SerialCalls
  <2>2. QED  BY <1>2, <1>3, <1>5, <1>10, <1>11, <1>12, <2>1
<1>14. QED  BY <1>1, <1>2, <1>3, <1>7, <1>8, <1>10, <1>13

(* Of the screen and its print functions.                                 *)
LEMMA ScreenQuiet ==
    /\ \A text : Quiet(print_str(text))
    /\ \A v : Quiet(print_hex(v)) /\ Quiet(print_dec(v))
    /\ \A fg, bg : Quiet(print_set_color(fg, bg))
    /\ Quiet(print_clear)
    /\ \A call \in ScreenCalls : Quiet(call)
<1>1. \A text, says : Quiet(ScreenText(text, says))
  BY OfKind DEF ScreenText
<1>2. \A text : Quiet(print_str(text))
  BY <1>1 DEF print_str
<1>3. \A c : Quiet(print_char(c))
  BY OfKind DEF print_char
<1>4. \A v : /\ Quiet(print_hex(v)) /\ Quiet(print_dec(v))
             /\ Quiet(print_hex64(v)) /\ Quiet(print_dec64(v))
  BY <1>1 DEF print_hex, print_dec, print_hex64, print_dec64
<1>5. \A v : Quiet(print_dec_signed(v)) /\ Quiet(print_dec64_signed(v))
  BY <1>1, <1>3, <1>4, QuietThen DEF print_dec_signed, print_dec64_signed
<1>6. /\ Quiet(print_clear) /\ Quiet(print_newline) /\ Quiet(print_advance_cursor)
  BY OfKind DEF print_clear, print_newline, print_advance_cursor
<1>7. \A row : Quiet(print_clear_row(row))
  BY OfKind DEF print_clear_row
<1>8. \A a, b : Quiet(print_set_color(a, b)) /\ Quiet(print_set_cursor(a, b))
  BY OfKind DEF print_set_color, print_set_cursor
<1>9. \A a, col, row, fg, bg : Quiet(put_char_at(a, col, row, fg, bg))
  BY OfKind DEF put_char_at
<1>10. ASSUME NEW call \in ScreenCalls PROVE Quiet(call)
  <2>1. \/ \E t : call = print_str(t)
        \/ \E v : \/ call = print_hex(v) \/ call = print_dec(v)
                  \/ call = print_hex64(v) \/ call = print_dec64(v)
                  \/ call = print_dec_signed(v) \/ call = print_dec64_signed(v)
        \/ call = print_char("c") \/ call = print_clear \/ call = print_newline
        \/ call = print_advance_cursor
        \/ \E row : call = print_clear_row(row)
        \/ \E a, b : call = print_set_color(a, b) \/ call = print_set_cursor(a, b)
        \/ \E a, col, row, fg, bg : call = put_char_at(a, col, row, fg, bg)
    BY DEF ScreenCalls
  <2>2. QED  BY <1>2, <1>3, <1>4, <1>5, <1>6, <1>7, <1>8, <1>9, <2>1
<1>11. QED  BY <1>2, <1>4, <1>6, <1>8, <1>10

(* Of the log and of the allocator.                                       *)
LEMMA LogQuiet ==
    /\ \A format : Quiet(LOG_INFO(format))
    /\ \A call \in LogCalls : Quiet(call)
<1>1. \A level, directory, name, line, format :
          Quiet(log_output(level, directory, name, line, format))
  BY OfKind DEF log_output
<1>2. \A level, format : Quiet(log_output_simple(level, format))
  BY OfKind DEF log_output_simple
<1>3. \A level : Quiet(log_set_level(level))
  BY OfKind DEF log_set_level
<1>4. ASSUME NEW call \in LogCalls PROVE Quiet(call)
  <2>1. \/ \E f : call = log_output(2, <<"a", "/">>, <<"f">>, 2, f)
        \/ \E f : call = log_output_simple(1, f)
        \/ \E level : call = log_set_level(level)
    BY DEF LogCalls
  <2>2. QED  BY <1>1, <1>2, <1>3, <2>1
<1>5. QED  BY <1>1, <1>4 DEF LOG_INFO

(* A request to the allocator and its report set nothing up.              *)
LEMMA PoolQuiet ==
    /\ \A size, alignment \in Nat : Quiet(early_alloc(size, alignment))
    /\ \A call \in PoolCalls : Quiet(call)
<1>1. ASSUME NEW size \in Nat, NEW alignment \in Nat
      PROVE  Quiet(early_alloc(size, alignment))
  <2>1. PICK x : x = <<"early_alloc_align", size, alignment>>
    OBVIOUS
  <2>2. Typed(x) /\ ~Starts(x)
    BY <2>1 DEF Typed, Starts
  <2>3. QED  BY <2>1, <2>2, OneSection DEF early_alloc
<1>2. Quiet(<< <<"stats">> >>)
  BY OfKind
<1>3. \A r \in Requests : r[1] \in Nat /\ r[2] \in Nat
  <2>1. Requests \subseteq (0 .. SizeWord - 1) \X (0 .. SizeWord - 1)
    BY OutputAssumption, Zenon
  <2>2. QED  BY <2>1
<1>4. QED  BY <1>1, <1>2, <1>3 DEF PoolCalls

(* Whatever the main line calls once it is up.                            *)
LEMMA CallsQuiet == \A call \in Calls : Quiet(call)
  BY SerialQuiet, ScreenQuiet, LogQuiet, PoolQuiet DEF Calls

(* With the serial port up, boot sets the pool up once.                   *)
LEMMA SerialModeBoots == Booting(SerialMode)
<1>1. Quiet(serial_write_str(<<"b">>))
  BY SerialQuiet
<1>2. PICK a, b, c, d : /\ a = <<"warn_if_failed">> /\ b = <<"detect">>
                        /\ c = <<"start_vga">> /\ d = <<"log_init">>
  OBVIOUS
<1>3. PICK s, S : s = <<a, b, c, d>> /\ S = {a, b, c, d}
  OBVIOUS
<1>4. Quiet(s)
  <2>1. s \in Seq(S)
    BY <1>3
  <2>2. /\ Typed(a) /\ ~Starts(a) /\ Typed(b) /\ ~Starts(b)
        /\ Typed(c) /\ ~Starts(c) /\ Typed(d) /\ ~Starts(d)
    BY <1>2 DEF Typed, Starts
  <2>3. \A x \in S : Typed(x) /\ ~Starts(x)
    BY <1>3, <2>2
  <2>4. \A i \in 1 .. Len(s) : s[i] \in S
    BY <2>1
  <2>5. QED  BY <2>1, <2>3, <2>4 DEF Quiet, Sections
<1>5. Quiet(LOG_INFO(Message("k"))) /\ Quiet(<< <<"banner">> >>) /\ Quiet(interrupts_enable)
  BY LogQuiet, OfKind DEF interrupts_enable
<1>6. PICK x : x = <<"early_alloc_init">>
  OBVIOUS
<1>7. Booting(<<x>>)
  <2>1. Typed(x)
    BY <1>6 DEF Typed
  <2>2. QED  BY <2>1, OneSection
<1>8. Quiet(slab_init)
  <2>1. EARLY_ALLOC_ALIGNMENT \in Nat
    BY EarlyAllocAssumption, Zenon
  <2>2. SlabPoolSize \in 0 .. Word32 - 1
    BY OutputAssumption, Zenon
  <2>3. SlabPoolSize \in Nat
    BY <2>2
  <2>4. Quiet(early_alloc(SlabPoolSize, EARLY_ALLOC_ALIGNMENT))
    BY <2>1, <2>3, PoolQuiet
  <2>5. QED  BY <2>4, SerialQuiet, QuietThen DEF slab_init
<1>9. PICK start : start = serial_write_str(<<"b">>) \o s \o LOG_INFO(Message("k"))
                               \o << <<"banner">> >> \o interrupts_enable
  OBVIOUS
<1>10. Quiet(start)
  BY <1>1, <1>4, <1>5, <1>9, QuietThen
<1>11. SerialMode = start \o <<x>> \o slab_init
  BY <1>2, <1>3, <1>6, <1>9 DEF SerialMode
<1>12. Booting(start \o <<x>>)
  BY <1>7, <1>10, SectionsChained DEF Quiet, Booting
<1>13. QED  BY <1>8, <1>11, <1>12, SectionsChained DEF Quiet, Booting

(* What sets nothing up does not do so twice.                             *)
LEMMA QuietBoots == ASSUME NEW s, Quiet(s) PROVE Booting(s)
  BY DEF Quiet, Booting

(* A section that decides what comes next: only the choice of the output  *)
(* can lead to the pool being set up, and once.                           *)
LEMMA DecisionIs ==
    ASSUME NEW x, x[1] \in Decisions
    PROVE  /\ Booting(Decision(x))
           /\ ~Starts(x) => Quiet(Decision(x))
<1>1. Quiet(halt) /\ \A message : Quiet(<< <<"early_panic", message>> >>) /\ Quiet(early_panic(message))
  BY OfKind, QuietThen DEF halt, early_panic
<1>2. CASE x[1] = "choose_output"
  <2>1. Quiet(VgaOnly)
    <3>1. Quiet(<< <<"detect">> >>)
      BY OfKind
    <3>2. QED  BY <1>1, <3>1, ScreenQuiet, QuietThen DEF VgaOnly
  <2>2. Booting(ChooseOutput)
    BY <1>1, <2>1, SerialModeBoots, QuietBoots DEF ChooseOutput
  <2>3. Decision(x) = ChooseOutput /\ Starts(x)
    BY <1>2 DEF Decision, Starts
  <2>4. QED  BY <2>2, <2>3
<1>3. CASE x[1] = "warn_if_failed"
  <2>1. Decision(x) = IF serial.failed = 1 THEN serial_write_str(<<"e">>) ELSE <<>>
    BY <1>3 DEF Decision
  <2>2. QED  BY <2>1, SerialQuiet, NothingToDo, QuietBoots
<1>4. CASE x[1] = "start_vga"
  <2>1. Decision(x) = StartVga
    BY <1>4 DEF Decision
  <2>2. Quiet(<< <<"init">> >>)
    BY OfKind
  <2>3. QED  BY <2>1, <2>2, SerialQuiet, ScreenQuiet, QuietThen, QuietBoots DEF StartVga
<1>5. CASE x[1] = "banner"
  <2>1. Decision(x) = IF screen.detected THEN print_str(<<"W", CR, LF>>) ELSE <<>>
    BY <1>5 DEF Decision
  <2>2. QED  BY <2>1, ScreenQuiet, NothingToDo, QuietBoots
<1>6. CASE x[1] = "serial_init"
  <2>1. Decision(x) = InitStores(x[2], x[3]) \/ Decision(x) = InitFailed
    BY <1>6 DEF Decision
  <2>2. QED  BY <2>1, SerialQuiet, QuietBoots
<1>7. CASE x[1] = "reinit_result"
  <2>1. Decision(x) = IF serial.initialized = 0 THEN InitFailed ELSE <<>>
    BY <1>7 DEF Decision
  <2>2. QED  BY <2>1, SerialQuiet, NothingToDo, QuietBoots
<1>8. CASE x[1] = "stats"
  <2>1. Decision(x) = early_alloc_print_stats
    BY <1>8 DEF Decision
  <2>2. Quiet(early_alloc_print_stats)
    BY SerialQuiet, NothingToDo, QuietThen DEF early_alloc_print_stats
  <2>3. QED  BY <2>1, <2>2, QuietBoots
<1>9. QED  BY <1>2, <1>3, <1>4, <1>5, <1>6, <1>7, <1>8 DEF Decisions

-----------------------------------------------------------------------------
(* The inductive invariant.                                               *)

(* The pool as kernel_main sets it up, with this much of it used.         *)
PoolWith(used) ==
    [base |-> PoolBase, size |-> EARLY_ALLOC_POOL_SIZE, used |-> used, initialized |-> TRUE]

(* The blocks, which end in that part.                                    *)
Placed(b, used) ==
    /\ b.at \in Nat /\ b.size \in Nat /\ PoolBase <= b.at
    /\ b.at + UsableSize(b.size) <= PoolBase + used
    /\ b.at % UsableAlignment(b.alignment) = 0

Apart(set) == \A b, c \in set : b # c => Bytes(b) \intersect Bytes(c) = {}

(* Nothing is used, or what the last block ends.                          *)
UsedUp(set, used) ==
    IF set = {} THEN used = 0 ELSE \E b \in set : PoolBase + used = b.at + UsableSize(b.size)

PoolInv ==
    \/ pool = PoolAtReset /\ blocks = {}
    \/ \E used \in 0 .. EARLY_ALLOC_POOL_SIZE :
           /\ pool = PoolWith(used)
           /\ \A b \in blocks : Placed(b, used)
           /\ Apart(blocks)
           /\ UsedUp(blocks, used)

(* The pool is set up once: a second time, it would give out again what is *)
(* in use.                                                                *)
TodoInv == Booting(todo) /\ (pool # PoolAtReset => Quiet(todo))

IInv == PoolInv /\ TodoInv

(* The kernel enters main, or stops before it, with the pool not set up.  *)
LEMMA InitialInv == Init => IInv
<1>1. SUFFICES ASSUME Init PROVE IInv
  OBVIOUS
<1>2. Booting(kernel_main)
  <2>1. PICK x : x = <<"choose_output">>
    OBVIOUS
  <2>2. Typed(x)
    BY <2>1 DEF Typed
  <2>3. Quiet(serial_init("COM1", 115200)) /\ Booting(<<x>>)
    BY <2>2, SerialQuiet, OneSection
  <2>4. QED  BY <2>1, <2>3, SectionsChained DEF Quiet, Booting, kernel_main
<1>3. Booting(early_panic(<<"B">>))
  BY OfKind, QuietThen, QuietBoots DEF early_panic, halt
<1>4. QED  BY <1>1, <1>2, <1>3 DEF Init, IInv, PoolInv, TodoInv

(* A section that is done and leaves the pool alone.                      *)
LEMMA DoneStep ==
    ASSUME IInv, todo # <<>>, Done, UNCHANGED <<pool, blocks>>
    PROVE  IInv'
<1>1. Booting(Tail(todo)) /\ (Quiet(todo) => Quiet(Tail(todo)))
  BY AfterFirst DEF IInv, TodoInv
<1>2. QED  BY <1>1 DEF IInv, TodoInv, PoolInv, Done

(* One that is followed by others first.                                  *)
LEMMA MoreStep ==
    ASSUME IInv, todo # <<>>, NEW s, Quiet(s), todo' = s \o Tail(todo)
    PROVE  Booting(todo)' /\ (Quiet(todo) => Quiet(todo)')
<1>1. Booting(Tail(todo)) /\ (Quiet(todo) => Quiet(Tail(todo)))
  BY AfterFirst DEF IInv, TodoInv
<1>2. Booting(s \o Tail(todo)) /\ (Quiet(todo) => Quiet(s \o Tail(todo)))
  BY <1>1, QuietThen, SectionsChained DEF Quiet, Booting
<1>3. QED  BY <1>2

(* The pool is set up: nothing to do can do so again.                     *)
LEMMA PoolStep == IInv /\ PoolSection => IInv'
<1>1. SUFFICES ASSUME IInv, PoolSection PROVE IInv'
  OBVIOUS
<1>2. todo # <<>> /\ Starts(Head(todo)) /\ todo' = Tail(todo) /\ blocks' = blocks
  BY <1>1 DEF PoolSection, Doing, Done, Starts, history
<1>3. Quiet(Tail(todo)) /\ ~Quiet(todo)
  BY <1>1, <1>2, AfterFirst DEF IInv, TodoInv
<1>4. Quiet(todo)' /\ Booting(todo)'
  BY <1>2, <1>3, QuietBoots
<1>5. pool = PoolAtReset /\ blocks = {}
  BY <1>1, <1>3 DEF IInv, PoolInv, TodoInv, PoolWith, PoolAtReset
<1>6. /\ PoolBase \in Nat \ {0} /\ EARLY_ALLOC_POOL_SIZE \in Nat \ {0}
  BY EarlyAllocAssumption
<1>7. pool' = PoolWith(0)
  BY <1>1, <1>6 DEF PoolSection, early_alloc_init_default, early_alloc_init, NULL, PoolWith
<1>8. PoolInv'
  <2>1. 0 \in 0 .. EARLY_ALLOC_POOL_SIZE
    BY <1>6
  <2>2. blocks' = {}
    BY <1>2, <1>5
  <2>3. QED  BY <1>7, <2>1, <2>2 DEF PoolInv, Apart, UsedUp
<1>9. QED  BY <1>4, <1>8 DEF IInv, TodoInv

(* A usable size and alignment.                                           *)
LEMMA Usable ==
    /\ \A size \in Nat : UsableSize(size) \in Nat \ {0}
    /\ \A alignment \in Nat : UsableAlignment(alignment) \in Nat \ {0}
<1>1. EARLY_ALLOC_ALIGNMENT \in Nat \ {0}
  BY EarlyAllocAssumption
<1>2. QED  BY <1>1 DEF UsableSize, UsableAlignment, IsPowerOf2

(* A block that ends in a part of the pool, and one that begins behind it. *)
LEMMA BehindIsApart ==
    ASSUME NEW used \in Nat, NEW b, Placed(b, used), NEW c, c.at \in Nat, c.size \in Nat,
           PoolBase + used <= c.at
    PROVE  Bytes(b) \intersect Bytes(c) = {} /\ Bytes(c) \intersect Bytes(b) = {}
<1>1. PoolBase \in Nat
  BY EarlyAllocAssumption
<1>2. UsableSize(b.size) \in Nat /\ UsableSize(c.size) \in Nat
  BY Usable DEF Placed
<1>3. ASSUME NEW x \in Bytes(b), x \in Bytes(c) PROVE FALSE
  <2>1. PICK p, q, m, n : p = b.at /\ q = UsableSize(b.size) /\ m = c.at /\ n = UsableSize(c.size)
    OBVIOUS
  <2>2. /\ p \in Nat /\ q \in Nat /\ m \in Nat /\ n \in Nat
        /\ p + q <= PoolBase + used /\ PoolBase + used <= m
    BY <1>2, <2>1 DEF Placed
  <2>3. x \in p .. p + q - 1 /\ x \in m .. m + n - 1
    BY <1>3, <2>1 DEF Bytes
  <2>4. QED  BY <1>1, <2>2, <2>3
<1>4. QED  BY <1>3

(* A request: its block begins where the used part has been padded to.    *)
LEMMA AllocStep == IInv /\ AllocSection => IInv'
<1>1. SUFFICES ASSUME IInv, AllocSection PROVE IInv'
  OBVIOUS
<1>2. todo # <<>> /\ Head(todo)[1] = "early_alloc_align"
  BY <1>1 DEF AllocSection, Doing
<1>3. PICK size, alignment : size = Head(todo)[2] /\ alignment = Head(todo)[3]
  OBVIOUS
<1>4. size \in Nat /\ alignment \in Nat
  BY <1>1, <1>2, <1>3, AfterFirst DEF IInv, TodoInv, Typed
<1>5. PICK got : got = early_alloc_align(pool, size, alignment)
  OBVIOUS
<1>6. /\ pool' = got.pool
      /\ blocks' = IF got.ptr = NULL THEN blocks
                   ELSE blocks \union {[at |-> got.ptr, size |-> size, alignment |-> alignment]}
  BY <1>1, <1>3, <1>5 DEF AllocSection
<1>7. \E s : Quiet(s) /\ todo' = s \o Tail(todo)
  <2>1. PICK s : s = CASE got.ptr # NULL \/ ~pool.initialized -> <<>>
                       [] TooLarge(pool, UsableSize(size)) ->
                             serial_write_dec(UsableSize(size)) \o serial_write_dec(pool.size)
                       [] OTHER -> serial_write_dec(UsableSize(size))
    OBVIOUS
  <2>2. todo' = s \o Tail(todo)
    BY <1>1, <1>3, <1>5, <2>1 DEF AllocSection
  <2>3. Quiet(s)
    BY <2>1, SerialQuiet, NothingToDo, QuietThen
  <2>4. QED  BY <2>2, <2>3
<1>8. Booting(todo)' /\ (Quiet(todo) => Quiet(todo)')
  BY <1>1, <1>2, <1>7, MoreStep
<1>9. CASE pool = PoolAtReset /\ blocks = {}
  <2>1. ~pool.initialized
    BY <1>9 DEF PoolAtReset
  <2>2. got.ptr = NULL /\ got.pool = pool
    BY <1>5, <2>1 DEF early_alloc_align
  <2>3. QED  BY <1>6, <1>8, <1>9, <2>2 DEF IInv, PoolInv, TodoInv
<1>10. ASSUME NEW used \in 0 .. EARLY_ALLOC_POOL_SIZE, pool = PoolWith(used),
              \A b \in blocks : Placed(b, used), Apart(blocks), UsedUp(blocks, used)
       PROVE  IInv'
  <2>1. Quiet(todo)
    BY <1>1, <1>10 DEF IInv, TodoInv, PoolWith, PoolAtReset
  <2>2. CASE got.pool = pool /\ got.ptr = NULL
    BY <1>1, <1>6, <1>8, <2>1, <2>2 DEF IInv, PoolInv, TodoInv
  <2>3. CASE ~(got.pool = pool /\ got.ptr = NULL)
    <3>1. PICK n, a : n = UsableSize(size) /\ a = UsableAlignment(alignment)
      OBVIOUS
    <3>2. n \in Nat \ {0} /\ a \in Nat \ {0}
      BY <1>4, <3>1, Usable
    <3>3. /\ ~OutOfMemory(pool, n, a)
          /\ got = [ptr |-> Aligned(Current(pool), a),
                    pool |-> [pool EXCEPT !.used = @ + Padding(pool, a) + n]]
      BY <1>5, <2>3, <3>1 DEF early_alloc_align
    <3>4. PICK p, at : p = Padding(pool, a) /\ at = Aligned(Current(pool), a)
      OBVIOUS
    <3>5. /\ p \in Nat /\ at = PoolBase + used + p
          /\ used + p + n <= EARLY_ALLOC_POOL_SIZE /\ at % a = 0
      <4>1. PICK pl : pl = pool
        OBVIOUS
      <4>2. pl = [base |-> PoolBase, size |-> EARLY_ALLOC_POOL_SIZE, used |-> used,
                  initialized |-> TRUE]
        BY <1>10, <4>1 DEF PoolWith
      <4>3. ~OutOfMemory(pl, n, a)
        BY <3>3, <4>1
      <4>4. /\ Padding(pl, a) \in Nat
            /\ Aligned(Current(pl), a) = PoolBase + used + Padding(pl, a)
            /\ used + Padding(pl, a) + n <= EARLY_ALLOC_POOL_SIZE
            /\ Aligned(Current(pl), a) % a = 0
        BY ONLY <3>2, <4>2, <4>3, BlockFits, used \in 0 .. EARLY_ALLOC_POOL_SIZE
      <4>5. QED  BY <3>4, <4>1, <4>4
    <3>6. PoolBase \in Nat \ {0} /\ EARLY_ALLOC_POOL_SIZE \in Nat /\ used \in Nat
      BY EarlyAllocAssumption
    <3>7. PICK after \in 0 .. EARLY_ALLOC_POOL_SIZE : after = used + p + n
      BY <3>2, <3>5, <3>6
    <3>8. pool' = PoolWith(after)
      BY <1>6, <1>10, <3>3, <3>4, <3>7 DEF PoolWith
    <3>9. PICK c : c = [at |-> at, size |-> size, alignment |-> alignment]
      OBVIOUS
    <3>10. blocks' = blocks \union {c}
      <4>1. got.ptr = at /\ at # 0
        BY <3>3, <3>4, <3>5, <3>6
      <4>2. QED  BY <1>6, <3>9, <4>1 DEF NULL
    <3>11. c.at = at /\ c.size = size /\ c.alignment = alignment
      BY <3>9
    <3>12. Placed(c, after)
      <4>1. at \in Nat /\ PoolBase <= at /\ at + n <= PoolBase + after
        BY <3>2, <3>5, <3>6, <3>7
      <4>2. QED  BY <1>4, <3>1, <3>5, <3>11, <4>1 DEF Placed
    <3>13. ASSUME NEW b \in blocks PROVE Placed(b, after)
      <4>1. b.at \in Nat /\ UsableSize(b.size) \in Nat /\ used <= after
        BY <1>10, <3>2, <3>5, <3>6, <3>7, Usable DEF Placed
      <4>2. b.at + UsableSize(b.size) <= PoolBase + after
        BY <1>10, <3>6, <4>1 DEF Placed
      <4>3. QED  BY <1>10, <4>2 DEF Placed
    <3>14. ASSUME NEW b \in blocks
           PROVE  Bytes(b) \intersect Bytes(c) = {} /\ Bytes(c) \intersect Bytes(b) = {}
      <4>1. c.at \in Nat /\ c.size \in Nat /\ PoolBase + used <= c.at
        BY <1>4, <3>5, <3>6, <3>11
      <4>2. QED  BY <1>10, <3>6, <4>1, BehindIsApart
    <3>15. Apart(blocks')
      BY <1>10, <3>10, <3>14 DEF Apart
    <3>16. UsedUp(blocks', after)
      <4>1. c \in blocks' /\ PoolBase + after = c.at + UsableSize(c.size)
        BY <3>1, <3>2, <3>5, <3>6, <3>7, <3>10, <3>11
      <4>2. QED  BY <4>1 DEF UsedUp
    <3>17. PoolInv'
      BY <3>8, <3>10, <3>12, <3>13, <3>15, <3>16 DEF PoolInv
    <3>18. QED  BY <1>8, <2>1, <3>17 DEF IInv, TodoInv
  <2>4. QED  BY <2>2, <2>3
<1>11. QED  BY <1>1, <1>9, <1>10 DEF IInv, PoolInv

(* The inductive invariant holds in every reachable state.                *)
THEOREM Invariant == Spec => []IInv
<1>1. IInv /\ [Next]_vars => IInv'
  <2>1. SUFFICES ASSUME IInv, [Next]_vars PROVE IInv'
    OBVIOUS
  <2>2. CASE WriteSection
    BY <2>1, <2>2, DoneStep DEF WriteSection, Doing
  <2>3. CASE ScreenSection
    BY <2>1, <2>3, DoneStep DEF ScreenSection, Doing
  <2>4. CASE StoreSection
    BY <2>1, <2>4, DoneStep DEF StoreSection, Doing
  <2>5. CASE Decide
    <3>1. /\ todo # <<>> /\ Head(todo)[1] \in Decisions
          /\ todo' = Decision(Head(todo)) \o Tail(todo)
          /\ pool' = pool /\ blocks' = blocks
      BY <2>5 DEF Decide, Doing
    <3>2. Booting(Decision(Head(todo))) /\ (~Starts(Head(todo)) => Quiet(Decision(Head(todo))))
      BY <3>1, DecisionIs
    <3>3. CASE Starts(Head(todo))
      <4>1. Quiet(Tail(todo)) /\ ~Quiet(todo)
        BY <2>1, <3>1, <3>3, AfterFirst DEF IInv, TodoInv
      <4>2. Booting(todo)'
        BY <3>1, <3>2, <4>1, SectionsChained DEF Quiet, Booting
      <4>3. QED  BY <2>1, <3>1, <4>1, <4>2 DEF IInv, PoolInv, TodoInv
    <3>4. CASE ~Starts(Head(todo))
      <4>1. Booting(todo)' /\ (Quiet(todo) => Quiet(todo)')
        BY <2>1, <3>1, <3>2, <3>4, MoreStep
      <4>2. QED  BY <2>1, <3>1, <4>1 DEF IInv, PoolInv, TodoInv
    <3>5. QED  BY <3>3, <3>4
  <2>6. CASE LogSection
    <3>1. todo # <<>> /\ pool' = pool /\ blocks' = blocks
      BY <2>6 DEF LogSection, Doing, history
    <3>2. CASE Done
      BY <2>1, <3>1, <3>2, DoneStep
    <3>3. CASE todo' = LOG_INFO(Message("l")) \o Tail(todo)
      <4>1. Booting(todo)' /\ (Quiet(todo) => Quiet(todo)')
        BY <2>1, <3>1, <3>3, LogQuiet, MoreStep
      <4>2. QED  BY <2>1, <3>1, <4>1 DEF IInv, PoolInv, TodoInv
    <3>4. QED  BY <2>6, <3>2, <3>3 DEF LogSection
  <2>7. CASE HandlersSection
    BY <2>1, <2>7, DoneStep DEF HandlersSection, Doing, history
  <2>8. CASE Call
    <3>1. todo' \in Calls /\ pool' = pool /\ blocks' = blocks
      BY <2>8 DEF Call, history
    <3>2. Quiet(todo)' /\ Booting(todo)'
      BY <3>1, CallsQuiet, QuietBoots
    <3>3. QED  BY <2>1, <3>1, <3>2 DEF IInv, PoolInv, TodoInv
  <2>9. CASE HandlerPrints
    <3>1. UNCHANGED <<pool, todo, blocks>>
      BY <2>9 DEF HandlerPrints
    <3>2. QED  BY <2>1, <3>1 DEF IInv, PoolInv, TodoInv
  <2>10. CASE UNCHANGED vars
    BY <2>1, <2>10 DEF vars, history, IInv, PoolInv, TodoInv
  <2>11. QED
    BY <2>1, <2>2, <2>3, <2>4, <2>5, <2>6, <2>7, <2>8, <2>9, <2>10, PoolStep, AllocStep DEF Next
<1>2. QED  BY <1>1, InitialInv, PTL DEF Spec

(* Blocks are aligned as asked, in the used part of the pool and disjoint, *)
(* and that part ends where the last of them does, for any pool, requests *)
(* and order of them.                                                     *)
THEOREM EarlyBlocksDisjointHolds == Spec => []EarlyBlocksDisjoint
<1>1. ASSUME IInv PROVE EarlyBlocksDisjoint
  <2>1. CASE pool = PoolAtReset /\ blocks = {}
    BY <2>1 DEF EarlyBlocksDisjoint, PoolAtReset
  <2>2. ASSUME NEW used \in 0 .. EARLY_ALLOC_POOL_SIZE, pool = PoolWith(used),
               \A b \in blocks : Placed(b, used), Apart(blocks), UsedUp(blocks, used)
        PROVE  EarlyBlocksDisjoint
    <3>1. PoolBase \in Nat /\ EARLY_ALLOC_POOL_SIZE \in Nat /\ used \in Nat
      BY EarlyAllocAssumption
    <3>2. pool.base = PoolBase /\ pool.used = used /\ pool.size = EARLY_ALLOC_POOL_SIZE
      BY <2>2 DEF PoolWith
    <3>3. ASSUME NEW b \in blocks
          PROVE  Bytes(b) \subseteq PoolBase .. PoolBase + used - 1
      <4>1. UsableSize(b.size) \in Nat
        BY <2>2, Usable DEF Placed
      <4>2. QED  BY <2>2, <3>1, <4>1 DEF Placed, Bytes
    <3>4. used <= EARLY_ALLOC_POOL_SIZE
      BY <3>1
    <3>5. QED  BY <2>2, <3>2, <3>3, <3>4 DEF EarlyBlocksDisjoint, Placed, Apart, UsedUp
  <2>3. QED  BY <1>1, <2>1, <2>2 DEF IInv, PoolInv
<1>2. QED  BY <1>1, Invariant, PTL

-----------------------------------------------------------------------------
(* Numbers: what the loops and shifts make of a value is its numeral.       *)

(* What is written: any string, as a character; and these, which are strings *)
(* although the provers do not know.                                        *)
Char ==
    STRING \union
    {"0", "1", "2", "3", "4", "5", "6", "7", "8", "9", "A", "B", "C", "D", "E", "F", "x", "-",
     "%", ".", LF, CR, TAB, " ", "?", "D", "I", "W", "E", "P", "N", "F", "a", "b", "c", "e", "f",
     "h", "i", "j", "k", "l", "m", "v", "w"}

(* Every digit is one of them.                                              *)
LEMMA DigitIsCharacter == \A d \in 0 .. 15 : Digit(d) \in Char
<1>1. PICK s : s = <<"0", "1", "2", "3", "4", "5", "6", "7",
                     "8", "9", "A", "B", "C", "D", "E", "F">>
  OBVIOUS
<1>2. PICK S : S = {"0", "1", "2", "3", "4", "5", "6", "7",
                    "8", "9", "A", "B", "C", "D", "E", "F",
                       "x"}
  OBVIOUS
<1>3. S \subseteq Char
  BY <1>2 DEF Char
<1>4. s \in Seq(S) /\ Len(s) = 16
  BY <1>1, <1>2
<1>5. ASSUME NEW d \in 0 .. 15 PROVE s[d + 1] \in Char
  <2>1. d + 1 \in 1 .. Len(s)
    BY <1>4
  <2>2. s[d + 1] \in S
    BY <1>4, <2>1, ElementOfSeq
  <2>3. QED  BY <1>3, <2>2
<1>6. QED  BY <1>1, <1>5 DEF Digit

(* Digits is what its recursion says.                                       *)
LEMMA DigitsAre ==
    ASSUME NEW radix \in 2 .. 16
    PROVE  /\ Digits(0, radix) = <<>>
           /\ \A v \in Nat \ {0} : Digits(v, radix) = Append(Digits(v \div radix, radix), Digit(v % radix))
           /\ \A v \in Nat : Digits(v, radix) \in Seq(Char)
<1> DEFINE Is(d) == d = [v \in Nat |-> IF v = 0 THEN <<>>
                                       ELSE Append(d[v \div radix], Digit(v % radix))]
           before == [v \in Nat |-> v \div radix]
           G == [p \in Nat \X Seq(Char) |-> Append(p[2], Digit(p[1] % radix))]
<1>1. /\ before \in [Nat -> Nat]
      /\ \A v \in Nat \ {0} : before[v] < v
  OBVIOUS
<1>2. G \in [Nat \X Seq(Char) -> Seq(Char)]
  <2>1. ASSUME NEW p \in Nat \X Seq(Char) PROVE Append(p[2], Digit(p[1] % radix)) \in Seq(Char)
    <3>1. p[1] \in Nat /\ p[2] \in Seq(Char)
      OBVIOUS
    <3>2. p[1] % radix \in 0 .. 15
      BY <3>1
    <3>3. Digit(p[1] % radix) \in Char
      BY <3>2, DigitIsCharacter
    <3>4. QED  BY <3>1, <3>3
  <2>2. QED  BY <2>1
<1>3. \E d : Is(d) /\ d \in [Nat -> Seq(Char)]
  <2>1. <<>> \in Seq(Char)
    OBVIOUS
  <2>2. PICK d \in [Nat -> Seq(Char)] :
            d[0] = <<>> /\ \A v \in Nat \ {0} : d[v] = G[<<v, d[before[v]]>>]
    <3> HIDE DEF G, before
    <3>1. \E d : IsRecursion(d, Seq(Char), <<>>, before, G)
      BY <1>1, <1>2, <2>1, RecursionExists
    <3>2. QED  BY <3>1 DEF IsRecursion
  <2>3. ASSUME NEW v \in Nat \ {0} PROVE d[v] = Append(d[v \div radix], Digit(v % radix))
    <3>1. v \div radix \in Nat /\ before[v] = v \div radix
      OBVIOUS
    <3>2. <<v, d[v \div radix]>> \in Nat \X Seq(Char)
      BY <2>2, <3>1
    <3>3. QED  BY <2>2, <3>1, <3>2
  <2>4. Is(d)
    BY <2>2, <2>3
  <2>5. QED  BY <2>4
<1>4. PICK d : d = CHOOSE e : Is(e)
  OBVIOUS
<1>5. Is(d)
  <2> HIDE DEF Is
  <2>1. QED  BY <1>3, <1>4
<1>6. \A v : Digits(v, radix) = d[v]
  BY <1>4, Zenon DEF Digits
<1>7. /\ d[0] = <<>>
      /\ \A v \in Nat \ {0} : d[v] = Append(d[v \div radix], Digit(v % radix))
  BY <1>5
<1>8. \A v \in Nat : d[v] \in Seq(Char)
  <2> DEFINE S == {v \in Nat : d[v] \in Seq(Char)}
  <2>1. ASSUME NEW v \in Nat, \A u \in 0 .. v - 1 : u \in S PROVE v \in S
    <3>1. CASE v = 0
      <4>1. d[v] = <<>> /\ <<>> \in Seq(Char)
        BY <1>7, <3>1
      <4>2. QED  BY <4>1
    <3>2. CASE v # 0
      <4>1. v \div radix \in 0 .. v - 1 /\ v % radix \in 0 .. 15
        BY <3>2
      <4>2. d[v \div radix] \in Seq(Char) /\ Digit(v % radix) \in Char
        BY <2>1, <4>1, DigitIsCharacter
      <4>3. d[v] = Append(d[v \div radix], Digit(v % radix))
        BY <1>7, <3>2
      <4>4. d[v] \in Seq(Char)
        BY <4>2, <4>3
      <4>5. QED  BY <4>4
    <3>3. QED  BY <3>1, <3>2
  <2> HIDE DEF S
  <2>2. \A v \in Nat : v \in S
    BY <2>1, StrongInduction
  <2>3. QED  BY <2>2 DEF S
<1>9. \A v \in Nat : v \div radix \in Nat
  OBVIOUS
<1>10. QED  BY <1>6, <1>7, <1>8, <1>9

(* A division gives back what was multiplied and added.                     *)
LEMMA DivideBack ==
    ASSUME NEW r \in Nat \ {0}, NEW q \in Nat, NEW d \in 0 .. r - 1
    PROVE  q * r + d \in Nat /\ (q * r + d) \div r = q /\ (q * r + d) % r = d
<1>1. PICK v : v = q * r + d /\ v \in Nat
  OBVIOUS
<1>2. v = r * (v \div r) + (v % r) /\ v \div r \in Nat /\ v % r \in 0 .. r - 1
  BY <1>1
<1>3. PICK a, b : a = v \div r /\ b = v % r
  OBVIOUS
<1>4. a \in Nat /\ b \in 0 .. r - 1 /\ r * a + b = q * r + d
  BY <1>1, <1>2, <1>3
<1>5. r * (a - q) = d - b
  BY <1>4
<1>6. a = q
  <2>1. CASE a > q
    <3>1. r * (a - q) >= r
      BY <1>4, <2>1
    <3>2. QED  BY <1>4, <1>5, <3>1
  <2>2. CASE a < q
    <3>1. r * (a - q) <= -r
      BY <1>4, <2>2
    <3>2. QED  BY <1>4, <1>5, <3>1
  <2>3. QED  BY <1>4, <2>1, <2>2
<1>7. b = d
  BY <1>4, <1>5, <1>6
<1>8. QED  BY <1>1, <1>3, <1>6, <1>7

(* A quotient and what is left.                                             *)
LEMMA Divided ==
    ASSUME NEW r \in Nat \ {0, 1}, NEW v \in Nat
    PROVE  /\ v \div r \in Nat /\ v % r \in 0 .. r - 1
           /\ v = (v \div r) * r + (v % r)
           /\ v # 0 => v \div r < v
           /\ v < r => v \div r = 0 /\ v % r = v
  OBVIOUS

(* A shift by n nibbles is n divisions.                                     *)
LEMMA ShiftIs ==
    ASSUME NEW value \in Nat
    PROVE  /\ Shift(value, 0) = value
           /\ \A n \in Nat : Shift(value, n + 1) = Shift(value, n) \div Nibble
           /\ \A n \in Nat : Shift(value, n) \in Nat
<1> DEFINE Is(f) == f = [n \in Nat |-> IF n = 0 THEN value ELSE f[n - 1] \div Nibble]
           before == [n \in Nat |-> IF n = 0 THEN 0 ELSE n - 1]
           G == [p \in Nat \X Nat |-> p[2] \div Nibble]
<1>1. Nibble \in Nat \ {0, 1}
  BY TextAssumption
<1>2. before \in [Nat -> Nat] /\ \A v \in Nat \ {0} : before[v] < v
  OBVIOUS
<1>3. G \in [Nat \X Nat -> Nat]
  BY <1>1
<1>4. \E f : Is(f) /\ f \in [Nat -> Nat]
  <2>1. PICK f : IsRecursion(f, Nat, value, before, G)
    <3> HIDE DEF G, before
    <3>1. QED  BY <1>2, <1>3, RecursionExists
  <2>2. ASSUME NEW n \in Nat \ {0} PROVE f[n] = f[n - 1] \div Nibble
    <3>1. before[n] = n - 1 /\ n - 1 \in Nat
      OBVIOUS
    <3>2. f[n] = G[<<n, f[n - 1]>>] /\ <<n, f[n - 1]>> \in Nat \X Nat
      BY <2>1, <3>1 DEF IsRecursion
    <3>3. QED  BY <3>2
  <2>3. f \in [Nat -> Nat] /\ f[0] = value
    BY <2>1 DEF IsRecursion
  <2>4. Is(f)
    BY <2>2, <2>3
  <2>5. QED  BY <2>3, <2>4
<1>5. PICK f : f = CHOOSE g : Is(g)
  OBVIOUS
<1>6. Is(f)
  <2> HIDE DEF Is
  <2>1. QED  BY <1>4, <1>5
<1>7. \A n : Shift(value, n) = f[n]
  BY <1>5, Zenon DEF Shift
<1>8. f[0] = value /\ \A n \in Nat : f[n + 1] = f[n] \div Nibble
  <2>1. \A n \in Nat \ {0} : f[n] = f[n - 1] \div Nibble
    BY <1>6
  <2>2. \A n \in Nat : n + 1 \in Nat \ {0} /\ (n + 1) - 1 = n
    OBVIOUS
  <2>3. f[0] = value
    BY <1>6
  <2>4. QED  BY <2>1, <2>2, <2>3
<1>9. \A n \in Nat : f[n] \in Nat
  <2> DEFINE S == {n \in Nat : f[n] \in Nat}
  <2>1. 0 \in S
    BY <1>8
  <2>2. ASSUME NEW n \in Nat, n \in S PROVE n + 1 \in S
    <3>1. f[n + 1] = f[n] \div Nibble
      BY <1>8
    <3>2. QED  BY <1>1, <2>2, <3>1
  <2> HIDE DEF S
  <2>3. \A n \in Nat : n \in S
    BY <2>1, <2>2, Induction
  <2>4. QED  BY <2>3 DEF S
<1>10. QED  BY <1>7, <1>8, <1>9

-----------------------------------------------------------------------------
(* The value of a sequence of digits, digit by digit.                       *)
IsValue(f, s, radix) ==
    /\ f \in [0 .. Len(s) -> Nat] /\ f[0] = 0
    /\ \A k \in 1 .. Len(s) : f[k] = f[k - 1] * radix + s[k]

(* There is such a function, and it gives the value.                        *)
LEMMA ValueIs ==
    ASSUME NEW radix \in 2 .. 16, NEW s \in Seq(0 .. radix - 1)
    PROVE  \E f : IsValue(f, s, radix) /\ ValueOf(s, radix) = f[Len(s)]
<1> DEFINE Is(f) == f = [n \in 0 .. Len(s) |-> IF n = 0 THEN 0 ELSE f[n - 1] * radix + s[n]]
           before == [n \in Nat |-> IF n = 0 THEN 0 ELSE n - 1]
           G == [p \in Nat \X Nat |-> IF p[1] \in 1 .. Len(s) THEN p[2] * radix + s[p[1]] ELSE 0]
<1>1. before \in [Nat -> Nat] /\ \A v \in Nat \ {0} : before[v] < v
  OBVIOUS
<1>2. G \in [Nat \X Nat -> Nat]
  <2>1. ASSUME NEW p \in Nat \X Nat
        PROVE  (IF p[1] \in 1 .. Len(s) THEN p[2] * radix + s[p[1]] ELSE 0) \in Nat
    <3>1. CASE p[1] \in 1 .. Len(s)
      <4>1. s[p[1]] \in Nat /\ p[2] \in Nat /\ radix \in Nat
        BY <3>1
      <4>2. QED  BY <3>1, <4>1
    <3>2. QED  BY <3>1
  <2>2. QED  BY <2>1
<1>3. Len(s) \in Nat
  OBVIOUS
<1>4. \E f : Is(f) /\ f \in [0 .. Len(s) -> Nat]
  <2>1. PICK g : IsRecursion(g, Nat, 0, before, G)
    <3> HIDE DEF G, before
    <3>1. QED  BY <1>1, <1>2, RecursionExists
  <2>2. ASSUME NEW n \in 1 .. Len(s) PROVE g[n] = g[n - 1] * radix + s[n]
    <3>1. before[n] = n - 1 /\ n - 1 \in Nat /\ n \in Nat \ {0}
      OBVIOUS
    <3>2. g[n] = G[<<n, g[n - 1]>>] /\ <<n, g[n - 1]>> \in Nat \X Nat
      BY <2>1, <3>1 DEF IsRecursion
    <3>3. QED  BY <3>2
  <2>3. g \in [Nat -> Nat] /\ g[0] = 0
    BY <2>1 DEF IsRecursion
  <2>4. PICK f : f = [n \in 0 .. Len(s) |-> g[n]]
    OBVIOUS
  <2>5. f \in [0 .. Len(s) -> Nat]
    BY <2>3, <2>4
  <2>6. ASSUME NEW n \in 0 .. Len(s)
        PROVE  f[n] = IF n = 0 THEN 0 ELSE f[n - 1] * radix + s[n]
    <3>1. CASE n = 0
      BY <2>3, <2>4, <3>1
    <3>2. CASE n # 0
      <4>1. n \in 1 .. Len(s) /\ n - 1 \in 0 .. Len(s)
        BY <3>2
      <4>2. f[n] = g[n] /\ f[n - 1] = g[n - 1]
        BY <2>4, <4>1
      <4>3. QED  BY <2>2, <3>2, <4>1, <4>2
    <3>3. QED  BY <3>1, <3>2
  <2>7. f = [n \in 0 .. Len(s) |-> f[n]]
    BY <2>4
  <2>8. Is(f)
    BY <2>6, <2>7
  <2>9. QED  BY <2>5, <2>8
<1>5. PICK f : f = CHOOSE g : Is(g)
  OBVIOUS
<1>6. Is(f)
  <2> HIDE DEF Is
  <2>1. QED  BY <1>4, <1>5
<1>7. ValueOf(s, radix) = f[Len(s)]
  BY <1>5, Zenon DEF ValueOf
<1>8. f[0] = 0 /\ \A k \in 1 .. Len(s) : f[k] = f[k - 1] * radix + s[k]
  BY <1>3, <1>6
<1>9. \A n \in Nat : n <= Len(s) => f[n] \in Nat
  <2> DEFINE S == {n \in Nat : n <= Len(s) => f[n] \in Nat}
  <2>1. 0 \in S
    BY <1>8
  <2>2. ASSUME NEW n \in Nat, n \in S PROVE n + 1 \in S
    <3>1. CASE n + 1 <= Len(s)
      <4>1. n + 1 \in 1 .. Len(s) /\ (n + 1) - 1 = n /\ f[n] \in Nat
        BY <1>3, <2>2, <3>1
      <4>2. f[n + 1] = f[n] * radix + s[n + 1] /\ s[n + 1] \in Nat
        BY <1>8, <4>1
      <4>3. f[n + 1] \in Nat
        BY <4>1, <4>2
      <4>4. QED  BY <4>3
    <3>2. QED  BY <3>1
  <2> HIDE DEF S
  <2>3. \A n \in Nat : n \in S
    BY <2>1, <2>2, Induction
  <2>4. QED  BY <2>3 DEF S
<1>10. f \in [0 .. Len(s) -> Nat]
  <2>1. f = [n \in 0 .. Len(s) |-> f[n]]
    BY <1>6
  <2>2. \A n \in 0 .. Len(s) : f[n] \in Nat
    BY <1>3, <1>9
  <2>3. QED  BY <2>1, <2>2
<1>11. IsValue(f, s, radix)
  BY <1>8, <1>10 DEF IsValue
<1>12. QED  BY <1>7, <1>11

(* There is only one.                                                       *)
LEMMA OneValue ==
    ASSUME NEW radix \in 2 .. 16, NEW s \in Seq(0 .. radix - 1),
           NEW f, IsValue(f, s, radix)
    PROVE  ValueOf(s, radix) = f[Len(s)]
<1>1. PICK g : IsValue(g, s, radix) /\ ValueOf(s, radix) = g[Len(s)]
  BY ValueIs
<1> DEFINE S == {n \in Nat : n <= Len(s) => f[n] = g[n]}
<1>2. 0 \in S
  BY <1>1 DEF IsValue
<1>3. ASSUME NEW n \in Nat, n \in S PROVE n + 1 \in S
  <2>1. CASE n + 1 <= Len(s)
    <3>1. n + 1 \in 1 .. Len(s) /\ (n + 1) - 1 = n /\ f[n] = g[n]
      BY <1>3, <2>1
    <3>2. f[n + 1] = f[n] * radix + s[n + 1] /\ g[n + 1] = g[n] * radix + s[n + 1]
      BY <1>1, <3>1 DEF IsValue
    <3>3. QED  BY <3>1, <3>2
  <2>2. QED  BY <2>1
<1>4. Len(s) \in S
  <2> HIDE DEF S
  <2>1. \A n \in Nat : n \in S
    BY <1>2, <1>3, Induction
  <2>2. QED  BY <2>1
<1>5. QED  BY <1>1, <1>4

(* The last digit and what is before it are what a division finds.          *)
LEMMA LastDigit ==
    ASSUME NEW radix \in 2 .. 16, NEW s \in Seq(0 .. radix - 1),
           NEW f, IsValue(f, s, radix), NEW k \in 1 .. Len(s)
    PROVE  /\ f[k] \in Nat /\ f[k - 1] \in Nat
           /\ f[k] \div radix = f[k - 1] /\ f[k] % radix = s[k]
<1>1. f[k] = f[k - 1] * radix + s[k] /\ f[k - 1] \in Nat /\ k - 1 \in 0 .. Len(s)
  <2>1. k - 1 \in 0 .. Len(s)
    OBVIOUS
  <2>2. QED  BY <2>1 DEF IsValue
<1>2. radix \in Nat \ {0} /\ s[k] \in 0 .. radix - 1
  OBVIOUS
<1>3. PICK q, d : q = f[k - 1] /\ d = s[k]
  OBVIOUS
<1>4. q \in Nat /\ d \in 0 .. radix - 1 /\ f[k] = q * radix + d
  BY <1>1, <1>2, <1>3
<1>5. q * radix + d \in Nat /\ (q * radix + d) \div radix = q /\ (q * radix + d) % radix = d
  BY ONLY <1>2, <1>4, DivideBack
<1>6. QED  BY <1>3, <1>4, <1>5

(* Digits that do not begin with a zero are the ones the loop finds.        *)
LEMMA LoopFinds ==
    ASSUME NEW radix \in 2 .. 16, NEW s \in Seq(0 .. radix - 1), Len(s) > 0, s[1] # 0
    PROVE  ValueOf(s, radix) # 0 /\ Digits(ValueOf(s, radix), radix) = Shown(s)
<1>1. PICK f : IsValue(f, s, radix) /\ ValueOf(s, radix) = f[Len(s)]
  BY ValueIs
<1> DEFINE Found(k) == f[k] # 0 /\ Digits(f[k], radix) = [i \in 1 .. k |-> Digit(s[i])]
           S == {n \in Nat : n + 1 <= Len(s) => Found(n + 1)}
<1>3. ASSUME NEW k \in 1 .. Len(s)
      PROVE  /\ f[k] \in Nat /\ f[k - 1] \in Nat
             /\ f[k] \div radix = f[k - 1] /\ f[k] % radix = s[k]
  BY <1>1, LastDigit
<1>4. ASSUME NEW k \in 1 .. Len(s), f[k] # 0
      PROVE  Digits(f[k], radix) = Append(Digits(f[k - 1], radix), Digit(s[k]))
  <2>1. f[k] \in Nat \ {0}
    BY <1>3, <1>4
  <2>2. QED  BY <1>3, <2>1, DigitsAre
<1>5. 0 \in S
  <2>1. 1 \in 1 .. Len(s) /\ f[0] = 0
    BY <1>1 DEF IsValue
  <2>2. f[1] % radix # 0 /\ f[1 - 1] = 0 /\ f[1] \in Nat
    BY <1>3, <2>1
  <2>3. f[1] # 0
    <3>1. SUFFICES ASSUME f[1] = 0 PROVE FALSE
      OBVIOUS
    <3>2. f[1] % radix = 0
      BY <3>1
    <3>3. QED  BY <2>2, <3>2
  <2>4. Digits(f[1], radix) = Append(<<>>, Digit(s[1]))
    BY <1>4, <2>1, <2>2, <2>3, DigitsAre
  <2>5. Append(<<>>, Digit(s[1])) = [i \in 1 .. 1 |-> Digit(s[i])]
    OBVIOUS
  <2>6. QED  BY <2>3, <2>4, <2>5
<1>6. ASSUME NEW n \in Nat, n \in S PROVE n + 1 \in S
  <2>1. SUFFICES ASSUME n + 2 <= Len(s) PROVE Found(n + 2)
    OBVIOUS
  <2>2. PICK k : k = n + 2
    OBVIOUS
  <2>3. k \in 1 .. Len(s) /\ k - 1 = n + 1 /\ k - 1 \in Nat /\ Found(k - 1)
    BY <1>6, <2>1, <2>2
  <2>4. f[k] # 0
    <3>1. SUFFICES ASSUME f[k] = 0 PROVE FALSE
      OBVIOUS
    <3>2. f[k] \div radix = 0
      BY <3>1
    <3>3. QED  BY <1>3, <2>3, <3>2
  <2>5. Digits(f[k], radix) = Append([i \in 1 .. k - 1 |-> Digit(s[i])], Digit(s[k]))
    BY <1>4, <2>3, <2>4
  <2>6. Append([i \in 1 .. k - 1 |-> Digit(s[i])], Digit(s[k])) = [i \in 1 .. k |-> Digit(s[i])]
    BY <2>3
  <2>7. Found(k)
    BY <2>4, <2>5, <2>6
  <2>8. QED  BY <2>2, <2>7
<1>7. Len(s) \in Nat /\ Len(s) - 1 \in Nat /\ DOMAIN s = 1 .. Len(s)
  OBVIOUS
<1>8. Found(Len(s))
  <2>1. \A n \in Nat : n \in S
    <3> HIDE DEF S
    <3>1. QED  BY <1>5, <1>6, Induction
  <2>2. Len(s) - 1 \in S
    BY <1>7, <2>1
  <2> HIDE DEF Found
  <2>3. QED  BY <1>7, <2>2
<1>9. QED  BY <1>1, <1>7, <1>8 DEF Shown

(* One more digit.                                                          *)
LEMMA ValueAppend ==
    ASSUME NEW radix \in 2 .. 16, NEW s \in Seq(0 .. radix - 1), NEW d \in 0 .. radix - 1
    PROVE  ValueOf(Append(s, d), radix) = ValueOf(s, radix) * radix + d
<1>1. PICK t : t = Append(s, d)
  OBVIOUS
<1>2. /\ t \in Seq(0 .. radix - 1) /\ Len(t) = Len(s) + 1 /\ Len(s) \in Nat
      /\ t[Len(s) + 1] = d /\ \A k \in 1 .. Len(s) : t[k] = s[k]
  BY <1>1
<1>3. PICK f : IsValue(f, s, radix) /\ ValueOf(s, radix) = f[Len(s)]
  BY ValueIs
<1>4. PICK g : g = [k \in 0 .. Len(t) |-> IF k \in 0 .. Len(s) THEN f[k] ELSE f[Len(s)] * radix + d]
  OBVIOUS
<1>5. \A k \in 0 .. Len(s) : f[k] \in Nat /\ g[k] = f[k]
  <2>1. \A k \in 0 .. Len(s) : f[k] \in Nat
    BY <1>3 DEF IsValue
  <2>2. \A k \in 0 .. Len(s) : k \in 0 .. Len(t)
    BY <1>2
  <2>3. QED  BY <1>4, <2>1, <2>2
<1>6. g[Len(s) + 1] = f[Len(s)] * radix + d /\ f[Len(s)] * radix + d \in Nat
  BY <1>2, <1>4, <1>5
<1>7. IsValue(g, t, radix)
  <2>1. g \in [0 .. Len(t) -> Nat]
    BY <1>4, <1>5, <1>6
  <2>2. g[0] = 0
    BY <1>2, <1>3, <1>5 DEF IsValue
  <2>3. ASSUME NEW k \in 1 .. Len(t) PROVE g[k] = g[k - 1] * radix + t[k]
    <3>1. CASE k = Len(s) + 1
      <4>1. k - 1 = Len(s) /\ Len(s) \in 0 .. Len(s)
        BY <1>2, <3>1
      <4>2. QED  BY <1>2, <1>5, <1>6, <3>1, <4>1
    <3>2. CASE k # Len(s) + 1
      <4>1. k \in 1 .. Len(s) /\ k \in 0 .. Len(s) /\ k - 1 \in 0 .. Len(s)
        BY <1>2, <3>2
      <4>2. f[k] = f[k - 1] * radix + s[k]
        BY <1>3, <4>1 DEF IsValue
      <4>3. QED  BY <1>2, <1>5, <4>1, <4>2
    <3>3. QED  BY <3>1, <3>2
  <2>4. QED  BY <2>1, <2>2, <2>3 DEF IsValue
<1>8. ValueOf(t, radix) = g[Len(t)]
  BY <1>2, <1>7, OneValue
<1>9. QED  BY <1>1, <1>2, <1>3, <1>6, <1>8

(* No digits have the value zero.                                           *)
LEMMA ValueOfNone == ASSUME NEW radix \in 2 .. 16 PROVE ValueOf(<<>>, radix) = 0
<1>1. <<>> \in Seq(0 .. radix - 1) /\ Len(<<>>) = 0
  OBVIOUS
<1>2. PICK f : IsValue(f, <<>>, radix) /\ ValueOf(<<>>, radix) = f[Len(<<>>)]
  BY <1>1, ValueIs
<1>3. QED  BY <1>1, <1>2 DEF IsValue

(* Every number has such digits, as many as the loop finds.                 *)
HasDigits(v, s, radix) ==
    /\ s \in Seq(0 .. radix - 1) /\ Len(s) > 0 /\ s[1] # 0
    /\ ValueOf(s, radix) = v

(* Every number but zero has digits.                                        *)
LEMMA DigitsExist ==
    ASSUME NEW radix \in 2 .. 16
    PROVE  \A v \in Nat \ {0} : \E s : HasDigits(v, s, radix)
<1> DEFINE S == {v \in Nat : v # 0 => \E s : HasDigits(v, s, radix)}
<1>1. radix \in Nat \ {0, 1}
  OBVIOUS
<1>2. ASSUME NEW v \in Nat, \A u \in 0 .. v - 1 : u \in S, v # 0
      PROVE  \E s : HasDigits(v, s, radix)
  <2>1. /\ v \div radix \in 0 .. v - 1 /\ v % radix \in 0 .. radix - 1
        /\ v = (v \div radix) * radix + (v % radix)
    <3>1. /\ v \div radix \in Nat /\ v % radix \in 0 .. radix - 1
          /\ v = (v \div radix) * radix + (v % radix)
          /\ v # 0 => v \div radix < v
      BY <1>1, Divided
    <3>2. QED  BY <1>2, <3>1
  <2>2. CASE v \div radix = 0
    <3>1. v % radix = v /\ v \in 0 .. radix - 1
      <4>1. v = 0 * radix + (v % radix)
        BY <2>1, <2>2
      <4>2. v % radix \in Nat
        BY <2>1
      <4>3. v = v % radix
        BY <4>1, <4>2
      <4>4. QED  BY <2>1, <4>3
    <3>2. ValueOf(Append(<<>>, v), radix) = 0 * radix + v
      <4>1. <<>> \in Seq(0 .. radix - 1)
        OBVIOUS
      <4>2. QED  BY <3>1, <4>1, ValueAppend, ValueOfNone
    <3>3. PICK s : s = Append(<<>>, v)
      OBVIOUS
    <3>4. s \in Seq(0 .. radix - 1) /\ Len(s) = 1 /\ s[1] = v
      BY <3>1, <3>3
    <3>5. HasDigits(v, s, radix)
      BY <1>2, <3>2, <3>3, <3>4 DEF HasDigits
    <3>6. QED  BY <3>5
  <2>3. CASE v \div radix # 0
    <3>1. PICK s : HasDigits(v \div radix, s, radix)
      BY <1>2, <2>1, <2>3
    <3>2. PICK t : t = Append(s, v % radix)
      OBVIOUS
    <3>3. t \in Seq(0 .. radix - 1) /\ Len(t) > 0 /\ t[1] = s[1]
      BY <2>1, <3>1, <3>2 DEF HasDigits
    <3>4. ValueOf(t, radix) = v
      BY <2>1, <3>1, <3>2, ValueAppend DEF HasDigits
    <3>5. HasDigits(v, t, radix)
      BY <3>1, <3>3, <3>4 DEF HasDigits
    <3>6. QED  BY <3>5
  <2>4. QED  BY <2>2, <2>3
<1>3. \A v \in Nat : v \in S
  <2>1. ASSUME NEW v \in Nat, \A u \in 0 .. v - 1 : u \in S PROVE v \in S
    BY <1>2, <2>1
  <2> HIDE DEF S
  <2>2. QED  BY <2>1, StrongInduction
<1>4. QED  BY <1>3

(* A greater number has no fewer digits.                                    *)
LEMMA DigitsGrow ==
    ASSUME NEW radix \in 2 .. 16
    PROVE  \A w \in Nat : \A v \in 0 .. w : Len(Digits(v, radix)) <= Len(Digits(w, radix))
<1> DEFINE S == {w \in Nat : \A v \in 0 .. w : Len(Digits(v, radix)) <= Len(Digits(w, radix))}
<1>1. \A v \in Nat : Digits(v, radix) \in Seq(Char) /\ Len(Digits(v, radix)) \in Nat
  <2>1. \A v \in Nat : Digits(v, radix) \in Seq(Char)
    BY DigitsAre, Zenon
  <2>2. QED  BY <2>1
<1>2. ASSUME NEW v \in Nat \ {0} PROVE Len(Digits(v, radix)) = Len(Digits(v \div radix, radix)) + 1
  <2>1. Digits(v, radix) = Append(Digits(v \div radix, radix), Digit(v % radix))
    BY DigitsAre, Zenon
  <2>2. v \div radix \in Nat /\ v % radix \in 0 .. 15
    OBVIOUS
  <2>3. Digits(v \div radix, radix) \in Seq(Char) /\ Digit(v % radix) \in Char
    BY <1>1, <2>2, DigitIsCharacter
  <2>4. QED  BY <2>1, <2>3
<1>3. ASSUME NEW w \in Nat, \A u \in 0 .. w - 1 : u \in S PROVE w \in S
  <2>1. ASSUME NEW v \in 0 .. w PROVE Len(Digits(v, radix)) <= Len(Digits(w, radix))
    <3>1. CASE v = 0
      <4>1. Digits(0, radix) = <<>>
        BY DigitsAre, Zenon
      <4>2. Len(Digits(v, radix)) = 0
        BY <3>1, <4>1
      <4>3. QED  BY <1>1, <4>2
    <3>2. CASE v # 0
      <4>1. v \div radix \in 0 .. w \div radix /\ w \div radix \in 0 .. w - 1
        BY <3>2
      <4>2. w \div radix \in S
        BY <1>3, <4>1
      <4>3. \A x \in 0 .. w \div radix : Len(Digits(x, radix)) <= Len(Digits(w \div radix, radix))
        BY <4>2
      <4>4. PICK a, b : a = Len(Digits(v \div radix, radix)) /\ b = Len(Digits(w \div radix, radix))
        OBVIOUS
      <4>5. a \in Nat /\ b \in Nat /\ a <= b
        <5>1. v \div radix \in Nat /\ w \div radix \in Nat
          BY <3>2
        <5>2. QED  BY <1>1, <4>1, <4>3, <4>4, <5>1
      <4>6. v \in Nat \ {0} /\ w \in Nat \ {0}
        BY <3>2
      <4>7. Len(Digits(v, radix)) = a + 1 /\ Len(Digits(w, radix)) = b + 1
        BY <1>2, <4>4, <4>6
      <4>8. QED  BY <4>5, <4>7
    <3>3. QED  BY <3>1, <3>2
  <2>2. QED  BY <2>1
<1>4. \A w \in Nat : w \in S
  <2> HIDE DEF S
  <2>1. QED  BY <1>3, StrongInduction
<1>5. QED  BY <1>4

(* The numeral of a number: its characters, and its length grows with it.   *)
LEMMA NumeralsGrow ==
    ASSUME NEW radix \in 2 .. 16
    PROVE  /\ \A v \in Nat : Numeral(v, radix) \in Seq(Char)
           /\ \A w \in Nat \ {0} : \A v \in 0 .. w :
                  Len(Numeral(v, radix)) <= Len(Numeral(w, radix))
<1>1. \A v \in Nat : Digits(v, radix) \in Seq(Char)
  BY DigitsAre, Zenon
<1>2. <<"0">> \in Seq(Char) /\ Len(<<"0">>) = 1
  BY DEF Char
<1>3. ASSUME NEW v \in Nat PROVE Numeral(v, radix) \in Seq(Char)
  BY <1>1, <1>2 DEF Numeral
<1>4. ASSUME NEW w \in Nat \ {0}, NEW v \in 0 .. w
      PROVE  Len(Numeral(v, radix)) <= Len(Numeral(w, radix))
  <2>1. Numeral(w, radix) = Digits(w, radix)
    BY DEF Numeral
  <2>2. CASE v = 0
    <3>1. Digits(w, radix) = Append(Digits(w \div radix, radix), Digit(w % radix))
      BY DigitsAre, Zenon
    <3>2. w \div radix \in Nat /\ w % radix \in 0 .. 15
      OBVIOUS
    <3>3. Digits(w \div radix, radix) \in Seq(Char) /\ Digit(w % radix) \in Char
      BY <1>1, <3>2, DigitIsCharacter
    <3>4. Len(Digits(w, radix)) >= 1
      BY <3>1, <3>3
    <3>5. Numeral(v, radix) = <<"0">>
      BY <2>2 DEF Numeral
    <3>6. QED  BY <1>2, <2>1, <3>4, <3>5
  <2>3. CASE v # 0
    <3>1. Numeral(v, radix) = Digits(v, radix)
      BY <2>3 DEF Numeral
    <3>2. w \in Nat
      OBVIOUS
    <3>3. Len(Digits(v, radix)) <= Len(Digits(w, radix))
      BY <3>2, DigitsGrow
    <3>4. QED  BY <2>1, <3>1, <3>3
  <2>4. QED  BY <2>2, <2>3
<1>5. QED  BY <1>3, <1>4

(* A number says its numeral, if that is not too long.                      *)
LEMMA NumberSaid ==
    ASSUME NEW radix \in 2 .. 16, NEW v \in Nat,
           Len(Numeral(v, radix)) <= DECIMAL_UINT64_MAX_DIGITS
    PROVE  SaysNumber(v, radix) = Numeral(v, radix)
<1> DEFINE Is(s) == /\ s \in Digitals(radix, 1 .. DECIMAL_UINT64_MAX_DIGITS)
                    /\ ValueOf(s, radix) = v /\ (Len(s) > 1 => s[1] # 0)
<1>1. PICK most \in Nat : most = DECIMAL_UINT64_MAX_DIGITS
  BY TextAssumption
<1>2. \A s : s \in Digitals(radix, 1 .. most)
                 <=> s \in Seq(0 .. radix - 1) /\ Len(s) \in 1 .. most
  <2>1. ASSUME NEW s, s \in Digitals(radix, 1 .. most)
        PROVE  s \in Seq(0 .. radix - 1) /\ Len(s) \in 1 .. most
    <3>1. PICK n \in 1 .. most : s \in [1 .. n -> 0 .. radix - 1]
      BY <2>1 DEF Digitals
    <3>2. QED  BY <3>1
  <2>2. ASSUME NEW s \in Seq(0 .. radix - 1), Len(s) \in 1 .. most
        PROVE  s \in Digitals(radix, 1 .. most)
    <3>1. s \in [1 .. Len(s) -> 0 .. radix - 1]
      OBVIOUS
    <3>2. QED  BY <2>2, <3>1 DEF Digitals
  <2>3. QED  BY <2>1, <2>2
<1>3. ValueOf(Append(<<>>, 0), radix) = 0 /\ Append(<<>>, 0) = <<0>>
  <2>1. <<>> \in Seq(0 .. radix - 1) /\ 0 \in 0 .. radix - 1
    OBVIOUS
  <2>2. ValueOf(Append(<<>>, 0), radix) = 0 * radix + 0
    BY <2>1, ValueAppend, ValueOfNone
  <2>3. QED  BY <2>2
<1>4. ASSUME NEW s, Is(s) PROVE Shown(s) = Numeral(v, radix)
  <2>1. s \in Seq(0 .. radix - 1) /\ Len(s) \in 1 .. most
    BY <1>1, <1>2, <1>4
  <2>2. CASE s[1] # 0
    <3>1. ValueOf(s, radix) = v /\ (Len(s) > 1 => s[1] # 0)
      BY ONLY <1>4
    <3>4. s \in Seq(0 .. radix - 1) /\ Len(s) > 0 /\ s[1] # 0
      BY <2>1, <2>2
    <3>5. ValueOf(s, radix) # 0 /\ Digits(ValueOf(s, radix), radix) = Shown(s)
      BY <3>4, LoopFinds
    <3>3. v # 0 /\ Digits(v, radix) = Shown(s)
      BY <3>1, <3>5
    <3>2. QED  BY <3>3 DEF Numeral
  <2>3. CASE s[1] = 0
    <3>1. Len(s) = 1
      <4>1. Len(s) > 1 => s[1] # 0
        BY ONLY <1>4
      <4>2. ~(Len(s) > 1)
        BY <2>3, <4>1, Zenon
      <4>3. PICK n \in 1 .. most : n = Len(s)
        BY <2>1
      <4>4. n = 1
        BY <4>2, <4>3
      <4>5. QED  BY <4>3, <4>4
    <3>2. s = <<0>>
      BY <2>1, <2>3, <3>1
    <3>3. v = 0
      <4>1. ValueOf(s, radix) = v
        BY ONLY <1>4
      <4>2. QED  BY <1>3, <3>2, <4>1
    <3>4. Shown(<<0>>) = <<"0">>
      BY DEF Shown, Digit
    <3>5. QED  BY <3>2, <3>3, <3>4 DEF Numeral
  <2>4. QED  BY <2>2, <2>3
<1>5. \E s : Is(s)
  <2>1. CASE v = 0
    <3>1. <<0>> \in Seq(0 .. radix - 1) /\ Len(<<0>>) = 1
      OBVIOUS
    <3>2. 1 \in 1 .. most
      <4>1. Numeral(v, radix) = <<"0">> /\ Len(<<"0">>) = 1
        BY <2>1 DEF Numeral
      <4>2. QED  BY <1>1, <4>1
    <3>3. Is(<<0>>)
      <4>1. <<0>> \in Digitals(radix, 1 .. most)
        BY <1>2, <3>1, <3>2
      <4>2. ValueOf(<<0>>, radix) = v
        BY <1>3, <2>1
      <4>3. QED  BY <1>1, <3>1, <4>1, <4>2
    <3>4. QED  BY <3>3
  <2>2. CASE v # 0
    <3>1. PICK s : HasDigits(v, s, radix)
      BY <2>2, DigitsExist
    <3>2. /\ s \in Seq(0 .. radix - 1) /\ Len(s) > 0 /\ s[1] # 0 /\ ValueOf(s, radix) = v
          /\ Len(s) \in Nat
      BY <3>1 DEF HasDigits
    <3>3. Numeral(v, radix) = Shown(s)
      BY <2>2, <3>2, LoopFinds DEF Numeral
    <3>4. Len(Shown(s)) = Len(s)
      BY <3>2 DEF Shown
    <3>5. Len(s) \in 1 .. most
      BY <1>1, <3>2, <3>3, <3>4
    <3>6. Is(s)
      BY <1>1, <1>2, <3>2, <3>5
    <3>7. QED  BY <3>6
  <2>3. QED  BY <2>1, <2>2
<1> DEFINE chosen == CHOOSE s \in Digitals(radix, 1 .. DECIMAL_UINT64_MAX_DIGITS) :
                         ValueOf(s, radix) = v /\ (Len(s) > 1 => s[1] # 0)
<1>6. Is(chosen)
  <2>1. \E s \in Digitals(radix, 1 .. DECIMAL_UINT64_MAX_DIGITS) :
            ValueOf(s, radix) = v /\ (Len(s) > 1 => s[1] # 0)
    BY <1>5
  <2>2. QED  BY <2>1, Zenon
<1>7. SaysNumber(v, radix) = Shown(chosen)
  BY Zenon DEF SaysNumber
<1> HIDE DEF Is, chosen
<1>8. QED  BY <1>4, <1>6, <1>7

(* Greater numbers are shifted to no smaller ones.                          *)
LEMMA ShiftGrows ==
    ASSUME NEW w \in Nat, NEW v \in 0 .. w
    PROVE  \A n \in Nat : Shift(v, n) <= Shift(w, n)
<1> DEFINE S == {n \in Nat : Shift(v, n) <= Shift(w, n)}
<1>1. Nibble \in 2 .. 16
  BY TextAssumption
<1>2. 0 \in S
  BY ShiftIs
<1>3. ASSUME NEW n \in Nat, n \in S PROVE n + 1 \in S
  <2>1. v \in Nat
    OBVIOUS
  <2>2. Shift(v, n + 1) = Shift(v, n) \div Nibble /\ Shift(v, n) \in Nat
    BY <2>1, ShiftIs
  <2>3. Shift(w, n + 1) = Shift(w, n) \div Nibble /\ Shift(w, n) \in Nat
    BY ShiftIs
  <2>4. PICK a, b : a = Shift(v, n) /\ b = Shift(w, n)
    OBVIOUS
  <2>5. a \in Nat /\ b \in Nat /\ a <= b
    BY <1>3, <2>2, <2>3, <2>4
  <2>6. a \div Nibble <= b \div Nibble
    BY ONLY <1>1, <2>5
  <2>7. QED  BY <2>2, <2>3, <2>4, <2>6
<1>4. \A n \in Nat : n \in S
  <2> HIDE DEF S
  <2>1. QED  BY <1>2, <1>3, Induction
<1>5. QED  BY <1>4

(* A hexadecimal number says the digits of its fixed width.                 *)
LEMMA HexSaid ==
    ASSUME NEW v \in Nat, NEW width \in Nat, Shift(v, width) = 0
    PROVE  hex_string(v, width) = SaysHex(v, width) /\ hex_string(v, width) \in Seq(Char)
<1> DEFINE Is(s) == s \in Digitals(Nibble, {width}) /\ ValueOf(s, Nibble) = v
           At(i) == Shift(v, width - i) % Nibble
<1>1. Nibble \in 2 .. 16
  BY TextAssumption
<1>2. \A s : s \in Digitals(Nibble, {width}) <=> s \in Seq(0 .. Nibble - 1) /\ Len(s) = width
  <2>1. \A s : s \in Digitals(Nibble, {width}) <=> s \in [1 .. width -> 0 .. Nibble - 1]
    BY DEF Digitals
  <2>2. ASSUME NEW s \in [1 .. width -> 0 .. Nibble - 1]
        PROVE  s \in Seq(0 .. Nibble - 1) /\ Len(s) = width
    BY <1>1
  <2>3. ASSUME NEW s \in Seq(0 .. Nibble - 1), Len(s) = width
        PROVE  s \in [1 .. width -> 0 .. Nibble - 1]
    BY <1>1, <2>3
  <2>4. QED  BY <2>1, <2>2, <2>3
<1>3. ASSUME NEW i \in 1 .. width
      PROVE  /\ Shift(v, width - i) \in Nat /\ At(i) \in 0 .. Nibble - 1
             /\ Shift(v, width - (i - 1)) = Shift(v, width - i) \div Nibble
             /\ Shift(v, width - (i - 1)) \in Nat
             /\ Shift(v, width - i) = Shift(v, width - (i - 1)) * Nibble + At(i)
  <2>1. PICK n \in Nat : n = width - i
    BY <1>3
  <2>2. width - (i - 1) = n + 1
    BY <2>1
  <2>3. Shift(v, n) \in Nat /\ Shift(v, n + 1) = Shift(v, n) \div Nibble /\ Shift(v, n + 1) \in Nat
    <3>1. n + 1 \in Nat
      OBVIOUS
    <3>2. QED  BY <3>1, ShiftIs
  <2>4. PICK a : a = Shift(v, n)
    OBVIOUS
  <2>5. a \in Nat /\ a % Nibble \in 0 .. Nibble - 1 /\ a = (a \div Nibble) * Nibble + (a % Nibble)
    <3>1. a \in Nat /\ Nibble \in Nat \ {0, 1}
      BY <1>1, <2>3, <2>4
    <3>2. QED  BY ONLY <3>1, Divided
  <2>6. QED  BY <2>1, <2>2, <2>3, <2>4, <2>5
<1>4. ASSUME NEW s, Is(s) PROVE Shown(s) = [i \in 1 .. width |-> Digit(At(i))]
  <2>1. s \in Seq(0 .. Nibble - 1) /\ Len(s) = width
    BY <1>2, <1>4
  <2>2. PICK f : IsValue(f, s, Nibble) /\ f[width] = v
    <3>1. PICK f : IsValue(f, s, Nibble) /\ ValueOf(s, Nibble) = f[Len(s)]
      BY <1>1, <2>1, ValueIs
    <3>2. ValueOf(s, Nibble) = v
      BY ONLY <1>4
    <3>3. QED  BY <2>1, <3>1, <3>2
  <2>3. \A j \in Nat : j <= width => f[width - j] = Shift(v, j)
    <3> DEFINE S == {j \in Nat : j <= width => f[width - j] = Shift(v, j)}
    <3>1. 0 \in S
      <4>1. Shift(v, 0) = v /\ width - 0 = width
        BY ShiftIs
      <4>2. QED  BY <2>2, <4>1
    <3>2. ASSUME NEW j \in Nat, j \in S, j + 1 <= width PROVE f[width - (j + 1)] = Shift(v, j + 1)
      <4>1. PICK k \in 1 .. width : k = width - j
        BY <3>2
      <4>2. k - 1 = width - (j + 1) /\ f[k] = Shift(v, j)
        BY <3>2, <4>1
      <4>3. f[k] \div Nibble = f[k - 1]
        <5>1. k \in 1 .. Len(s)
          BY <2>1
        <5>2. QED  BY ONLY <1>1, <2>1, <2>2, <5>1, LastDigit
      <4>4. Shift(v, j + 1) = Shift(v, j) \div Nibble
        BY ShiftIs
      <4>5. QED  BY <4>2, <4>3, <4>4
    <3>3. \A j \in Nat : j \in S => j + 1 \in S
      BY <3>2
    <3> HIDE DEF S
    <3>4. \A j \in Nat : j \in S
      BY <3>1, <3>3, Induction
    <3>5. QED  BY <3>4 DEF S
  <2>4. ASSUME NEW i \in 1 .. width PROVE s[i] = At(i)
    <3>1. width - i \in Nat /\ width - i <= width /\ width - (width - i) = i
      OBVIOUS
    <3>2. f[i] = Shift(v, width - i)
      BY <2>3, <3>1
    <3>3. f[i] % Nibble = s[i]
      <4>1. i \in 1 .. Len(s)
        BY <2>1
      <4>2. QED  BY ONLY <1>1, <2>1, <2>2, <4>1, LastDigit
    <3>4. QED  BY <3>2, <3>3
  <2>5. DOMAIN s = 1 .. width
    BY <2>1
  <2> HIDE DEF At
  <2>6. QED  BY <2>4, <2>5 DEF Shown
<1>5. \E s : Is(s)
  <2>1. PICK s : s = [i \in 1 .. width |-> At(i)]
    OBVIOUS
  <2>2. s \in Seq(0 .. Nibble - 1) /\ Len(s) = width /\ \A i \in 1 .. width : s[i] = At(i)
    <3> HIDE DEF At
    <3>1. s \in [1 .. width -> 0 .. Nibble - 1]
      BY <1>3, <2>1
    <3>2. QED  BY <2>1, <3>1
  <2>3. PICK f : f = [k \in 0 .. width |-> Shift(v, width - k)]
    OBVIOUS
  <2>4. IsValue(f, s, Nibble)
    <3>1. f \in [0 .. width -> Nat]
      <4>1. \A k \in 0 .. width : width - k \in Nat
        OBVIOUS
      <4>2. \A k \in 0 .. width : Shift(v, width - k) \in Nat
        BY <4>1, ShiftIs
      <4>3. QED  BY <2>3, <4>2
    <3>2. f[0] = 0
      <4>1. 0 \in 0 .. width /\ width - 0 = width
        OBVIOUS
      <4>2. QED  BY <2>3, <4>1
    <3>3. ASSUME NEW k \in 1 .. width PROVE f[k] = f[k - 1] * Nibble + s[k]
      <4>1. k \in 0 .. width /\ k - 1 \in 0 .. width
        OBVIOUS
      <4>2. f[k] = Shift(v, width - k) /\ f[k - 1] = Shift(v, width - (k - 1))
        BY <2>3, <4>1
      <4> HIDE DEF At
      <4>3. QED  BY <1>3, <2>2, <4>2
    <3>4. QED  BY <2>2, <3>1, <3>2, <3>3 DEF IsValue
  <2>5. f[width] = v
    <3>1. width \in 0 .. width /\ width - width = 0
      OBVIOUS
    <3>2. QED  BY <2>3, <3>1, ShiftIs
  <2>6. ValueOf(s, Nibble) = v
    <3>1. ValueOf(s, Nibble) = f[Len(s)]
      BY ONLY <1>1, <2>2, <2>4, OneValue
    <3>2. QED  BY <2>2, <2>5, <3>1
  <2>7. Is(s)
    BY <1>2, <2>2, <2>6
  <2>8. QED  BY <2>7
<1>6. PICK s : s = CHOOSE t : Is(t)
  OBVIOUS
<1>7. Is(s)
  <2> HIDE DEF Is
  <2>1. QED  BY <1>5, <1>6
<1>8. SaysHex(v, width) = <<"0", "x">> \o Shown(CHOOSE t \in Digitals(Nibble, {width}) : ValueOf(t, Nibble) = v)
  BY Zenon DEF SaysHex
<1>9. SaysHex(v, width) = <<"0", "x">> \o [i \in 1 .. width |-> Digit(At(i))]
  BY <1>4, <1>6, <1>7, <1>8
<1>10. [i \in 1 .. width |-> Digit(At(i))] \in Seq(Char)
  <2>1. ASSUME NEW i \in 1 .. width PROVE Digit(At(i)) \in Char
    <3>1. At(i) \in 0 .. 15
      <4>1. At(i) \in 0 .. Nibble - 1
        BY <1>3
      <4> HIDE DEF At
      <4>2. QED  BY <1>1, <4>1
    <3>2. QED  BY <3>1, DigitIsCharacter
  <2> HIDE DEF At
  <2>2. QED  BY <2>1
<1>11. hex_string(v, width) = <<"0", "x">> \o [i \in 1 .. width |-> Digit(At(i))]
  BY Zenon DEF hex_string
<1>12. <<"0", "x">> \in Seq(Char)
  BY DEF Char
<1>13. QED  BY <1>9, <1>10, <1>11, <1>12

(* The beginning of a text.                                                 *)
LEMMA CutIs ==
    ASSUME NEW S, NEW t \in Seq(S), NEW room \in Nat
    PROVE  /\ Cut(t, room) \in Seq(S)
           /\ Len(Cut(t, room)) = IF Len(t) < room THEN Len(t) ELSE room
           /\ \A i \in 1 .. Len(Cut(t, room)) : Cut(t, room)[i] = t[i]
           /\ Len(t) <= room => Cut(t, room) = t
<1>1. PICK n \in 0 .. Len(t) : n = IF Len(t) < room THEN Len(t) ELSE room
  OBVIOUS
<1>2. Cut(t, room) = SubSeq(t, 1, n)
  BY <1>1 DEF Cut
<1>3. /\ SubSeq(t, 1, n) \in Seq(S) /\ Len(SubSeq(t, 1, n)) = n
      /\ \A i \in 1 .. n : SubSeq(t, 1, n)[i] = t[i]
  OBVIOUS
<1>4. n = Len(t) => SubSeq(t, 1, n) = t
  BY <1>3
<1>5. QED  BY <1>1, <1>2, <1>3, <1>4

(* The beginning of one text after another.                                 *)
LEMMA CutChained ==
    ASSUME NEW S, NEW s \in Seq(S), NEW t \in Seq(S), NEW room \in Nat
    PROVE  /\ Len(s) >= room => Cut(s \o t, room) = Cut(s, room)
           /\ \A less \in 0 .. room : Cut(Cut(s, room), less) = Cut(s, less)
<1>1. s \o t \in Seq(S) /\ Len(s \o t) = Len(s) + Len(t) /\ Len(s) \in Nat /\ Len(t) \in Nat
      /\ \A i \in 1 .. Len(s) : (s \o t)[i] = s[i]
  OBVIOUS
<1>2. ASSUME Len(s) >= room PROVE Cut(s \o t, room) = Cut(s, room)
  <2>1. PICK a, b : a = Cut(s \o t, room) /\ b = Cut(s, room)
    OBVIOUS
  <2>2. /\ a \in Seq(S) /\ Len(a) = room /\ \A i \in 1 .. Len(a) : a[i] = (s \o t)[i]
        /\ b \in Seq(S) /\ Len(b) = room /\ \A i \in 1 .. Len(b) : b[i] = s[i]
    <3>1. /\ a \in Seq(S) /\ Len(a) = (IF Len(s \o t) < room THEN Len(s \o t) ELSE room)
          /\ \A i \in 1 .. Len(a) : a[i] = (s \o t)[i]
      BY <1>1, <2>1, CutIs
    <3>2. /\ b \in Seq(S) /\ Len(b) = (IF Len(s) < room THEN Len(s) ELSE room)
          /\ \A i \in 1 .. Len(b) : b[i] = s[i]
      BY <2>1, CutIs
    <3>3. QED  BY <1>1, <1>2, <3>1, <3>2
  <2>3. \A i \in 1 .. room : a[i] = b[i]
    BY <1>1, <1>2, <2>2
  <2>4. a = b
    BY <2>2, <2>3
  <2>5. QED  BY <2>1, <2>4
<1>3. ASSUME NEW less \in 0 .. room PROVE Cut(Cut(s, room), less) = Cut(s, less)
  <2>1. PICK c : c = Cut(s, room)
    OBVIOUS
  <2>2. PICK a, b : a = Cut(c, less) /\ b = Cut(s, less)
    OBVIOUS
  <2>3. /\ c \in Seq(S) /\ Len(c) = (IF Len(s) < room THEN Len(s) ELSE room)
        /\ \A i \in 1 .. Len(c) : c[i] = s[i]
    BY <2>1, CutIs
  <2>4. less \in Nat
    OBVIOUS
  <2>5. /\ a \in Seq(S) /\ Len(a) = (IF Len(c) < less THEN Len(c) ELSE less)
        /\ \A i \in 1 .. Len(a) : a[i] = c[i]
    BY <2>2, <2>3, <2>4, CutIs
  <2>6. /\ b \in Seq(S) /\ Len(b) = (IF Len(s) < less THEN Len(s) ELSE less)
        /\ \A i \in 1 .. Len(b) : b[i] = s[i]
    BY <2>2, <2>4, CutIs
  <2>7. Len(a) = Len(b) /\ \A i \in 1 .. Len(a) : i \in 1 .. Len(c) /\ i \in 1 .. Len(b)
    BY <1>1, <2>3, <2>5, <2>6
  <2>8. \A i \in 1 .. Len(a) : a[i] = b[i]
    BY <2>3, <2>5, <2>6, <2>7
  <2>9. a = b
    BY <2>5, <2>6, <2>7, <2>8
  <2>10. QED  BY <2>1, <2>2, <2>9
<1>4. QED  BY <1>2, <1>3

-----------------------------------------------------------------------------
(* Every number that a word can hold says its numeral.                      *)
LEMMA WordsSaid ==
    /\ \A v \in 0 .. Word32 - 1 :
           /\ decimal_string(v, DECIMAL_UINT32_MAX_DIGITS) = SaysNumber(v, Ten)
           /\ Numeral(v, Nibble) = SaysNumber(v, Nibble)
           /\ hex_string(v, HexDigits32) = SaysHex(v, HexDigits32)
           /\ SaysNumber(v, Nibble) \in Seq(Char)
           /\ SaysHex(v, HexDigits32) \in Seq(Char)
    /\ \A v \in 0 .. Word64 - 1 :
           /\ decimal_string(v, DECIMAL_UINT64_MAX_DIGITS) = SaysNumber(v, Ten)
           /\ Numeral(v, Ten) = SaysNumber(v, Ten)
           /\ hex_string(v, HexDigits64) = SaysHex(v, HexDigits64)
           /\ SaysNumber(v, Ten) \in Seq(Char)
           /\ SaysHex(v, HexDigits64) \in Seq(Char)
<1>1. /\ Ten \in 2 .. 16 /\ Nibble \in 2 .. 16
      /\ Word32 - 1 \in Nat \ {0} /\ Word64 - 1 \in Nat \ {0} /\ Word32 < Word64
      /\ Word32 \in Nat /\ Word64 \in Nat
      /\ DECIMAL_UINT32_MAX_DIGITS \in Nat /\ DECIMAL_UINT64_MAX_DIGITS \in Nat
      /\ HexDigits32 \in Nat /\ HexDigits64 \in Nat
  BY TextAssumption
<1>2. ASSUME NEW v \in 0 .. Word64 - 1
      PROVE  /\ Len(Numeral(v, Ten)) <= DECIMAL_UINT64_MAX_DIGITS
             /\ Numeral(v, Ten) \in Seq(Char)
             /\ Numeral(v, Ten) = SaysNumber(v, Ten)
  <2>1. v \in Nat
    BY <1>1
  <2>2. Numeral(v, Ten) \in Seq(Char) /\ Numeral(Word64 - 1, Ten) \in Seq(Char)
    BY <1>1, <2>1, NumeralsGrow
  <2>3. Len(Numeral(v, Ten)) <= Len(Numeral(Word64 - 1, Ten))
    BY <1>1, NumeralsGrow
  <2>4. Len(Numeral(Word64 - 1, Ten)) <= DECIMAL_UINT64_MAX_DIGITS
    BY NumbersFit
  <2>5. Len(Numeral(v, Ten)) <= DECIMAL_UINT64_MAX_DIGITS
    <3>1. Len(Numeral(v, Ten)) \in Nat /\ Len(Numeral(Word64 - 1, Ten)) \in Nat
      BY <2>2
    <3>2. QED  BY <1>1, <2>3, <2>4, <3>1
  <2>6. QED  BY <1>1, <2>1, <2>2, <2>5, NumberSaid
<1>3. ASSUME NEW v \in 0 .. Word32 - 1
      PROVE  /\ Len(Numeral(v, Ten)) <= DECIMAL_UINT32_MAX_DIGITS
             /\ Numeral(v, Nibble) \in Seq(Char)
             /\ Numeral(v, Nibble) = SaysNumber(v, Nibble)
             /\ v \in 0 .. Word64 - 1
  <2>1. v \in Nat /\ v \in 0 .. Word64 - 1
    BY <1>1
  <2>2. /\ Numeral(v, Ten) \in Seq(Char) /\ Numeral(Word32 - 1, Ten) \in Seq(Char)
        /\ Numeral(v, Nibble) \in Seq(Char) /\ Numeral(Word32 - 1, Nibble) \in Seq(Char)
    BY <1>1, <2>1, NumeralsGrow
  <2>3. /\ Len(Numeral(v, Ten)) <= Len(Numeral(Word32 - 1, Ten))
        /\ Len(Numeral(v, Nibble)) <= Len(Numeral(Word32 - 1, Nibble))
    BY <1>1, NumeralsGrow
  <2>4. /\ Len(Numeral(Word32 - 1, Ten)) <= DECIMAL_UINT32_MAX_DIGITS
        /\ Len(Numeral(Word32 - 1, Nibble)) <= DECIMAL_UINT64_MAX_DIGITS
    BY NumbersFit
  <2>5. /\ Len(Numeral(v, Ten)) <= DECIMAL_UINT32_MAX_DIGITS
        /\ Len(Numeral(v, Nibble)) <= DECIMAL_UINT64_MAX_DIGITS
    <3>1. /\ Len(Numeral(v, Ten)) \in Nat /\ Len(Numeral(Word32 - 1, Ten)) \in Nat
          /\ Len(Numeral(v, Nibble)) \in Nat /\ Len(Numeral(Word32 - 1, Nibble)) \in Nat
      BY <2>2
    <3>2. QED  BY <1>1, <2>3, <2>4, <3>1
  <2>6. QED  BY <1>1, <2>1, <2>2, <2>5, NumberSaid
<1>4. ASSUME NEW w \in Nat, NEW width \in Nat, Shift(w, width) = 0, NEW v \in 0 .. w
      PROVE  hex_string(v, width) = SaysHex(v, width) /\ SaysHex(v, width) \in Seq(Char)
  <2>1. v \in Nat
    OBVIOUS
  <2>2. Shift(v, width) \in Nat
    BY <2>1, ShiftIs
  <2>3. Shift(v, width) <= Shift(w, width)
    BY ShiftGrows
  <2>4. Shift(v, width) = 0
    BY <1>4, <2>2, <2>3
  <2>5. QED  BY <2>1, <2>4, HexSaid
<1>5. \A v \in 0 .. Word32 - 1 :
          hex_string(v, HexDigits32) = SaysHex(v, HexDigits32) /\ SaysHex(v, HexDigits32) \in Seq(Char)
  <2>1. Shift(Word32 - 1, HexDigits32) = 0 /\ Word32 - 1 \in Nat
    BY <1>1, NumbersFit
  <2>2. QED  BY <1>1, <1>4, <2>1
<1>6. \A v \in 0 .. Word64 - 1 :
          hex_string(v, HexDigits64) = SaysHex(v, HexDigits64) /\ SaysHex(v, HexDigits64) \in Seq(Char)
  <2>1. Shift(Word64 - 1, HexDigits64) = 0 /\ Word64 - 1 \in Nat
    BY <1>1, NumbersFit
  <2>2. QED  BY <1>1, <1>4, <2>1
<1>7. ASSUME NEW v \in 0 .. Word64 - 1
      PROVE  decimal_string(v, DECIMAL_UINT64_MAX_DIGITS) = SaysNumber(v, Ten)
  <2>1. Len(Numeral(v, Ten)) \in Nat
    BY <1>2
  <2>2. ~(Len(Numeral(v, Ten)) > DECIMAL_UINT64_MAX_DIGITS)
    BY <1>1, <1>2, <2>1
  <2>3. QED  BY <1>2, <2>2 DEF decimal_string
<1>8. ASSUME NEW v \in 0 .. Word32 - 1
      PROVE  decimal_string(v, DECIMAL_UINT32_MAX_DIGITS) = SaysNumber(v, Ten)
  <2>1. Len(Numeral(v, Ten)) \in Nat /\ Numeral(v, Ten) = SaysNumber(v, Ten)
    BY <1>2, <1>3
  <2>2. ~(Len(Numeral(v, Ten)) > DECIMAL_UINT32_MAX_DIGITS)
    BY <1>1, <1>3, <2>1
  <2>3. QED  BY <2>1, <2>2 DEF decimal_string
<1>9. QED  BY <1>2, <1>3, <1>5, <1>6, <1>7, <1>8

(* So do the functions that write numbers.                                  *)
THEOREM NumbersSaid ==
    /\ \A v \in Int :
           /\ uint32_to_decimal_string(v) = SaysNumber(v % Word32, Ten)
           /\ uint32_to_hex_string(v) = SaysHex(v % Word32, HexDigits32)
           /\ SaysNumber(v % Word32, Ten) \in Seq(Char)
           /\ SaysHex(v % Word32, HexDigits32) \in Seq(Char)
    /\ \A v \in 0 .. Word64 - 1 :
           /\ uint64_to_decimal_string(v) = SaysNumber(v, Ten)
           /\ uint64_to_hex_string(v) = SaysHex(v, HexDigits64)
           /\ SaysNumber(v, Ten) \in Seq(Char)
           /\ SaysHex(v, HexDigits64) \in Seq(Char)
<1>1. Word32 \in Nat \ {0} /\ Word64 \in Nat \ {0} /\ Word32 < Word64
  BY TextAssumption
<1>2. \A v \in Int : v % Word32 \in 0 .. Word32 - 1 /\ v % Word32 \in 0 .. Word64 - 1
  BY <1>1
<1>3. \A v \in 0 .. Word64 - 1 : v % Word64 = v
  BY <1>1
<1>4. QED  BY <1>2, <1>3, WordsSaid DEF uint32_to_decimal_string, uint32_to_hex_string,
               uint64_to_decimal_string, uint64_to_hex_string

(* The magnitude of a negative number, by both of its definitions.          *)
LEMMA Magnitudes ==
    ASSUME NEW W \in Nat \ {0, 1}, NEW v \in -(W \div 2) .. -1
    PROVE  Magnitude(v, W) = -v /\ SafeNegation(v, W) = -v /\ -v \in 1 .. W - 1
<1>1. -v \in 1 .. W - 1 /\ v + W \in 0 .. W - 1 /\ -(v + 1) \in 0 .. W - 1
  OBVIOUS
<1>2. v % W = v + W
  BY <1>1
<1>3. (0 - (v + W)) % W = -v
  BY <1>1
<1>4. (-(v + 1)) % W = -(v + 1)
  BY <1>1
<1>5. QED  BY <1>1, <1>2, <1>3, <1>4 DEF Magnitude, SafeNegation

-----------------------------------------------------------------------------
(* The log: its messages and lines.                                         *)

(* A sequence of members of a set is one of members of a greater set.       *)
LEMMA SeqGrows ==
    ASSUME NEW S, NEW T, S \subseteq T, NEW s \in Seq(S)
    PROVE  s \in Seq(T)
<1>1. Len(s) \in Nat /\ s \in [1 .. Len(s) -> S]
  OBVIOUS
<1>2. s \in [1 .. Len(s) -> T]
  BY <1>1
<1>3. QED  BY <1>1, <1>2

(* A signed number says its sign and its magnitude.                         *)
LEMMA SignedSaid ==
    ASSUME NEW W \in {Word32, Word64}, NEW v \in -(W \div 2) .. W \div 2 - 1
    PROVE  /\ signed_text(v, W) = SaysSigned(v)
           /\ SaysSigned(v) \in Seq(Char)
           /\ v < 0 => /\ SaysSigned(v) = <<"-">> \o SaysNumber(-v, Ten)
                       /\ Tail(SaysSigned(v)) = SaysNumber(-v, Ten)
                       /\ SaysNumber(-v, Ten) \in Seq(Char)
                       /\ Magnitude(v, W) = -v /\ -v \in 0 .. W - 1
<1>1. W \in Nat \ {0, 1} /\ W - 1 <= Word64 - 1 /\ Word64 \in Nat
  BY TextAssumption
<1>2. CASE v < 0
  <2>1. v \in -(W \div 2) .. -1
    BY <1>1, <1>2
  <2>2. Magnitude(v, W) = -v /\ SafeNegation(v, W) = -v /\ -v \in 1 .. W - 1
    BY ONLY <1>1, <2>1, Magnitudes
  <2>3. -v \in 0 .. Word64 - 1 /\ -v \in 0 .. W - 1
    BY <1>1, <2>2
  <2>4. Numeral(-v, Ten) = SaysNumber(-v, Ten) /\ SaysNumber(-v, Ten) \in Seq(Char)
    BY <2>3, WordsSaid
  <2>5. PICK t \in Seq(Char) : t = SaysNumber(-v, Ten)
    BY <2>4
  <2>6. "-" \in Char
    BY DEF Char
  <2>7. <<"-">> \o t \in Seq(Char) /\ Tail(<<"-">> \o t) = t
    <3>1. <<"-">> \in Seq(Char)
      BY <2>6
    <3>2. QED  BY <3>1
  <2>8. SaysSigned(v) = <<"-">> \o t
    BY <1>2, <2>5 DEF SaysSigned
  <2>9. signed_text(v, W) = <<"-">> \o t
    BY <1>2, <2>2, <2>4, <2>5 DEF signed_text
  <2>10. QED  BY <2>2, <2>3, <2>5, <2>7, <2>8, <2>9
<1>3. CASE ~(v < 0)
  <2>1. v \in 0 .. Word64 - 1
    BY <1>1, <1>3
  <2>2. Numeral(v, Ten) = SaysNumber(v, Ten) /\ SaysNumber(v, Ten) \in Seq(Char)
    BY <2>1, WordsSaid
  <2>3. QED  BY <1>3, <2>2 DEF SaysSigned, signed_text
<1>4. QED  BY <1>2, <1>3

(* An item whose argument is of the right type, or a literal character.     *)
Told(item) ==
    item[2] \in Arguments(item[1]) \/ (item[1] = "literal" /\ item[2] \in Char)

(* What the code makes of such an item is what it says.                     *)
LEMMA ItemSaid ==
    ASSUME NEW item, Told(item)
    PROVE  ItemText(item) = SaysItem(item) /\ ItemText(item) \in Seq(Char)
<1>1. PICK spec, x : spec = item[1] /\ x = item[2]
  OBVIOUS
<1>2. x \in Arguments(spec) \/ (spec = "literal" /\ x \in Char)
  BY <1>1 DEF Told
<1>3. Word32 \in {Word32, Word64} /\ Word64 \in {Word32, Word64}
  OBVIOUS
<1>4. <<"0", "x">> \in Seq(Char)
  BY DEF Char
<1>5. 0 .. Word32 - 1 \subseteq 0 .. Word64 - 1
  BY TextAssumption
<1>6. CASE spec = "%d"
  <2>1. x \in -(Word32 \div 2) .. Word32 \div 2 - 1
    BY <1>2, <1>6 DEF Arguments
  <2>2. signed_text(x, Word32) = SaysSigned(x) /\ SaysSigned(x) \in Seq(Char)
    BY <1>3, <2>1, SignedSaid
  <2>3. ItemText(item) = signed_text(x, Word32) /\ SaysItem(item) = SaysSigned(x)
    BY <1>1, <1>6 DEF ItemText, SaysItem
  <2>4. QED  BY <2>2, <2>3
<1>7. CASE spec = "%lld"
  <2>1. x \in -(Word64 \div 2) .. Word64 \div 2 - 1
    BY <1>2, <1>7 DEF Arguments
  <2>2. signed_text(x, Word64) = SaysSigned(x) /\ SaysSigned(x) \in Seq(Char)
    BY <1>3, <2>1, SignedSaid
  <2>3. ItemText(item) = signed_text(x, Word64) /\ SaysItem(item) = SaysSigned(x)
    BY <1>1, <1>7 DEF ItemText, SaysItem
  <2>4. QED  BY <2>2, <2>3
<1>8. CASE spec \in {"%u", "%llu", "%zu"}
  <2>1. x \in 0 .. Word64 - 1
    BY <1>2, <1>5, <1>8 DEF Arguments
  <2>2. ItemText(item) = Numeral(x, Ten) /\ SaysItem(item) = SaysNumber(x, Ten)
    BY <1>1, <1>8 DEF ItemText, SaysItem
  <2>3. QED  BY <2>1, <2>2, WordsSaid
<1>9. CASE spec = "%x"
  <2>1. x \in 0 .. Word32 - 1
    BY <1>2, <1>9 DEF Arguments
  <2>2. /\ ItemText(item) = <<"0", "x">> \o Numeral(x, Nibble)
        /\ SaysItem(item) = <<"0", "x">> \o SaysNumber(x, Nibble)
    BY <1>1, <1>9 DEF ItemText, SaysItem, append_hex
  <2>3. Numeral(x, Nibble) = SaysNumber(x, Nibble) /\ SaysNumber(x, Nibble) \in Seq(Char)
    BY <2>1, WordsSaid
  <2>4. QED  BY <1>4, <2>2, <2>3
<1>10. CASE spec \in {"%llx", "%p"}
  <2>1. x \in 0 .. Word64 - 1
    BY <1>2, <1>10 DEF Arguments
  <2>2. ItemText(item) = hex_string(x, HexDigits64) /\ SaysItem(item) = SaysHex(x, HexDigits64)
    BY <1>1, <1>10 DEF ItemText, SaysItem
  <2>3. QED  BY <2>1, <2>2, WordsSaid
<1>11. CASE spec \notin {"%d", "%lld", "%u", "%llu", "%zu", "%x", "%llx", "%p"}
  <2>1. SaysItem(item) = ItemText(item)
    BY <1>1, <1>11 DEF SaysItem
  <2>2. CASE spec = "%s"
    <3>1. x \in Seq(STRING)
      BY <1>2, <2>2 DEF Arguments
    <3>2. STRING \subseteq Char
      BY DEF Char
    <3>3. x \in Seq(Char)
      BY <3>1, <3>2, SeqGrows
    <3>4. ItemText(item) = x
      BY <1>1, <2>2 DEF ItemText
    <3>5. QED  BY <2>1, <3>3, <3>4
  <2>3. CASE spec = "%%"
    <3>1. ItemText(item) = <<"%">>
      BY <1>1, <2>3 DEF ItemText
    <3>2. <<"%">> \in Seq(Char)
      BY DEF Char
    <3>3. QED  BY <2>1, <3>1, <3>2
  <2>4. CASE spec = "%"
    <3>1. ItemText(item) = <<>>
      BY <1>1, <2>4 DEF ItemText
    <3>2. QED  BY <2>1, <3>1
  <2>5. CASE spec = "%ll"
    <3>1. x \in Char /\ "%" \in Char /\ "l" \in Char
      BY <1>2, <2>5 DEF Arguments, Char
    <3>2. <<"%", "l", "l", x>> \in Seq(Char)
      BY <3>1
    <3>3. ItemText(item) = <<"%", "l", "l", x>>
      BY <1>1, <2>5 DEF ItemText
    <3>4. QED  BY <2>1, <3>2, <3>3
  <2>6. CASE spec \notin {"%s", "%%", "%", "%ll"}
    <3>1. x \in STRING \/ x \in Char
      BY <1>2, <1>11, <2>6 DEF Arguments
    <3>2. x \in Char /\ "%" \in Char
      BY <3>1 DEF Char
    <3>3. ItemText(item) = <<x>> \/ ItemText(item) = <<"%", x>>
      BY <1>1, <1>11, <2>6 DEF ItemText
    <3>4. <<x>> \in Seq(Char) /\ <<"%", x>> \in Seq(Char)
      BY <3>2
    <3>5. QED  BY <2>1, <3>3, <3>4
  <2>7. QED  BY <2>2, <2>3, <2>4, <2>5, <2>6
<1>12. QED  BY <1>6, <1>7, <1>8, <1>9, <1>10, <1>11

(* P[k] is what the first k of n texts make one after the other.            *)
Joined(P, s, n) ==
    /\ P \in [0 .. n -> Seq(Char)] /\ P[0] = <<>>
    /\ \A k \in 1 .. n : P[k] = P[k - 1] \o s[k]

(* Flattening a sequence of texts joins them so.                           *)
LEMMA FlattenIs ==
    ASSUME NEW n \in Nat, NEW seqs \in [1 .. n -> Seq(Char)]
    PROVE  \E P : Joined(P, seqs, n) /\ FlattenSeq(seqs) = P[n]
<1> DEFINE Is(f) == f = [i \in 1 .. n |-> IF i = 1 THEN seqs[i] ELSE f[i - 1] \o seqs[i]]
           before == [k \in Nat |-> IF k = 0 THEN 0 ELSE k - 1]
           G == [p \in Nat \X Seq(Char) |-> IF p[1] \in 1 .. n THEN p[2] \o seqs[p[1]] ELSE <<>>]
<1>1. Len(seqs) = n
  OBVIOUS
<1>2. before \in [Nat -> Nat] /\ \A v \in Nat \ {0} : before[v] < v
  OBVIOUS
<1>3. G \in [Nat \X Seq(Char) -> Seq(Char)]
  <2>1. ASSUME NEW p \in Nat \X Seq(Char)
        PROVE  (IF p[1] \in 1 .. n THEN p[2] \o seqs[p[1]] ELSE <<>>) \in Seq(Char)
    <3>1. CASE p[1] \in 1 .. n
      <4>1. p[2] \in Seq(Char) /\ seqs[p[1]] \in Seq(Char)
        BY <3>1
      <4>2. QED  BY <3>1, <4>1
    <3>2. QED  BY <3>1
  <2>2. QED  BY <2>1
<1>4. PICK g : IsRecursion(g, Seq(Char), <<>>, before, G)
  <2> HIDE DEF G, before
  <2>1. <<>> \in Seq(Char)
    OBVIOUS
  <2>2. QED  BY <1>2, <1>3, <2>1, RecursionExists
<1>5. g \in [Nat -> Seq(Char)] /\ g[0] = <<>>
  BY <1>4 DEF IsRecursion
<1>6. ASSUME NEW k \in 1 .. n PROVE g[k] = g[k - 1] \o seqs[k]
  <2>1. before[k] = k - 1 /\ k - 1 \in Nat /\ k \in Nat \ {0}
    OBVIOUS
  <2>2. g[k] = G[<<k, g[k - 1]>>] /\ <<k, g[k - 1]>> \in Nat \X Seq(Char)
    BY <1>4, <1>5, <2>1 DEF IsRecursion
  <2>3. QED  BY <2>2
<1>7. PICK P : P = [k \in 0 .. n |-> g[k]]
  OBVIOUS
<1>8. Joined(P, seqs, n)
  <2>1. P \in [0 .. n -> Seq(Char)] /\ P[0] = <<>>
    BY <1>5, <1>7
  <2>2. ASSUME NEW k \in 1 .. n PROVE P[k] = P[k - 1] \o seqs[k]
    <3>1. k \in 0 .. n /\ k - 1 \in 0 .. n
      OBVIOUS
    <3>2. P[k] = g[k] /\ P[k - 1] = g[k - 1]
      BY <1>7, <3>1
    <3>3. QED  BY <1>6, <3>2
  <2>3. QED  BY <2>1, <2>2 DEF Joined
<1>9. CASE n = 0
  <2>1. seqs = <<>>
    BY <1>9
  <2>2. FlattenSeq(seqs) = seqs
    BY <1>1, <1>9 DEF FlattenSeq
  <2>3. P[n] = <<>>
    BY <1>8, <1>9 DEF Joined
  <2>4. QED  BY <1>8, <2>1, <2>2, <2>3
<1>10. CASE n # 0
  <2>1. Is([i \in 1 .. n |-> g[i]])
    <3>1. PICK f : f = [i \in 1 .. n |-> g[i]]
      OBVIOUS
    <3>2. ASSUME NEW i \in 1 .. n PROVE f[i] = IF i = 1 THEN seqs[i] ELSE f[i - 1] \o seqs[i]
      <4>1. f[i] = g[i - 1] \o seqs[i]
        BY <1>6, <3>1
      <4>2. CASE i = 1
        <5>1. seqs[i] \in Seq(Char) /\ g[i - 1] = <<>>
          BY <1>5, <4>2
        <5>2. <<>> \o seqs[i] = seqs[i]
          BY <5>1
        <5>3. QED  BY <4>1, <4>2, <5>1, <5>2
      <4>3. CASE i # 1
        <5>1. i - 1 \in 1 .. n
          BY <4>3
        <5>2. f[i - 1] = g[i - 1]
          BY <3>1, <5>1
        <5>3. QED  BY <4>1, <4>3, <5>2
      <4>4. QED  BY <4>2, <4>3
    <3>3. f = [i \in 1 .. n |-> f[i]]
      BY <3>1
    <3>4. Is(f)
      BY <3>2, <3>3
    <3>5. QED  BY <3>1, <3>4
  <2>2. PICK d : d = CHOOSE f : Is(f)
    OBVIOUS
  <2>3. Is(d)
    <3> HIDE DEF Is
    <3>1. QED  BY <2>1, <2>2
  <2>4. FlattenSeq(seqs) = d[n]
    <3>1. Len(seqs) # 0
      BY <1>1, <1>10
    <3>2. FlattenSeq(seqs) =
              (CHOOSE f : f = [i \in 1 .. Len(seqs) |->
                                   IF i = 1 THEN seqs[i] ELSE f[i - 1] \o seqs[i]])[Len(seqs)]
      BY <3>1, Zenon DEF FlattenSeq
    <3>3. QED  BY <1>1, <2>2, <3>2
  <2>5. \A k \in 1 .. n : d[k] = IF k = 1 THEN seqs[k] ELSE d[k - 1] \o seqs[k]
    BY <2>3
  <2> DEFINE S == {k \in Nat : k + 1 <= n => d[k + 1] = g[k + 1]}
  <2>6. 0 \in S
    <3>1. 1 \in 1 .. n
      BY <1>10
    <3>2. d[1] = seqs[1] /\ g[1] = g[1 - 1] \o seqs[1] /\ g[1 - 1] = <<>> /\ seqs[1] \in Seq(Char)
      <4>1. d[1] = IF 1 = 1 THEN seqs[1] ELSE d[1 - 1] \o seqs[1]
        BY <2>5, <3>1
      <4>2. g[1] = g[1 - 1] \o seqs[1] /\ seqs[1] \in Seq(Char)
        BY <1>6, <3>1
      <4>3. g[1 - 1] = <<>>
        BY <1>5
      <4>4. QED  BY <4>1, <4>2, <4>3
    <3>3. d[1] = g[1]
      BY <3>2
    <3>4. QED  BY <3>3
  <2>7. ASSUME NEW k \in Nat, k \in S, k + 2 <= n PROVE d[k + 2] = g[k + 2]
    <3>1. PICK m \in 1 .. n : m = k + 2
      BY <2>7
    <3>2. m # 1 /\ m - 1 = k + 1 /\ d[k + 1] = g[k + 1]
      BY <2>7, <3>1
    <3>3. d[m] = d[m - 1] \o seqs[m] /\ g[m] = g[m - 1] \o seqs[m]
      BY <1>6, <2>5, <3>2
    <3>4. QED  BY <3>1, <3>2, <3>3
  <2>8. \A k \in Nat : k \in S => k + 1 \in S
    <3>1. \A k \in Nat : k + 1 \in Nat /\ (k + 1) + 1 = k + 2
      OBVIOUS
    <3>2. QED  BY <2>7, <3>1
  <2>9. d[n] = g[n]
    <3>1. \A k \in Nat : k \in S
      <4> HIDE DEF S
      <4>1. QED  BY <2>6, <2>8, Induction
    <3>2. n - 1 \in Nat /\ (n - 1) + 1 = n
      BY <1>10
    <3>3. n - 1 \in S
      BY <3>1, <3>2
    <3>4. QED  BY <3>2, <3>3
  <2>10. P[n] = g[n]
    <3>1. n \in 0 .. n
      OBVIOUS
    <3>2. QED  BY <1>7, <3>1
  <2>11. QED  BY <1>8, <2>4, <2>9, <2>10
<1>11. QED  BY <1>9, <1>10

(* Texts that are the same so far.                                          *)
LEMMA JoinedSame ==
    ASSUME NEW n \in Nat, NEW m \in 0 .. n, NEW P, NEW Q, NEW s, NEW t,
           Joined(P, s, n), Joined(Q, t, m), \A k \in 1 .. m : s[k] = t[k]
    PROVE  \A k \in 0 .. m : P[k] = Q[k]
<1> DEFINE S == {k \in Nat : k <= m => P[k] = Q[k]}
<1>1. 0 \in S
  BY DEF Joined
<1>2. ASSUME NEW k \in Nat, k \in S, k + 1 <= m PROVE P[k + 1] = Q[k + 1]
  <2>1. PICK i \in 1 .. m : i = k + 1
    BY <1>2
  <2>2. i \in 1 .. n /\ i - 1 = k /\ P[k] = Q[k]
    BY <1>2, <2>1
  <2>3. P[i] = P[i - 1] \o s[i] /\ Q[i] = Q[i - 1] \o t[i]
    BY <2>2 DEF Joined
  <2>4. QED  BY <2>1, <2>2, <2>3
<1>3. \A k \in Nat : k \in S => k + 1 \in S
  BY <1>2
<1>4. \A k \in Nat : k \in S
  <2> HIDE DEF S
  <2>1. QED  BY <1>1, <1>3, Induction
<1>5. QED  BY <1>4

(* A format whose items all have arguments of the right type.               *)
Sayable(format) ==
    /\ \E S : format \in Seq(S)
    /\ \A i \in 1 .. Len(format) : Told(format[i])

(* What a format says is what its items say.                                *)
LEMMA SaysIs ==
    ASSUME NEW format, Sayable(format)
    PROVE  \E P : /\ Joined(P, [i \in 1 .. Len(format) |-> ItemText(format[i])], Len(format))
                  /\ Says(format) = P[Len(format)]
                  /\ format # <<>> => Says(Front(format)) = P[Len(format) - 1]
<1>1. PICK S : format \in Seq(S)
  BY DEF Sayable
<1>2. PICK n \in Nat : n = Len(format)
  BY <1>1
<1>3. DOMAIN format = 1 .. n
  BY <1>1, <1>2
<1>4. PICK seqs : seqs = [i \in 1 .. n |-> ItemText(format[i])]
  OBVIOUS
<1>5. \A i \in 1 .. n : ItemText(format[i]) = SaysItem(format[i]) /\ ItemText(format[i]) \in Seq(Char)
  BY <1>2, ItemSaid DEF Sayable
<1>6. seqs \in [1 .. n -> Seq(Char)]
  BY <1>4, <1>5
<1>7. Says(format) = FlattenSeq(seqs)
  <2>1. seqs = [i \in 1 .. n |-> SaysItem(format[i])]
    BY <1>4, <1>5
  <2>2. QED  BY <1>3, <2>1 DEF Says
<1>8. PICK P : Joined(P, seqs, n) /\ Says(format) = P[n]
  BY <1>6, <1>7, FlattenIs
<1>9. ASSUME format # <<>> PROVE Says(Front(format)) = P[n - 1]
  <2>1. PICK m \in Nat : m = n - 1
    BY <1>1, <1>2, <1>9
  <2>2. PICK front : front = Front(format)
    OBVIOUS
  <2>3. DOMAIN front = 1 .. m /\ \A i \in 1 .. m : front[i] = format[i]
    BY <1>1, <1>2, <2>1, <2>2 DEF Front
  <2>4. PICK parts : parts = [i \in 1 .. m |-> ItemText(format[i])]
    OBVIOUS
  <2>5. \A i \in 1 .. m : i \in 1 .. n
    BY <2>1
  <2>6. parts \in [1 .. m -> Seq(Char)] /\ \A i \in 1 .. m : seqs[i] = parts[i]
    BY <1>4, <1>5, <2>4, <2>5
  <2>7. Says(front) = FlattenSeq(parts)
    <3>1. parts = [i \in 1 .. m |-> SaysItem(front[i])]
      BY <1>5, <2>3, <2>4, <2>5
    <3>2. QED  BY <2>3, <3>1 DEF Says
  <2>8. PICK Q : Joined(Q, parts, m) /\ Says(front) = Q[m]
    BY <2>6, <2>7, FlattenIs
  <2>9. m \in 0 .. n /\ m \in 0 .. m
    BY <2>1
  <2>10. P[m] = Q[m]
    BY <1>8, <2>6, <2>8, <2>9, JoinedSame
  <2>11. QED  BY <2>1, <2>2, <2>8, <2>10
<1>10. QED  BY <1>2, <1>4, <1>8, <1>9

Messages == [text : Seq(Char), left : BOOLEAN]
NoMessage == [text |-> <<>>, left |-> FALSE]

(* An item leaves a message a message.                                      *)
LEMMA AppendItemIs ==
    ASSUME NEW message \in Messages, NEW item, Told(item)
    PROVE  AppendItem(message, item) \in Messages
<1>1. PICK text, left : text = message.text /\ left = message.left
  OBVIOUS
<1>2. text \in Seq(Char) /\ left \in BOOLEAN /\ message = [text |-> text, left |-> left]
  BY <1>1 DEF Messages
<1>3. LOG_BUFFER_SIZE - 1 \in Nat
  BY TextAssumption
<1>4. PICK said \in Seq(Char) : said = ItemText(item)
  BY ItemSaid
<1>5. PICK cut : cut = Cut(text \o said, LOG_BUFFER_SIZE - 1)
  OBVIOUS
<1>6. cut \in Seq(Char)
  <2>1. text \o said \in Seq(Char)
    BY <1>2
  <2>2. QED  BY <1>3, <1>5, <2>1, CutIs
<1>7. \/ AppendItem(message, item) = [text |-> text, left |-> TRUE]
      \/ AppendItem(message, item) = [text |-> cut, left |-> left]
  BY <1>2, <1>4, <1>5 DEF AppendItem
<1>8. [text |-> text, left |-> TRUE] \in Messages /\ [text |-> cut, left |-> left] \in Messages
  BY <1>2, <1>6 DEF Messages
<1>9. QED  BY <1>7, <1>8

(* The message after each item.                                             *)
LEMMA AppendItems ==
    ASSUME NEW format, Sayable(format)
    PROVE  \E h : /\ h \in [0 .. Len(format) -> Messages] /\ h[0] = NoMessage
                  /\ \A k \in 1 .. Len(format) : h[k] = AppendItem(h[k - 1], format[k])
                  /\ FoldLeft(AppendItem, NoMessage, format) = h[Len(format)]
<1>1. PICK S : format \in Seq(S)
  BY DEF Sayable
<1>2. PICK n \in Nat : n = Len(format) /\ DOMAIN format = 1 .. n
  BY <1>1
<1> DEFINE Is(f) == f = [s \in SUBSET (1 .. n) |->
                             IF s = {} THEN NoMessage
                             ELSE AppendItem(f[s \ {Max(s)}], format[Max(s)])]
           G == [p \in (1 .. n) \X Messages |-> AppendItem(p[2], format[p[1]])]
<1>3. G \in [(1 .. n) \X Messages -> Messages]
  <2>1. ASSUME NEW p \in (1 .. n) \X Messages PROVE AppendItem(p[2], format[p[1]]) \in Messages
    <3>1. p[1] \in 1 .. Len(format) /\ p[2] \in Messages
      BY <1>2
    <3>2. Told(format[p[1]])
      BY <3>1 DEF Sayable
    <3>3. QED  BY <3>1, <3>2, AppendItemIs
  <2>2. QED  BY <2>1
<1>4. NoMessage \in Messages
  BY DEF NoMessage, Messages
<1>5. PICK g : IsFold(g, n, Messages, NoMessage, G)
  <2> HIDE DEF G
  <2>1. QED  BY <1>3, <1>4, FoldExists
<1>6. Is(g)
  <2>1. g \in [SUBSET (1 .. n) -> Messages]
    BY <1>5 DEF IsFold
  <2>2. ASSUME NEW s \in SUBSET (1 .. n)
        PROVE  g[s] = IF s = {} THEN NoMessage ELSE AppendItem(g[s \ {Max(s)}], format[Max(s)])
    <3>1. g[s] = IF s = {} THEN NoMessage ELSE G[<<Max(s), g[s \ {Max(s)}]>>]
      BY <1>5 DEF IsFold
    <3>2. CASE s = {}
      BY <3>1, <3>2
    <3>3. CASE s # {}
      <4>1. Max(s) \in 1 .. n
        <5>1. Max(s) \in s
          BY <3>3, MaxWithin
        <5>2. QED  BY <5>1
      <4>2. g[s \ {Max(s)}] \in Messages
        BY <2>1
      <4>3. G[<<Max(s), g[s \ {Max(s)}]>>] = AppendItem(g[s \ {Max(s)}], format[Max(s)])
        BY <4>1, <4>2
      <4> HIDE DEF G
      <4>4. QED  BY <3>1, <3>3, <4>3
    <3>4. QED  BY <3>2, <3>3
  <2>3. g = [s \in SUBSET (1 .. n) |-> g[s]]
    BY <2>1
  <2>4. QED  BY <2>2, <2>3
<1>7. PICK d : d = CHOOSE f : Is(f)
  OBVIOUS
<1>8. Is(d)
  <2> HIDE DEF Is
  <2>1. QED  BY <1>6, <1>7
<1>9. FoldLeft(AppendItem, NoMessage, format) = d[1 .. n]
  BY <1>2, <1>7, Zenon DEF FoldLeft, MapThenFoldSet
<1>10. d[1 .. 0] = NoMessage
  <2>1. 1 .. 0 = {} /\ {} \in SUBSET (1 .. n)
    OBVIOUS
  <2>2. QED  BY <1>8, <2>1
<1>11. ASSUME NEW k \in 1 .. n PROVE d[1 .. k] = AppendItem(d[1 .. k - 1], format[k])
  <2>1. 1 .. k # {} /\ Max(1 .. k) = k /\ (1 .. k) \ {k} = 1 .. k - 1
    BY LastOfInterval
  <2>2. 1 .. k \in SUBSET (1 .. n)
    OBVIOUS
  <2>3. d[1 .. k] = IF 1 .. k = {} THEN NoMessage
                    ELSE AppendItem(d[(1 .. k) \ {Max(1 .. k)}], format[Max(1 .. k)])
    BY <1>8, <2>2
  <2>4. QED  BY <2>1, <2>3
<1>12. \A k \in 0 .. n : d[1 .. k] \in Messages
  <2> DEFINE Q == {k \in Nat : k <= n => d[1 .. k] \in Messages}
  <2>1. 0 \in Q
    BY <1>4, <1>10
  <2>2. ASSUME NEW k \in Nat, k \in Q, k + 1 <= n PROVE d[1 .. k + 1] \in Messages
    <3>1. PICK i \in 1 .. n : i = k + 1
      BY <2>2
    <3>2. i - 1 = k /\ d[1 .. k] \in Messages
      BY <2>2, <3>1
    <3>3. Told(format[i])
      BY <1>2 DEF Sayable
    <3>4. d[1 .. i] = AppendItem(d[1 .. k], format[i])
      BY <1>11, <3>2
    <3>5. QED  BY <3>1, <3>2, <3>3, <3>4, AppendItemIs
  <2>3. \A k \in Nat : k \in Q => k + 1 \in Q
    BY <2>2
  <2>4. \A k \in Nat : k \in Q
    <3> HIDE DEF Q
    <3>1. QED  BY <2>1, <2>3, Induction
  <2>5. QED  BY <2>4
<1>13. PICK h : h = [k \in 0 .. n |-> d[1 .. k]]
  OBVIOUS
<1>14. h \in [0 .. n -> Messages] /\ h[0] = NoMessage /\ h[n] = d[1 .. n]
  BY <1>10, <1>12, <1>13
<1>15. ASSUME NEW k \in 1 .. n PROVE h[k] = AppendItem(h[k - 1], format[k])
  <2>1. k \in 0 .. n /\ k - 1 \in 0 .. n
    OBVIOUS
  <2>2. h[k] = d[1 .. k] /\ h[k - 1] = d[1 .. k - 1]
    BY <1>13, <2>1
  <2>3. QED  BY <1>11, <2>2
<1>16. QED  BY <1>2, <1>9, <1>14, <1>15

(* What build_message makes of a format is what the format says, cut and    *)
(* marked.                                                                  *)
THEOREM MessageSaid ==
    ASSUME NEW format, Sayable(format)
    PROVE  /\ build_message(format) = SaysMessage(format)
           /\ SaysMessage(format) \in Seq(Char)
           /\ Len(SaysMessage(format)) <= LOG_BUFFER_SIZE - 1
<1>1. PICK S : format \in Seq(S)
  BY DEF Sayable
<1>2. PICK n \in Nat : n = Len(format)
  BY <1>1
<1>3. PICK room : room = LOG_BUFFER_SIZE - 1
  OBVIOUS
<1>4. room \in Nat /\ room >= 3
  BY <1>3, TextAssumption
<1>5. PICK said : said = [i \in 1 .. Len(format) |-> ItemText(format[i])]
  OBVIOUS
<1>6. PICK P : /\ Joined(P, said, n) /\ Says(format) = P[n]
               /\ format # <<>> => Says(Front(format)) = P[n - 1]
  BY <1>2, <1>5, SaysIs
<1>7. PICK h : /\ h \in [0 .. n -> Messages] /\ h[0] = NoMessage
               /\ \A k \in 1 .. n : h[k] = AppendItem(h[k - 1], format[k])
               /\ FoldLeft(AppendItem, NoMessage, format) = h[n]
  BY <1>2, AppendItems
<1>8. /\ \A k \in 0 .. n : P[k] \in Seq(Char) /\ Len(P[k]) \in Nat
      /\ P[0] = <<>>
      /\ \A k \in 1 .. n : P[k] = P[k - 1] \o ItemText(format[k])
  <2>1. \A k \in 0 .. n : P[k] \in Seq(Char)
    BY <1>6 DEF Joined
  <2>2. \A k \in 1 .. n : said[k] = ItemText(format[k])
    BY <1>2, <1>5
  <2>3. P[0] = <<>> /\ \A k \in 1 .. n : P[k] = P[k - 1] \o said[k]
    BY <1>6 DEF Joined
  <2>4. \A k \in 0 .. n : Len(P[k]) \in Nat
    BY <2>1
  <2>5. \A k \in 1 .. n : P[k] = P[k - 1] \o ItemText(format[k])
    BY <2>2, <2>3
  <2>6. QED  BY <2>1, <2>3, <2>4, <2>5
<1>9. ASSUME NEW k \in 1 .. n
      PROVE  /\ k - 1 \in 0 .. n /\ k \in 0 .. n
             /\ ItemText(format[k]) \in Seq(Char)
             /\ Len(P[k - 1]) <= Len(P[k])
  <2>1. k - 1 \in 0 .. n /\ k \in 0 .. n
    OBVIOUS
  <2>2. ItemText(format[k]) \in Seq(Char)
    BY <1>2, ItemSaid DEF Sayable
  <2>3. PICK a, b : a = P[k - 1] /\ b = ItemText(format[k])
    OBVIOUS
  <2>4. a \in Seq(Char) /\ b \in Seq(Char) /\ P[k] = a \o b
    BY <1>8, <2>1, <2>2, <2>3
  <2>5. Len(a) <= Len(a \o b)
    BY ONLY <2>4
  <2>6. QED  BY <2>1, <2>2, <2>3, <2>4, <2>5
<1> DEFINE Holds(k) == /\ h[k].text = Cut(P[k], room)
                       /\ h[k].left <=> (k > 0 /\ Len(P[k - 1]) >= room)
           Q == {k \in Nat : k <= n => Holds(k)}
<1>10. 0 \in Q
  <2>1. h[0].text = <<>> /\ h[0].left = FALSE
    BY <1>7 DEF NoMessage
  <2>2. Cut(<<>>, room) = <<>>
    <3>1. PICK none : none = <<>>
      OBVIOUS
    <3>2. none \in Seq(Char) /\ Len(none) <= room
      BY <1>4, <3>1
    <3>3. Cut(none, room) = none
      BY <1>4, <3>2, CutIs
    <3>4. QED  BY <3>1, <3>3
  <2>3. QED  BY <1>8, <2>1, <2>2
<1>11. ASSUME NEW i \in Nat, i \in Q, i + 1 <= n PROVE Holds(i + 1)
  <2>1. PICK k \in 1 .. n : k = i + 1
    BY <1>11
  <2>2. k - 1 = i /\ Holds(k - 1) /\ k - 1 \in 0 .. n /\ k \in 0 .. n
    BY <1>11, <2>1
  <2>3. PICK message, item : message = h[k - 1] /\ item = format[k]
    OBVIOUS
  <2>4. message \in Messages /\ h[k] = AppendItem(message, item)
    BY <1>7, <2>2, <2>3
  <2>5. PICK p, q, t : p = P[k - 1] /\ q = P[k] /\ t = ItemText(item)
    OBVIOUS
  <2>6. p \in Seq(Char) /\ t \in Seq(Char) /\ q \in Seq(Char) /\ q = p \o t /\ Len(p) \in Nat
    BY <1>8, <1>9, <2>2, <2>3, <2>5
  <2>7. message.text = Cut(p, room)
    BY <2>2, <2>3, <2>5
  <2>8. Len(Cut(p, room)) = IF Len(p) < room THEN Len(p) ELSE room
    BY <1>4, <2>6, CutIs
  <2>9. CASE Len(p) >= room
    <3>1. Len(message.text) = LOG_BUFFER_SIZE - 1
      BY <1>3, <1>4, <2>6, <2>7, <2>8, <2>9
    <3>2. h[k] = [message EXCEPT !.left = TRUE]
      BY <2>4, <3>1 DEF AppendItem
    <3>3. h[k].text = message.text /\ h[k].left = TRUE
      BY <2>4, <3>2 DEF Messages
    <3>4. Cut(q, room) = Cut(p, room)
      BY <1>4, <2>6, <2>9, CutChained
    <3>5. h[k].text = Cut(P[k], room)
      BY <2>5, <2>7, <3>3, <3>4
    <3>6. k > 0 /\ Len(P[k - 1]) >= room
      BY <2>5, <2>9
    <3>7. QED  BY <2>1, <3>3, <3>5, <3>6
  <2>10. CASE ~(Len(p) >= room)
    <3>1. Len(message.text) # LOG_BUFFER_SIZE - 1
      BY <1>3, <1>4, <2>6, <2>7, <2>8, <2>10
    <3>2. h[k] = [message EXCEPT !.text = Cut(@ \o ItemText(item), LOG_BUFFER_SIZE - 1)]
      BY <2>4, <3>1 DEF AppendItem
    <3>3. h[k].text = Cut(message.text \o t, room) /\ h[k].left = message.left
      BY <1>3, <2>4, <2>5, <3>2 DEF Messages
    <3>4. message.text = p
      BY <1>4, <2>6, <2>7, <2>10, CutIs
    <3>5. h[k].text = Cut(P[k], room)
      BY <2>5, <2>6, <3>3, <3>4
    <3>6. ~(Len(P[k - 1]) >= room)
      BY <2>5, <2>10
    <3>7. h[k].left = FALSE
      <4>1. SUFFICES ASSUME h[k].left PROVE FALSE
        BY <2>4, <3>3 DEF Messages
      <4>2. k - 1 > 0 /\ Len(P[(k - 1) - 1]) >= room
        BY <2>2, <2>3, <3>3, <4>1
      <4>3. k - 1 \in 1 .. n
        BY <2>2, <4>2
      <4>4. Len(P[(k - 1) - 1]) <= Len(P[k - 1]) /\ (k - 1) - 1 \in 0 .. n
        BY <1>9, <4>3
      <4>5. Len(P[(k - 1) - 1]) \in Nat /\ Len(P[k - 1]) \in Nat
        BY <1>8, <2>2, <4>4
      <4>6. QED  BY <1>4, <3>6, <4>2, <4>4, <4>5
    <3>8. QED  BY <2>1, <3>5, <3>6, <3>7
  <2>11. QED  BY <2>9, <2>10
<1>12. Holds(n)
  <2>1. \A k \in Nat : k \in Q => k + 1 \in Q
    BY <1>11
  <2>2. \A k \in Nat : k \in Q
    <3> HIDE DEF Q
    <3>1. QED  BY <1>10, <2>1, Induction
  <2> HIDE DEF Holds
  <2>3. QED  BY <2>2
<1>13. PICK full \in Seq(Char) : full = P[n]
  BY <1>8
<1>14. PICK message : message = h[n]
  OBVIOUS
<1>15. message.text = Cut(full, room) /\ message \in Messages
  BY <1>7, <1>12, <1>13, <1>14
<1>16. PICK cut : cut = Cut(full, room)
  OBVIOUS
<1>17. cut \in Seq(Char) /\ Len(cut) = (IF Len(full) < room THEN Len(full) ELSE room)
  BY <1>4, <1>16, CutIs
<1>18. build_message(format) = IF message.left
                               THEN Cut(cut, Len(cut) - 3) \o <<".", ".", ".">> ELSE cut
  <2>1. build_message(format) = IF message.left
                                THEN Cut(message.text, Len(message.text) - 3) \o <<".", ".", ".">>
                                ELSE message.text
    BY <1>7, <1>14 DEF build_message, NoMessage
  <2>2. QED  BY <1>15, <1>16, <2>1
<1>19. SaysMessage(format) = IF format = <<>> \/ Len(Says(Front(format))) < room
                             THEN cut ELSE Cut(full, room - 3) \o <<".", ".", ".">>
  BY <1>3, <1>6, <1>13, <1>16 DEF SaysMessage
<1>20. message.left <=> (n > 0 /\ Len(P[n - 1]) >= room)
  BY <1>12, <1>14
<1>21. n > 0 <=> format # <<>>
  BY <1>1, <1>2
<1>22. CASE ~message.left
  <2>1. format = <<>> \/ Len(Says(Front(format))) < room
    <3>1. CASE n = 0
      BY <1>21, <3>1
    <3>2. CASE n # 0
      <4>1. n \in 1 .. n /\ n > 0
        BY <3>2
      <4>2. ~(Len(P[n - 1]) >= room)
        BY <1>20, <1>22, <4>1
      <4>3. Len(P[n - 1]) \in Nat
        BY <1>8, <1>9, <4>1
      <4>4. Len(P[n - 1]) < room
        BY <1>4, <4>2, <4>3
      <4>5. QED  BY <1>6, <1>21, <4>1, <4>4
    <3>3. QED  BY <3>1, <3>2
  <2>2. build_message(format) = cut /\ SaysMessage(format) = cut
    BY <1>18, <1>19, <1>22, <2>1
  <2>3. Len(cut) <= LOG_BUFFER_SIZE - 1
    <3>1. Len(full) \in Nat
      OBVIOUS
    <3>2. QED  BY <1>3, <1>4, <1>17, <3>1
  <2>4. QED  BY <1>17, <2>2, <2>3
<1>23. CASE message.left
  <2>1. n > 0 /\ Len(P[n - 1]) >= room /\ n \in 1 .. n
    BY <1>20, <1>23
  <2>2. Len(full) >= room
    <3>1. Len(P[n - 1]) <= Len(P[n]) /\ Len(P[n - 1]) \in Nat /\ Len(P[n]) \in Nat
      BY <1>8, <1>9, <2>1
    <3>2. QED  BY <1>4, <1>13, <2>1, <3>1
  <2>3. Len(cut) = room
    <3>1. Len(full) \in Nat
      OBVIOUS
    <3>2. QED  BY <1>4, <1>17, <2>2, <3>1
  <2>4. ~(format = <<>> \/ Len(Says(Front(format))) < room)
    <3>1. Len(P[n - 1]) \in Nat
      BY <1>8, <1>9, <2>1
    <3>2. QED  BY <1>4, <1>6, <1>21, <2>1, <3>1
  <2>5. room - 3 \in 0 .. room
    BY <1>4
  <2>6. Cut(cut, room - 3) = Cut(full, room - 3)
    BY <1>4, <1>16, <2>5, CutChained
  <2>7. PICK short : short = Cut(full, room - 3)
    OBVIOUS
  <2>8. short \in Seq(Char) /\ Len(short) = room - 3
    <3>1. room - 3 \in Nat /\ Len(full) \in Nat
      BY <1>4
    <3>2. short \in Seq(Char) /\ Len(short) = (IF Len(full) < room - 3 THEN Len(full) ELSE room - 3)
      BY <2>7, <3>1, CutIs
    <3>3. QED  BY <1>4, <2>2, <3>1, <3>2
  <2>9. PICK dots : dots = <<".", ".", ".">>
    OBVIOUS
  <2>10. dots \in Seq(Char) /\ Len(dots) = 3
    <3>1. "." \in Char
      BY DEF Char
    <3>2. QED  BY <2>9, <3>1
  <2>11. build_message(format) = short \o dots /\ SaysMessage(format) = short \o dots
    BY <1>18, <1>19, <1>23, <2>3, <2>4, <2>6, <2>7, <2>9
  <2>12. short \o dots \in Seq(Char) /\ Len(short \o dots) = room
    <3>1. short \o dots \in Seq(Char) /\ Len(short \o dots) = Len(short) + Len(dots)
      <4>1. short \in Seq(Char) /\ dots \in Seq(Char)
        BY <2>8, <2>10
      <4>2. QED  BY ONLY <4>1
    <3>2. QED  BY <1>4, <2>8, <2>10, <3>1
  <2>13. QED  BY <1>3, <1>4, <2>11, <2>12
<1>24. QED  BY <1>22, <1>23

(* The name of a level is a character.                                      *)
LEMMA LevelNamed == \A level \in 0 .. 4 : LevelName(level) \in Char
<1>1. PICK s, S : s = <<"D", "I", "W", "E", "P">> /\ S = {"D", "I", "W", "E", "P"}
  OBVIOUS
<1>2. S \subseteq Char
  BY <1>1 DEF Char
<1>3. s \in Seq(S) /\ Len(s) = 5
  BY <1>1
<1>4. ASSUME NEW level \in 0 .. 4 PROVE s[level + 1] \in Char
  <2>1. level + 1 \in 1 .. Len(s)
    BY <1>3
  <2>2. s[level + 1] \in S
    BY <1>3, <2>1, ElementOfSeq
  <2>3. QED  BY <1>2, <2>2
<1>5. QED  BY <1>1, <1>4 DEF LevelName

(* The numbers of the lines that log are written in full, in two characters *)
(* at most.                                                                 *)
LEMMA LineNumbered ==
    ASSUME NEW line \in 1 .. 2
    PROVE  /\ Numeral(line, Ten) = SaysNumber(line, Ten)
           /\ Numeral(line, Ten) \in Seq(Char) /\ Len(Numeral(line, Ten)) <= 2
<1>1. Word64 \in Nat /\ Word64 > 3
  BY TextAssumption
<1>2. Numeral(line, Ten) = SaysNumber(line, Ten) /\ SaysNumber(line, Ten) \in Seq(Char)
  <2>1. line \in 0 .. Word64 - 1
    BY <1>1
  <2>2. QED  BY <2>1, WordsSaid
<1>3. Ten \in 2 .. 16
  BY TextAssumption, Zenon
<1>4. PICK q \in 0 .. 1 : q = line \div Ten
  BY <1>3
<1>5. Len(Digits(q, Ten)) <= 1 /\ Digits(q, Ten) \in Seq(Char)
  <2>1. Digits(q, Ten) \in Seq(Char)
    <3>1. q \in Nat
      BY <1>4
    <3>2. QED  BY <1>3, <3>1, DigitsAre
  <2>2. CASE q = 0
    <3>1. Digits(q, Ten) = <<>>
      BY <1>3, <2>2, DigitsAre
    <3>2. QED  BY <2>1, <3>1
  <2>3. CASE q = 1
    <3>1. q \div Ten = 0 /\ q \in Nat \ {0}
      BY <1>3, <2>3
    <3>2. Digits(q, Ten) = Append(<<>>, Digit(q % Ten))
      BY <1>3, <3>1, DigitsAre
    <3>3. QED  BY <2>1, <3>2
  <2>4. QED  BY <1>4, <2>2, <2>3
<1>6. Digits(line, Ten) = Append(Digits(q, Ten), Digit(line % Ten))
  <2>1. line \in Nat \ {0}
    OBVIOUS
  <2>2. QED  BY <1>3, <1>4, <2>1, DigitsAre
<1>7. Numeral(line, Ten) = Digits(line, Ten)
  BY DEF Numeral
<1>8. Len(Numeral(line, Ten)) <= 2
  <2>1. PICK s, d : s = Digits(q, Ten) /\ d = Digit(line % Ten)
    OBVIOUS
  <2>2. s \in Seq(Char) /\ Len(s) <= 1 /\ Numeral(line, Ten) = Append(s, d)
    BY <1>5, <1>6, <1>7, <2>1
  <2>3. Len(Append(s, d)) = Len(s) + 1 /\ Len(s) \in Nat
    BY <2>2
  <2>4. QED  BY <2>2, <2>3
<1>9. QED  BY <1>2, <1>8

(* Of the file, the log keeps what follows the last slash.                  *)
LEMMA FileNamed ==
    /\ extract_filename(<<"s", "/">> \o <<"m">>) = <<"m">>
    /\ extract_filename(<<"a", "/">> \o <<"f">>) = <<"f">>
    /\ extract_filename(<<>> \o <<"h">>) = <<"h">>
<1>1. ASSUME NEW a, NEW c, a \notin {"/", "\\"}, c \notin {"/", "\\"}
      PROVE  extract_filename(<<a, "/">> \o <<c>>) = <<c>>
  <2>1. PICK s : s = <<a, "/">> \o <<c>>
    OBVIOUS
  <2>2. s \in Seq({a, "/", c}) /\ Len(s) = 3 /\ s[1] = a /\ s[2] = "/" /\ s[3] = c
    BY <2>1
  <2>3. PICK slashes : slashes = {i \in DOMAIN s : s[i] \in {"/", "\\"}}
    OBVIOUS
  <2>4. slashes = {2}
    <3>1. DOMAIN s = 1 .. 3
      BY <2>2
    <3>2. QED  BY <1>1, <2>2, <2>3, <3>1
  <2>5. Max(slashes \union {0}) = 2
    <3>1. slashes \union {0} \in SUBSET Int /\ 2 \in slashes \union {0}
          /\ \A y \in slashes \union {0} : y <= 2
      BY <2>4
    <3>2. QED  BY <3>1, MaxIs
  <2>6. extract_filename(s) = SubSeq(s, 3, 3)
    <3>1. extract_filename(s) = SubSeq(s, Max(slashes \union {0}) + 1, Len(s))
      BY <2>3 DEF extract_filename
    <3>2. QED  BY <2>2, <2>5, <3>1
  <2>7. SubSeq(s, 3, 3) = <<c>>
    <3>1. PICK w : w = SubSeq(s, 3, 3)
      OBVIOUS
    <3>2. w \in Seq({a, "/", c}) /\ Len(w) = 1 /\ w[1] = s[3]
      BY <2>2, <3>1
    <3>3. w = <<c>>
      BY <2>2, <3>2
    <3>4. QED  BY <3>1, <3>3
  <2>8. QED  BY <2>1, <2>6, <2>7
<1>2. extract_filename(<<"h">>) = <<"h">>
  <2>1. PICK s : s = <<"h">>
    OBVIOUS
  <2>2. s \in Seq({"h"}) /\ Len(s) = 1 /\ s[1] = "h" /\ DOMAIN s = 1 .. 1
    BY <2>1
  <2>3. PICK slashes : slashes = {i \in DOMAIN s : s[i] \in {"/", "\\"}}
    OBVIOUS
  <2>4. slashes = {}
    BY <2>2, <2>3
  <2>5. Max(slashes \union {0}) = 0
    <3>1. slashes \union {0} \in SUBSET Int /\ 0 \in slashes \union {0}
          /\ \A y \in slashes \union {0} : y <= 0
      BY <2>4
    <3>2. QED  BY <3>1, MaxIs
  <2>6. extract_filename(s) = SubSeq(s, 1, 1)
    <3>1. extract_filename(s) = SubSeq(s, Max(slashes \union {0}) + 1, Len(s))
      BY <2>3 DEF extract_filename
    <3>2. QED  BY <2>2, <2>5, <3>1
  <2>7. SubSeq(s, 1, 1) = s
    BY <2>2
  <2>8. QED  BY <2>1, <2>6, <2>7
<1>3. <<>> \o <<"h">> = <<"h">>
  OBVIOUS
<1>4. extract_filename(<<"s", "/">> \o <<"m">>) = <<"m">>
  BY <1>1
<1>5. extract_filename(<<"a", "/">> \o <<"f">>) = <<"f">>
  BY <1>1
<1>6. QED  BY <1>2, <1>3, <1>4, <1>5

(* Five pieces of a line, one after the other.                              *)
LEMMA FivePieces ==
    ASSUME NEW a \in Seq(Char), NEW b \in Seq(Char), NEW c \in Seq(Char),
           NEW d \in Seq(Char), NEW e \in Seq(Char)
    PROVE  /\ a \o b \o c \o d \o e \in Seq(Char)
           /\ Len(a \o b \o c \o d \o e) = Len(a) + Len(b) + Len(c) + Len(d) + Len(e)
<1>1. PICK p : p = a \o b
  OBVIOUS
<1>2. p \in Seq(Char) /\ Len(p) = Len(a) + Len(b)
  BY <1>1, ConcatProperties
<1>3. PICK q : q = p \o c
  OBVIOUS
<1>4. q \in Seq(Char) /\ Len(q) = Len(p) + Len(c)
  BY <1>2, <1>3, ConcatProperties
<1>5. PICK r : r = q \o d
  OBVIOUS
<1>6. r \in Seq(Char) /\ Len(r) = Len(q) + Len(d)
  BY <1>4, <1>5, ConcatProperties
<1>7. r \o e \in Seq(Char) /\ Len(r \o e) = Len(r) + Len(e)
  BY <1>6, ConcatProperties
<1>8. QED  BY <1>1, <1>2, <1>3, <1>4, <1>5, <1>6, <1>7

(* A line of the log is what the call says: it has room for all of it.      *)
LEMMA LineSaid ==
    ASSUME NEW level \in 0 .. 4, NEW directory, NEW name \in Seq(Char), Len(name) = 1,
           extract_filename(directory \o name) = name,
           NEW line \in 1 .. 2, NEW format, Sayable(format)
    PROVE  \E t \in Seq(Char) :
               log_output(level, directory, name, line, format) = << <<"log", level, t, t>> >>
<1>1. PICK a, b, c, d, e :
          /\ a = <<LevelName(level)>> /\ b = name /\ c = Numeral(line, Ten)
          /\ d = build_message(format) /\ e = CRLF
  OBVIOUS
<1>2. a \in Seq(Char) /\ Len(a) = 1
  <2>1. LevelName(level) \in Char
    BY LevelNamed
  <2>2. QED  BY <1>1, <2>1
<1>3. b \in Seq(Char) /\ Len(b) = 1
  BY <1>1
<1>4. c \in Seq(Char) /\ Len(c) <= 2 /\ c = SaysNumber(line, Ten)
  BY <1>1, LineNumbered
<1>5. d \in Seq(Char) /\ Len(d) <= LOG_BUFFER_SIZE - 1 /\ d = SaysMessage(format)
  BY <1>1, MessageSaid
<1>6. e \in Seq(Char) /\ Len(e) = 2
  <2>1. CR \in Char /\ LF \in Char
    BY DEF Char
  <2>2. QED  BY <1>1, <2>1 DEF CRLF
<1>7. PICK t : t = a \o b \o c \o d \o e
  OBVIOUS
<1>8. t \in Seq(Char) /\ Len(t) = Len(a) + Len(b) + Len(c) + Len(d) + Len(e)
  <2>1. a \in Seq(Char) /\ b \in Seq(Char) /\ c \in Seq(Char) /\ d \in Seq(Char) /\ e \in Seq(Char)
    BY <1>2, <1>3, <1>4, <1>5, <1>6
  <2>2. QED  BY ONLY <1>7, <2>1, FivePieces
<1>9. PICK room \in Nat : room = LOG_BUFFER_SIZE + Margin - 1 /\ Len(t) <= room
  <2>1. PICK x, y : x = Len(c) /\ y = Len(d)
    OBVIOUS
  <2>2. x \in Nat /\ y \in Nat /\ x <= 2 /\ y <= LOG_BUFFER_SIZE - 1 /\ Len(t) = 4 + x + y
    BY <1>2, <1>3, <1>4, <1>5, <1>6, <1>8, <2>1
  <2>3. LOG_BUFFER_SIZE \in Nat /\ Margin \in Nat /\ Margin >= 6
    BY TextAssumption
  <2>4. LOG_BUFFER_SIZE + Margin - 1 \in Nat /\ Len(t) <= LOG_BUFFER_SIZE + Margin - 1
    BY <2>2, <2>3
  <2>5. QED  BY <2>4
<1>10. Cut(t, room) = t
  BY ONLY <1>8, <1>9, CutIs
<1>11. build_output_string(level, directory \o name, line, build_message(format)) = Cut(t, room)
  BY <1>1, <1>7, <1>9 DEF build_output_string
<1>12. <<LevelName(level)>> \o name \o SaysNumber(line, Ten) \o SaysMessage(format) \o CRLF = t
  BY <1>1, <1>4, <1>5, <1>7
<1>13. log_output(level, directory, name, line, format) = << <<"log", level, t, t>> >>
  BY <1>10, <1>11, <1>12 DEF log_output
<1>14. QED  BY <1>8, <1>13

(* The same without a file and a line.                                      *)
LEMMA SimpleSaid ==
    ASSUME NEW level \in 0 .. 4, NEW format, Sayable(format)
    PROVE  \E t \in Seq(Char) : log_output_simple(level, format) = << <<"log", level, t, t>> >>
<1>1. PICK a, d, e : a = <<LevelName(level)>> /\ d = build_message(format) /\ e = CRLF
  OBVIOUS
<1>2. a \in Seq(Char) /\ Len(a) = 1
  <2>1. LevelName(level) \in Char
    BY LevelNamed
  <2>2. QED  BY <1>1, <2>1
<1>3. d \in Seq(Char) /\ Len(d) <= LOG_BUFFER_SIZE - 1 /\ d = SaysMessage(format)
  BY <1>1, MessageSaid
<1>4. e \in Seq(Char) /\ Len(e) = 2
  <2>1. CR \in Char /\ LF \in Char
    BY DEF Char
  <2>2. QED  BY <1>1, <2>1 DEF CRLF
<1>5. PICK p : p = a \o d
  OBVIOUS
<1>6. p \in Seq(Char) /\ Len(p) = 1 + Len(d)
  BY <1>2, <1>3, <1>5, ConcatProperties
<1>7. PICK t : t = p \o e
  OBVIOUS
<1>8. t \in Seq(Char) /\ Len(t) = Len(p) + 2
  <2>1. p \o e \in Seq(Char) /\ Len(p \o e) = Len(p) + Len(e)
    BY <1>4, <1>6, ConcatProperties
  <2>2. QED  BY <1>4, <1>7, <2>1
<1>9. PICK room \in Nat : room = LOG_BUFFER_SIZE + Margin \div 2 - 1 /\ Len(t) <= room
  <2>1. PICK y \in Nat : y = Len(d)
    BY <1>3
  <2>2. y <= LOG_BUFFER_SIZE - 1 /\ Len(t) = 3 + y
    BY <1>3, <1>6, <1>8, <2>1
  <2>3. LOG_BUFFER_SIZE \in Nat /\ Margin \div 2 \in Nat /\ Margin \div 2 >= 3
    BY TextAssumption
  <2>4. PICK half \in Nat : half = Margin \div 2 /\ half >= 3
    BY <2>3
  <2>5. LOG_BUFFER_SIZE + half - 1 \in Nat /\ Len(t) <= LOG_BUFFER_SIZE + half - 1
    BY <2>2, <2>3, <2>4
  <2>6. QED  BY <2>4, <2>5
<1>10. Cut(t, room) = t
  BY ONLY <1>8, <1>9, CutIs
<1>11. build_simple_output_string(level, build_message(format)) = Cut(t, room)
  BY <1>1, <1>5, <1>7, <1>9 DEF build_simple_output_string
<1>12. <<LevelName(level)>> \o SaysMessage(format) \o CRLF = t
  BY <1>1, <1>3, <1>5, <1>7
<1>13. log_output_simple(level, format) = << <<"log", level, t, t>> >>
  BY <1>10, <1>11, <1>12 DEF log_output_simple
<1>14. QED  BY <1>8, <1>13

(* A message of one character, and what is logged of the constants.         *)
LEMMA FormatsSayable ==
    /\ \A c \in Char : Sayable(Message(c))
    /\ \A format \in Formats : Sayable(format)
<1>1. ASSUME NEW c \in Char PROVE Sayable(Message(c))
  <2>1. PICK item : item = <<"literal", c>>
    OBVIOUS
  <2>2. Told(item)
    BY <2>1 DEF Told
  <2>3. PICK s : s = <<item>>
    OBVIOUS
  <2>4. s \in Seq({item}) /\ Len(s) = 1 /\ s[1] = item
    BY <2>3
  <2>5. Sayable(s)
    BY <2>2, <2>4 DEF Sayable
  <2>6. Message(c) = s
    BY <2>1, <2>3 DEF Message, Item
  <2>7. QED  BY <2>5, <2>6
<1>2. ASSUME NEW format \in Formats PROVE Sayable(format)
  <2>1. /\ format \in Seq(Range(format))
        /\ \A item \in Range(format) : item[2] \in Arguments(item[1])
    BY OutputAssumption, Zenon
  <2>2. PICK R : R = Range(format)
    OBVIOUS
  <2>3. format \in Seq(R) /\ \A item \in R : Told(item)
    BY <2>1, <2>2 DEF Told
  <2>4. \A i \in 1 .. Len(format) : format[i] \in R
    BY <2>3
  <2>5. QED  BY <2>3, <2>4 DEF Sayable
<1>3. QED  BY <1>1, <1>2

-----------------------------------------------------------------------------
(* What the main line has still to do: the sections and their kinds.        *)

(* Why the kernel may panic before it can log: a BSS that is not clear, no  *)
(* output.                                                                  *)
Reasons == {"B", "N"}

(* The sections, by what they hold. Those that write say what they ask for. *)
Stating == UNION {{<<"serial", t, t>> : t \in Seq(Char)},
                  {<<"log", level, t, t>> : level \in 0 .. 4, t \in Seq(Char)}}
Typing == UNION {{<<"print", t, t>> : t \in Seq(Char)},
                 {<<"put_char", c>> : c \in Char},
                 {<<"early_panic", <<c>> >> : c \in Reasons}}
Placing == UNION {{<<"clear_row", row>> : row \in Nat},
                  {<<"set_color", fg, bg>> : fg \in Nat, bg \in Nat},
                  {<<"set_cursor", col, row>> : col \in Nat, row \in Nat},
                  {<<"put_char_at", c, col, row, fg, bg>> :
                       c \in Char, col \in Nat, row \in Nat, fg \in Nat, bg \in Nat}}
Setting == UNION {{<<"set", "failed", n>> : n \in {0, 1}},
                  {<<"set", field, n>> : field \in {"error_code", "timeout_count"}, n \in Nat},
                  {<<"set", "port", port>> : port \in {"COM1", "COM2"}}}
Asking == UNION {{<<"early_alloc_align", size, alignment>> : size \in Nat, alignment \in Nat},
                 {<<"log_set_level", level>> : level \in Nat}}
Enabling == {<<"handlers", TRUE>>}
Plain == {<<kind>> : kind \in {"clear", "newline", "advance_cursor", "detect", "init", "halt",
                               "log_init", "early_alloc_init"}}
Deciding == {<<kind>> : kind \in {"choose_output", "warn_if_failed", "start_vga", "banner",
                                  "reinit_result", "stats"}}
Ordinary == UNION {Stating, Typing, Placing, Setting, Asking, Enabling, Plain, Deciding}

(* What keeps writers off the port, and what programs it.                   *)
Guards == {<<"set", "initialized", 0>>, <<"handlers", FALSE>>}
Inits == {<<"serial_init", port, baud>> : port \in {"COM1", "COM2"}, baud \in Nat}
Section == UNION {Ordinary, Guards, Inits}

(* The port is only programmed behind a guard.                              *)
Closed(s) ==
    /\ s \in Seq(Section)
    /\ \A n \in 1 .. Len(s) : s[n] \in Inits => n # 1 /\ s[n - 1] \in Guards

(* Sections are of different kinds.                                         *)
LEMMA KindsApart ==
    ASSUME NEW x \in Section
    PROVE  /\ x[1] = "serial" => \E t \in Seq(Char) : x = <<"serial", t, t>>
           /\ x[1] = "log" => \E level \in 0 .. 4, t \in Seq(Char) : x = <<"log", level, t, t>>
           /\ x[1] \in ScreenSections =>
                  \/ x \in Typing \/ x \in Placing
                  \/ x \in {<<"clear">>, <<"newline">>, <<"advance_cursor">>, <<"detect">>, <<"init">>}
           /\ x[1] # "out"
           /\ x[1] = "set" => x \in Setting \/ x = <<"set", "initialized", 0>>
           /\ x[1] = "handlers" => x = <<"handlers", TRUE>> \/ x = <<"handlers", FALSE>>
           /\ x[1] = "serial_init" <=> x \in Inits
           /\ x[1] \in Decisions => x \in Inits \/ x \in Deciding
           /\ x[1] = "early_alloc_align" => x[2] \in Nat /\ x[3] \in Nat
           /\ x \in Guards => x[1] \in {"set", "handlers"}
<1>1. x \in Stating => \/ x[1] = "serial" /\ \E t \in Seq(Char) : x = <<"serial", t, t>>
                       \/ /\ x[1] = "log"
                          /\ \E level \in 0 .. 4, t \in Seq(Char) : x = <<"log", level, t, t>>
  BY DEF Stating
<1>2. x \in Typing => x[1] \in {"print", "put_char", "early_panic"}
  BY DEF Typing
<1>3. x \in Placing => x[1] \in {"clear_row", "set_color", "set_cursor", "put_char_at"}
  BY DEF Placing
<1>4. x \in Setting => x[1] = "set"
  BY DEF Setting
<1>5. x \in Asking => \/ x[1] = "early_alloc_align" /\ x[2] \in Nat /\ x[3] \in Nat
                      \/ x[1] = "log_set_level"
  BY DEF Asking
<1>6. x \in Plain =>
          \/ /\ x[1] \in {"clear", "newline", "advance_cursor", "detect", "init"}
             /\ x \in {<<"clear">>, <<"newline">>, <<"advance_cursor">>, <<"detect">>, <<"init">>}
          \/ x[1] \in {"halt", "log_init", "early_alloc_init"}
  BY DEF Plain
<1>7. x \in Deciding => x[1] \in {"choose_output", "warn_if_failed", "start_vga", "banner",
                                  "reinit_result", "stats"}
  BY DEF Deciding
<1>8. x \in Guards => \/ x[1] = "set" /\ x = <<"set", "initialized", 0>>
                      \/ x[1] = "handlers" /\ x = <<"handlers", FALSE>>
  <2>1. ASSUME x = <<"handlers", FALSE>> PROVE x[1] = "handlers"
    BY <2>1
  <2>2. ASSUME x = <<"set", "initialized", 0>> PROVE x[1] = "set"
    BY <2>2
  <2>3. QED  BY <2>1, <2>2 DEF Guards
<1>9. x \in Inits => x[1] = "serial_init"
  BY DEF Inits
<1>10. \/ x \in Stating \/ x \in Typing \/ x \in Placing \/ x \in Setting \/ x \in Asking
       \/ x \in Enabling \/ x \in Plain \/ x \in Deciding \/ x \in Guards \/ x \in Inits
  BY DEF Section, Ordinary
<1>11. CASE x \in Stating
  BY <1>1, <1>11, <1>8, <1>9 DEF ScreenSections, Decisions
<1>12. CASE x \in Typing
  BY <1>2, <1>12, <1>8, <1>9 DEF ScreenSections, Decisions
<1>13. CASE x \in Placing
  BY <1>3, <1>13, <1>8, <1>9 DEF ScreenSections, Decisions
<1>14. CASE x \in Setting
  BY <1>4, <1>14, <1>8, <1>9 DEF ScreenSections, Decisions
<1>15. CASE x \in Asking
  BY <1>5, <1>15, <1>8, <1>9 DEF ScreenSections, Decisions
<1>16. CASE x \in Plain
  BY <1>6, <1>16, <1>8, <1>9 DEF ScreenSections, Decisions
<1>17. CASE x \in Deciding
  BY <1>7, <1>17, <1>8, <1>9 DEF ScreenSections, Decisions
<1>18. CASE x \in Guards
  BY <1>8, <1>18, <1>9 DEF ScreenSections, Decisions
<1>19. CASE x \in Inits
  BY <1>9, <1>19, <1>8 DEF ScreenSections, Decisions
<1>20. CASE x \in Enabling
  <2>1. x = <<"handlers", TRUE>>
    BY <1>20 DEF Enabling
  <2>2. x[1] = "handlers"
    BY <2>1
  <2>3. QED  BY <1>8, <1>9, <2>1, <2>2 DEF ScreenSections, Decisions
<1>21. QED  BY <1>10, <1>20, <1>11, <1>12, <1>13, <1>14, <1>15, <1>16, <1>17, <1>18, <1>19

(* Of what is closed, the rest is, unless the port is to be programmed next. *)
LEMMA ClosedRest ==
    ASSUME NEW s, Closed(s), s # <<>>
    PROVE  /\ Head(s) \in Section /\ Head(s) \notin Inits /\ Tail(s) \in Seq(Section)
           /\ \/ Closed(Tail(s))
              \/ /\ Head(s) \in Guards
                 /\ Tail(s) # <<>> /\ Head(Tail(s)) \in Inits /\ Closed(Tail(Tail(s)))
<1>1. s \in Seq(Section)
  BY DEF Closed
<1>2. PICK t : t = Tail(s)
  OBVIOUS
<1>3. /\ Len(s) \in Nat /\ Len(s) >= 1 /\ Head(s) = s[1] /\ Head(s) \in Section
      /\ t \in Seq(Section) /\ Len(t) = Len(s) - 1
      /\ \A n \in 1 .. Len(t) : t[n] = s[n + 1]
  BY <1>1, <1>2
<1>4. Head(s) \notin Inits
  BY <1>3 DEF Closed
<1>5. ASSUME NEW n \in 1 .. Len(t), n # 1, t[n] \in Inits PROVE t[n - 1] \in Guards
  <2>1. n + 1 \in 1 .. Len(s) /\ t[n] = s[n + 1] /\ n - 1 \in 1 .. Len(t) /\ t[n - 1] = s[n]
    BY <1>3, <1>5
  <2>2. QED  BY <1>5, <2>1 DEF Closed
<1>6. CASE t = <<>> \/ t[1] \notin Inits
  <2>1. Closed(t)
    BY <1>3, <1>5, <1>6 DEF Closed
  <2>2. QED  BY <1>2, <1>3, <1>4, <2>1
<1>7. CASE t # <<>> /\ t[1] \in Inits
  <2>1. PICK u : u = Tail(t)
    OBVIOUS
  <2>2. /\ Len(t) >= 1 /\ Head(t) = t[1] /\ u \in Seq(Section) /\ Len(u) = Len(t) - 1
        /\ \A n \in 1 .. Len(u) : u[n] = t[n + 1]
    BY <1>3, <1>7, <2>1
  <2>3. Head(s) \in Guards
    <3>1. 2 \in 1 .. Len(s) /\ t[1] = s[2]
      BY <1>3, <2>2
    <3>2. QED  BY <1>3, <1>7, <3>1 DEF Closed
  <2>4. Closed(u)
    <3>1. ASSUME NEW n \in 1 .. Len(u), u[n] \in Inits PROVE n # 1 /\ u[n - 1] \in Guards
      <4>1. n + 1 \in 1 .. Len(t) /\ n + 1 # 1 /\ u[n] = t[n + 1]
        BY <2>2
      <4>2. t[n] \in Guards
        BY <1>5, <3>1, <4>1
      <4>3. ASSUME n = 1 PROVE FALSE
        <5>1. t[1] \in Guards /\ t[1] \in Section
          BY <1>3, <2>2, <4>2, <4>3
        <5>2. QED  BY <1>7, <5>1, KindsApart
      <4>4. n - 1 \in 1 .. Len(u) /\ u[n - 1] = t[n]
        BY <2>2, <4>3
      <4>5. QED  BY <4>2, <4>3, <4>4
    <3>2. QED  BY <2>2, <3>1 DEF Closed
  <2>5. QED  BY <1>2, <1>3, <1>4, <1>7, <2>1, <2>2, <2>3, <2>4
<1>8. QED  BY <1>6, <1>7

(* One closed sequence after another.                                       *)
LEMMA ClosedThen ==
    ASSUME NEW s, Closed(s), NEW t, Closed(t)
    PROVE  Closed(s \o t)
<1>1. s \in Seq(Section) /\ t \in Seq(Section)
  BY DEF Closed
<1>2. PICK u : u = s \o t
  OBVIOUS
<1>3. /\ u \in Seq(Section) /\ Len(u) = Len(s) + Len(t)
      /\ \A n \in 1 .. Len(s) + Len(t) : u[n] = IF n <= Len(s) THEN s[n] ELSE t[n - Len(s)]
  BY <1>1, <1>2, ConcatProperties
<1>4. PICK a \in Nat, b \in Nat : a = Len(s) /\ b = Len(t)
  BY <1>1
<1>5. ASSUME NEW n \in 1 .. a + b, u[n] \in Inits PROVE n # 1 /\ u[n - 1] \in Guards
  <2>1. CASE n <= a
    <3>1. n \in 1 .. Len(s) /\ u[n] = s[n]
      BY <1>3, <1>4, <2>1
    <3>2. n # 1 /\ s[n - 1] \in Guards
      BY <1>5, <3>1 DEF Closed
    <3>3. n - 1 \in 1 .. Len(s) + Len(t) /\ n - 1 <= Len(s)
      BY <1>4, <2>1, <3>2
    <3>4. QED  BY <1>3, <3>2, <3>3
  <2>2. CASE ~(n <= a)
    <3>1. n - a \in 1 .. Len(t) /\ u[n] = t[n - a]
      BY <1>3, <1>4, <2>2
    <3>2. n - a # 1 /\ t[(n - a) - 1] \in Guards
      BY <1>5, <3>1 DEF Closed
    <3>3. n - 1 \in 1 .. Len(s) + Len(t) /\ ~(n - 1 <= Len(s)) /\ (n - 1) - a = (n - a) - 1 /\ n # 1
      BY <1>4, <2>2, <3>2
    <3>4. u[n - 1] = t[(n - 1) - a]
      BY <1>3, <1>4, <3>3
    <3>5. QED  BY <3>2, <3>3, <3>4
  <2>3. QED  BY <2>1, <2>2
<1>6. QED  BY <1>2, <1>3, <1>4, <1>5 DEF Closed

(* A sequence without an initialisation is closed.                          *)
LEMMA OrdinaryClosed ==
    /\ \A s \in Seq(Ordinary) : Closed(s)
    /\ \A x \in Ordinary \union Guards : Closed(<<x>>)
    /\ Closed(<<>>)
<1>1. ASSUME NEW S, S = Ordinary \union Guards, NEW s \in Seq(S) PROVE Closed(s)
  <2>1. S \subseteq Section
    BY <1>1 DEF Section
  <2>2. s \in Seq(Section)
    BY <2>1, SeqGrows
  <2>3. \A n \in 1 .. Len(s) : s[n] \in S
    OBVIOUS
  <2>4. ASSUME NEW x \in S PROVE x \notin Inits
    <3>1. ASSUME x \in Inits PROVE FALSE
      <4>1. x[1] = "serial_init"
        BY <3>1 DEF Inits
      <4>2. x \in Ordinary
        <5>1. ASSUME x = <<"handlers", FALSE>> PROVE x[1] = "handlers"
          BY <5>1
        <5>2. ASSUME x = <<"set", "initialized", 0>> PROVE x[1] = "set"
          BY <5>2
        <5>3. QED  BY <1>1, <4>1, <5>1, <5>2 DEF Guards
      <4>3. x[1] # "serial_init"
        <5>1. x \in Stating => x[1] # "serial_init"
          BY DEF Stating
        <5>2. x \in Typing => x[1] # "serial_init"
          BY DEF Typing
        <5>3. x \in Placing => x[1] # "serial_init"
          BY DEF Placing
        <5>4. x \in Setting \/ x \in Asking => x[1] # "serial_init"
          BY DEF Setting, Asking
        <5>5. x \in Enabling => x[1] # "serial_init"
          <6>1. ASSUME x = <<"handlers", TRUE>> PROVE x[1] = "handlers"
            BY <6>1
          <6>2. QED  BY <6>1 DEF Enabling
        <5>6. x \in Plain \/ x \in Deciding => x[1] # "serial_init"
          BY DEF Plain, Deciding
        <5>7. QED  BY <4>2, <5>1, <5>2, <5>3, <5>4, <5>5, <5>6 DEF Ordinary
      <4>4. QED  BY <4>1, <4>3
    <3>2. QED  BY <3>1
  <2>5. QED  BY <2>2, <2>3, <2>4 DEF Closed
<1>2. ASSUME NEW s \in Seq(Ordinary) PROVE Closed(s)
  <2>1. s \in Seq(Ordinary \union Guards)
    BY SeqGrows
  <2>2. QED  BY <1>1, <2>1
<1>3. ASSUME NEW x \in Ordinary \union Guards PROVE Closed(<<x>>)
  <2>1. <<x>> \in Seq(Ordinary \union Guards)
    OBVIOUS
  <2>2. QED  BY <1>1, <2>1
<1>4. <<>> \in Seq(Ordinary)
  OBVIOUS
<1>5. QED  BY <1>2, <1>3, <1>4

(* A section that is ordinary, as a sequence.                               *)
LEMMA OneOrdinary ==
    /\ \A t \in Seq(Char) : Closed(<< <<"serial", t, t>> >>) /\ Closed(<< <<"print", t, t>> >>)
    /\ \A level \in 0 .. 4, t \in Seq(Char) : Closed(<< <<"log", level, t, t>> >>)
    /\ \A c \in Char : Closed(<< <<"put_char", c>> >>)
    /\ \A c \in Reasons : Closed(<< <<"early_panic", <<c>> >> >>)
    /\ \A x \in UNION {Placing, Setting, Asking, Enabling, Plain, Deciding} : Closed(<<x>>)
<1>1. ASSUME NEW t \in Seq(Char) PROVE <<"serial", t, t>> \in Ordinary /\ <<"print", t, t>> \in Ordinary
  <2>1. <<"serial", t, t>> \in Stating
    BY DEF Stating
  <2>2. <<"print", t, t>> \in Typing
    BY DEF Typing
  <2>3. QED  BY <2>1, <2>2 DEF Ordinary
<1>2. ASSUME NEW level \in 0 .. 4, NEW t \in Seq(Char) PROVE <<"log", level, t, t>> \in Ordinary
  <2>1. <<"log", level, t, t>> \in Stating
    BY DEF Stating
  <2>2. QED  BY <2>1 DEF Ordinary
<1>3. /\ \A c \in Char : <<"put_char", c>> \in Ordinary
      /\ \A c \in Reasons : <<"early_panic", <<c>> >> \in Ordinary
  <2>1. \A c \in Char : <<"put_char", c>> \in Typing
    BY DEF Typing
  <2>2. \A c \in Reasons : <<"early_panic", <<c>> >> \in Typing
    BY DEF Typing
  <2>3. QED  BY <2>1, <2>2 DEF Ordinary
<1>4. \A x \in UNION {Placing, Setting, Asking, Enabling, Plain, Deciding} : x \in Ordinary
  BY DEF Ordinary
<1>5. \A x \in Ordinary : Closed(<<x>>)
  BY OrdinaryClosed
<1>6. QED  BY <1>1, <1>2, <1>3, <1>4, <1>5

(* What the kernel writes to the serial port.                               *)
LEMMA SerialClosed ==
    /\ \A t \in Seq(Char) : Closed(serial_write_str(t))
    /\ \A v \in Int : Closed(serial_write_hex(v)) /\ Closed(serial_write_dec(v))
    /\ \A v \in 0 .. Word64 - 1 : Closed(serial_write_hex64(v)) /\ Closed(serial_write_dec64(v))
    /\ \A v \in -(Word64 \div 2) .. -1 : Closed(SerialNegative(v))
<1>1. \A t \in Seq(Char) : Closed(SerialText(t, t))
  BY OneOrdinary DEF SerialText
<1>2. \A t \in Seq(Char) : Closed(serial_write_str(t))
  BY <1>1 DEF serial_write_str
<1>3. ASSUME NEW v \in Int PROVE Closed(serial_write_hex(v)) /\ Closed(serial_write_dec(v))
  BY <1>1, NumbersSaid DEF serial_write_hex, serial_write_dec
<1>4. ASSUME NEW v \in 0 .. Word64 - 1 PROVE Closed(serial_write_hex64(v)) /\ Closed(serial_write_dec64(v))
  BY <1>1, NumbersSaid DEF serial_write_hex64, serial_write_dec64
<1>5. ASSUME NEW v \in -(Word64 \div 2) .. -1 PROVE Closed(SerialNegative(v))
  <2>1. Word64 \in Nat /\ v \in -(Word64 \div 2) .. Word64 \div 2 - 1 /\ v < 0
    <3>1. Word64 \in Nat /\ Word64 > 3
      BY TextAssumption
    <3>2. Word64 \div 2 \in Nat
      BY <3>1
    <3>3. QED  BY <3>1, <3>2
  <2>2. /\ Tail(SaysSigned(v)) = SaysNumber(-v, Ten) /\ SaysNumber(-v, Ten) \in Seq(Char)
        /\ Magnitude(v, Word64) = -v /\ -v \in 0 .. Word64 - 1
    <3>1. Word64 \in {Word32, Word64}
      OBVIOUS
    <3>2. QED  BY <2>1, <3>1, SignedSaid
  <2>3. uint64_to_decimal_string(-v) = SaysNumber(-v, Ten)
    BY <2>2, NumbersSaid
  <2>4. Closed(SerialText(uint64_to_decimal_string(Magnitude(v, Word64)), Tail(SaysSigned(v))))
    BY <1>1, <2>2, <2>3
  <2>5. <<"-">> \in Seq(Char)
    <3>1. "-" \in Char
      BY DEF Char
    <3>2. QED  BY <3>1
  <2>6. Closed(serial_write_char("-"))
    BY <1>2, <2>5 DEF serial_write_char
  <2>7. QED  BY <2>4, <2>6, ClosedThen DEF SerialNegative
<1>6. QED  BY <1>2, <1>3, <1>4, <1>5

(* And to the screen.                                                       *)
LEMMA ScreenClosed ==
    /\ \A t \in Seq(Char) : Closed(print_str(t))
    /\ \A c \in Char : Closed(print_char(c))
    /\ \A v \in Int : Closed(print_hex(v)) /\ Closed(print_dec(v))
    /\ \A v \in 0 .. Word64 - 1 : Closed(print_hex64(v)) /\ Closed(print_dec64(v))
    /\ \A v \in -(Word32 \div 2) .. Word32 \div 2 - 1 : Closed(print_dec_signed(v))
    /\ \A v \in -(Word64 \div 2) .. Word64 \div 2 - 1 : Closed(print_dec64_signed(v))
<1>1. \A t \in Seq(Char) : Closed(ScreenText(t, t))
  BY OneOrdinary DEF ScreenText
<1>2. \A t \in Seq(Char) : Closed(print_str(t))
  BY <1>1 DEF print_str
<1>3. ASSUME NEW v \in Int PROVE Closed(print_hex(v)) /\ Closed(print_dec(v))
  BY <1>1, NumbersSaid DEF print_hex, print_dec
<1>4. ASSUME NEW v \in 0 .. Word64 - 1 PROVE Closed(print_hex64(v)) /\ Closed(print_dec64(v))
  BY <1>1, NumbersSaid DEF print_hex64, print_dec64
<1>5. \A c \in Char : Closed(print_char(c))
  BY OneOrdinary DEF print_char
<1>6. Closed(print_char("-"))
  <2>1. "-" \in Char
    BY DEF Char
  <2>2. QED  BY <1>5, <2>1
<1>7. ASSUME NEW v \in -(Word32 \div 2) .. Word32 \div 2 - 1 PROVE Closed(print_dec_signed(v))
  <2>1. CASE v < 0
    <3>1. /\ Tail(SaysSigned(v)) = SaysNumber(-v, Ten) /\ SaysNumber(-v, Ten) \in Seq(Char)
          /\ Magnitude(v, Word32) = -v /\ -v \in 0 .. Word32 - 1
      <4>1. Word32 \in {Word32, Word64}
        OBVIOUS
      <4>2. QED  BY <2>1, <4>1, SignedSaid
    <3>2. (-v) % Word32 = -v /\ -v \in Int
      <4>1. PICK w : w = -v
        OBVIOUS
      <4>2. w \in 0 .. Word32 - 1 /\ Word32 \in Nat
        BY <3>1, <4>1, TextAssumption
      <4>3. w % Word32 = w
        BY <4>2
      <4>4. QED  BY <4>1, <4>2, <4>3
    <3>3. uint32_to_decimal_string(-v) = SaysNumber(-v, Ten)
      BY <3>2, NumbersSaid
    <3>4. Closed(ScreenText(uint32_to_decimal_string(Magnitude(v, Word32)), Tail(SaysSigned(v))))
      BY <1>1, <3>1, <3>3
    <3>5. QED  BY <1>6, <2>1, <3>4, ClosedThen DEF print_dec_signed
  <2>2. CASE ~(v < 0)
    BY <1>3, <2>2 DEF print_dec_signed
  <2>3. QED  BY <2>1, <2>2
<1>8. ASSUME NEW v \in -(Word64 \div 2) .. Word64 \div 2 - 1 PROVE Closed(print_dec64_signed(v))
  <2>1. CASE v < 0
    <3>1. /\ Tail(SaysSigned(v)) = SaysNumber(-v, Ten) /\ SaysNumber(-v, Ten) \in Seq(Char)
          /\ Magnitude(v, Word64) = -v /\ -v \in 0 .. Word64 - 1
      <4>1. Word64 \in {Word32, Word64}
        OBVIOUS
      <4>2. QED  BY <2>1, <4>1, SignedSaid
    <3>2. uint64_to_decimal_string(-v) = SaysNumber(-v, Ten)
      BY <3>1, NumbersSaid
    <3>3. Closed(ScreenText(uint64_to_decimal_string(Magnitude(v, Word64)), Tail(SaysSigned(v))))
      BY <1>1, <3>1, <3>2
    <3>4. QED  BY <1>6, <2>1, <3>3, ClosedThen DEF print_dec64_signed
  <2>2. CASE ~(v < 0)
    <3>1. v \in 0 .. Word64 - 1
      <4>1. Word64 \in Nat
        BY TextAssumption
      <4>2. QED  BY <2>2, <4>1
    <3>2. QED  BY <1>4, <2>2, <3>1 DEF print_dec64_signed
  <2>3. QED  BY <2>1, <2>2
<1>9. QED  BY <1>2, <1>3, <1>4, <1>5, <1>7, <1>8

(* Two elements, one after the other.                                       *)
LEMMA OneAndOne == ASSUME NEW g, NEW x PROVE <<g>> \o <<x>> = <<g, x>>
<1>1. PICK s, t, S : s = <<g>> /\ t = <<x>> /\ S = {g, x}
  OBVIOUS
<1>2. s \in Seq(S) /\ t \in Seq(S) /\ Len(s) = 1 /\ Len(t) = 1 /\ s[1] = g /\ t[1] = x
  BY <1>1
<1>3. PICK u : u = s \o t
  OBVIOUS
<1>4. u \in Seq(S) /\ Len(u) = 2 /\ u[1] = g /\ u[2] = x
  BY <1>2, <1>3, ConcatProperties
<1>5. u = <<g, x>>
  BY <1>4
<1>6. QED  BY <1>1, <1>3, <1>5

(* The calls that store: each closed, and with a guard where they program.  *)
LEMMA StoresClosed ==
    /\ Closed(InitFailed) /\ Closed(serial_clear_error) /\ Closed(serial_write_null)
    /\ \A port \in {"COM1", "COM2"}, baud \in Nat : Closed(serial_reinit(port, baud))
    /\ \A baud \in Nat : Closed(test_serial_baud_rates(baud))
<1>1. \A n \in {0, 1} : Set("failed", n) \in Ordinary
  <2>1. \A n \in {0, 1} : <<"set", "failed", n>> \in Setting
    BY DEF Setting
  <2>2. QED  BY <2>1 DEF Ordinary, Set
<1>2. \A field \in {"error_code", "timeout_count"}, n \in Nat : Set(field, n) \in Ordinary
  <2>1. \A field \in {"error_code", "timeout_count"}, n \in Nat : <<"set", field, n>> \in Setting
    BY DEF Setting
  <2>2. QED  BY <2>1 DEF Ordinary, Set
<1>3. Closed(InitFailed)
  <2>1. <<Set("failed", 1), Set("error_code", 2)>> \in Seq(Ordinary)
    BY <1>1, <1>2
  <2>2. QED  BY <2>1, OrdinaryClosed DEF InitFailed, SERIAL_ERROR_INIT_FAIL
<1>4. Closed(serial_clear_error)
  <2>1. <<Set("failed", 0), Set("error_code", 0)>> \in Seq(Ordinary)
    BY <1>1, <1>2
  <2>2. QED  BY <2>1, OrdinaryClosed DEF serial_clear_error, SERIAL_ERROR_NONE
<1>5. Closed(serial_write_null)
  <2>1. <<Set("error_code", 3)>> \in Seq(Ordinary)
    BY <1>2
  <2>2. QED  BY <2>1, OrdinaryClosed DEF serial_write_null, SERIAL_ERROR_NULL_PTR
<1>6. ASSUME NEW guard \in Guards, NEW port \in {"COM1", "COM2"}, NEW baud \in Nat
      PROVE  Closed(<<guard, <<"serial_init", port, baud>> >>)
  <2>1. PICK x : x = <<"serial_init", port, baud>>
    OBVIOUS
  <2>2. x \in Inits
    BY <2>1 DEF Inits
  <2>3. PICK s : s = <<guard, x>>
    OBVIOUS
  <2>4. s \in Seq(Section) /\ Len(s) = 2 /\ s[1] = guard
    <3>1. guard \in Section /\ x \in Section
      BY <2>2 DEF Section
    <3>2. QED  BY <2>3, <3>1
  <2>5. guard \notin Inits
    <3>1. guard \in Section
      BY DEF Section
    <3>2. QED  BY <3>1, KindsApart
  <2>6. ASSUME NEW n \in 1 .. 2, s[n] \in Inits PROVE n # 1 /\ s[n - 1] \in Guards
    <3>1. n = 2
      BY <2>4, <2>5, <2>6
    <3>2. n - 1 = 1
      BY <3>1
    <3>3. QED  BY <2>4, <3>1, <3>2
  <2>7. Closed(s)
    BY <2>4, <2>6 DEF Closed
  <2>8. QED  BY <2>1, <2>3, <2>7
<1>7. ASSUME NEW port \in {"COM1", "COM2"}, NEW baud \in Nat
      PROVE  Closed(serial_reinit(port, baud))
  <2>1. PICK a, b, c, g, x : /\ a = Set("failed", 0) /\ b = Set("error_code", 0) /\ c = Set("timeout_count", 0)
                             /\ g = Set("initialized", 0) /\ x = <<"serial_init", port, baud>>
    OBVIOUS
  <2>2. Closed(<<a, b, c>>)
    <3>1. <<a, b, c>> \in Seq(Ordinary)
      BY <1>1, <1>2, <2>1
    <3>2. QED  BY <3>1, OrdinaryClosed
  <2>3. Closed(<<g, x>>)
    <3>1. g \in Guards
      BY <2>1 DEF Guards, Set
    <3>2. QED  BY <1>6, <2>1, <3>1
  <2>4. Closed(<< <<"reinit_result">> >>)
    <3>1. <<"reinit_result">> \in Deciding
      BY DEF Deciding
    <3>2. QED  BY <3>1, OneOrdinary
  <2>5. Closed((<<a, b, c>> \o <<g, x>>) \o << <<"reinit_result">> >>)
    BY <2>2, <2>3, <2>4, ClosedThen
  <2>6. serial_reinit(port, baud) = (<<a, b, c>> \o <<g, x>>) \o << <<"reinit_result">> >>
    <3>1. serial_reinit(port, baud) = (<<a, b, c, g>> \o <<x>>) \o << <<"reinit_result">> >>
      BY <2>1 DEF serial_reinit, serial_init, SERIAL_ERROR_NONE
    <3>2. <<a, b, c, g>> \o <<x>> = <<a, b, c>> \o <<g, x>>
      OBVIOUS
    <3>3. QED  BY <3>1, <3>2
  <2>7. QED  BY <2>5, <2>6
<1>8. ASSUME NEW baud \in Nat PROVE Closed(test_serial_baud_rates(baud))
  <2>1. PICK g, x : g = <<"handlers", FALSE>> /\ x = <<"serial_init", "COM1", baud>>
    OBVIOUS
  <2>2. Closed(<<g, x>>)
    <3>1. g \in Guards
      BY <2>1 DEF Guards
    <3>2. QED  BY <1>6, <2>1, <3>1
  <2>3. Closed(interrupts_enable)
    <3>1. <<"handlers", TRUE>> \in Enabling
      BY DEF Enabling
    <3>2. QED  BY <3>1, OneOrdinary DEF interrupts_enable
  <2>4. test_serial_baud_rates(baud) = <<g, x>> \o interrupts_enable
    <3>1. test_serial_baud_rates(baud) = (<<g>> \o <<x>>) \o interrupts_enable
      BY <2>1 DEF test_serial_baud_rates, serial_init
    <3>2. <<g>> \o <<x>> = <<g, x>>
      BY OneAndOne
    <3>3. QED  BY <3>1, <3>2
  <2>5. QED  BY <2>2, <2>3, <2>4, ClosedThen
<1>9. QED  BY <1>3, <1>4, <1>5, <1>7, <1>8

(* What the kernel logs.                                                    *)
LEMMA LogClosed ==
    /\ \A format : Sayable(format) => Closed(LOG_INFO(format))
    /\ \A call \in LogCalls : Closed(call)
    /\ \A section \in HandlerCalls :
           \E t \in Seq(Char) : \/ section = <<"serial", t, t>>
                                \/ \E level \in 0 .. 4 : section = <<"log", level, t, t>>
<1>1. ASSUME NEW c \in Char PROVE <<c>> \in Seq(Char) /\ Len(<<c>>) = 1
  BY <1>1
<1>2. "m" \in Char /\ "f" \in Char /\ "h" \in Char /\ "i" \in Char /\ "j" \in Char
  BY DEF Char
<1>3. ASSUME NEW format, Sayable(format) PROVE Closed(LOG_INFO(format))
  <2>1. \E t \in Seq(Char) : log_output(1, <<"s", "/">>, <<"m">>, 1, format) = << <<"log", 1, t, t>> >>
    <3>1. <<"m">> \in Seq(Char) /\ Len(<<"m">>) = 1 /\ 1 \in 0 .. 4 /\ 1 \in 1 .. 2
      BY <1>1, <1>2
    <3>2. extract_filename(<<"s", "/">> \o <<"m">>) = <<"m">>
      BY FileNamed
    <3>3. QED  BY <1>3, <3>1, <3>2, LineSaid
  <2>2. 1 \in 0 .. 4
    OBVIOUS
  <2>3. QED  BY <2>1, <2>2, OneOrdinary DEF LOG_INFO
<1>4. ASSUME NEW format \in Formats PROVE Closed(log_output(2, <<"a", "/">>, <<"f">>, 2, format))
  <2>1. Sayable(format)
    BY FormatsSayable
  <2>2. <<"f">> \in Seq(Char) /\ Len(<<"f">>) = 1 /\ 2 \in 0 .. 4 /\ 2 \in 1 .. 2
    BY <1>1, <1>2
  <2>3. extract_filename(<<"a", "/">> \o <<"f">>) = <<"f">>
    BY FileNamed
  <2>4. \E t \in Seq(Char) : log_output(2, <<"a", "/">>, <<"f">>, 2, format) = << <<"log", 2, t, t>> >>
    BY <2>1, <2>2, <2>3, LineSaid
  <2>5. QED  BY <2>2, <2>4, OneOrdinary
<1>5. ASSUME NEW format \in Formats PROVE Closed(log_output_simple(1, format))
  <2>1. Sayable(format) /\ 1 \in 0 .. 4
    BY FormatsSayable
  <2>2. \E t \in Seq(Char) : log_output_simple(1, format) = << <<"log", 1, t, t>> >>
    BY <2>1, SimpleSaid
  <2>3. QED  BY <2>1, <2>2, OneOrdinary
<1>6. ASSUME NEW level \in Nat PROVE Closed(log_set_level(level))
  <2>1. <<"log_set_level", level>> \in Asking
    BY DEF Asking
  <2>2. QED  BY <2>1, OneOrdinary DEF log_set_level
<1>7. ASSUME NEW call \in LogCalls PROVE Closed(call)
  <2>1. \/ \E f \in Formats : \/ call = log_output(2, <<"a", "/">>, <<"f">>, 2, f)
                              \/ call = log_output_simple(1, f)
        \/ \E level \in {2, 5} : call = log_set_level(level)
    BY DEF LogCalls
  <2>2. 2 \in Nat /\ 5 \in Nat
    OBVIOUS
  <2>3. QED  BY <1>4, <1>5, <1>6, <2>1, <2>2
<1>8. ASSUME NEW section \in HandlerCalls
      PROVE  \E t \in Seq(Char) : \/ section = <<"serial", t, t>>
                                  \/ \E level \in 0 .. 4 : section = <<"log", level, t, t>>
  <2>1. CASE section = serial_write_str(<<"i">>)[1]
    <3>1. section = <<"serial", <<"i">>, <<"i">> >>
      BY <2>1 DEF serial_write_str, SerialText
    <3>2. <<"i">> \in Seq(Char)
      BY <1>1, <1>2
    <3>3. QED  BY <3>1, <3>2
  <2>2. CASE section = log_output(3, <<>>, <<"h">>, 1, Message("j"))[1]
    <3>1. <<"h">> \in Seq(Char) /\ Len(<<"h">>) = 1 /\ 3 \in 0 .. 4 /\ 1 \in 1 .. 2
      BY <1>1, <1>2
    <3>2. Sayable(Message("j"))
      BY <1>2, FormatsSayable
    <3>3. extract_filename(<<>> \o <<"h">>) = <<"h">>
      BY FileNamed
    <3>4. PICK format, name, directory :
              format = Message("j") /\ name = <<"h">> /\ directory = <<>>
      OBVIOUS
    <3>5. name \in Seq(Char) /\ Len(name) = 1 /\ Sayable(format)
          /\ extract_filename(directory \o name) = name
      BY <3>1, <3>2, <3>3, <3>4
    <3>6. \E t \in Seq(Char) : log_output(3, directory, name, 1, format) = << <<"log", 3, t, t>> >>
      BY ONLY <3>1, <3>5, LineSaid
    <3>7. PICK t \in Seq(Char) : log_output(3, directory, name, 1, format) = << <<"log", 3, t, t>> >>
      BY <3>6
    <3>8. section = <<"log", 3, t, t>>
      BY <2>2, <3>4, <3>7
    <3>9. QED  BY <3>1, <3>8
  <2>3. QED  BY <2>1, <2>2 DEF HandlerCalls
<1>9. QED  BY <1>3, <1>7, <1>8

(* Whatever the main line calls once it is up.                              *)
LEMMA CallsClosed == \A call \in Calls : Closed(call)
<1>1. /\ Values32 \subseteq 0 .. Word32 - 1 /\ Values64 \subseteq 0 .. Word64 - 1
      /\ Signed32 \subseteq -(Word32 \div 2) .. Word32 \div 2 - 1
      /\ Signed64 \subseteq -(Word64 \div 2) .. Word64 \div 2 - 1
      /\ Texts \subseteq Seq(STRING)
      /\ Requests \subseteq (0 .. SizeWord - 1) \X (0 .. SizeWord - 1)
  BY OutputAssumption, Zenon
<1>2. \A t \in Texts : t \in Seq(Char)
  <2>1. STRING \subseteq Char
    BY DEF Char
  <2>2. QED  BY <1>1, <2>1, SeqGrows
<1>3. \A v \in Values32 : v \in Int
  BY <1>1
<1>4. \A v \in Values64 : v \in 0 .. Word64 - 1
  BY <1>1
<1>5. Word32 \in Nat /\ Word64 \in Nat /\ Word32 < Word64 /\ VGA_ROWS \in Nat /\ VGA_COLS \in Nat
  <2>1. {VGA_ROWS, VGA_COLS, TabStop} \subseteq Nat \ {0}
    BY ScreenAssumption, Zenon
  <2>2. VGA_ROWS \in Nat /\ VGA_COLS \in Nat
    BY <2>1
  <2>3. QED  BY <2>2, TextAssumption
<1>6. ASSUME NEW call \in SerialCalls PROVE Closed(call)
  <2>1. ASSUME NEW v \in Signed32 PROVE Closed(serial_write_dec_signed(v))
    <3>1. v \in -(Word32 \div 2) .. Word32 \div 2 - 1
      BY <1>1
    <3>2. CASE v < 0
      <4>1. v \in -(Word64 \div 2) .. -1
        BY <1>5, <3>1, <3>2
      <4>2. Closed(SerialNegative(v))
        BY <4>1, SerialClosed
      <4>3. QED  BY <3>2, <4>2 DEF serial_write_dec_signed
    <3>3. CASE ~(v < 0)
      <4>1. v \in Int
        BY <3>1
      <4>2. QED  BY <3>3, <4>1, SerialClosed DEF serial_write_dec_signed
    <3>4. QED  BY <3>2, <3>3
  <2>2. ASSUME NEW v \in Signed64 PROVE Closed(serial_write_dec64_signed(v))
    <3>1. v \in -(Word64 \div 2) .. Word64 \div 2 - 1
      BY <1>1
    <3>2. CASE v < 0
      <4>1. v \in -(Word64 \div 2) .. -1
        BY <1>5, <3>1, <3>2
      <4>2. Closed(SerialNegative(v))
        BY <4>1, SerialClosed
      <4>3. QED  BY <3>2, <4>2 DEF serial_write_dec64_signed
    <3>3. CASE ~(v < 0)
      <4>1. v \in 0 .. Word64 - 1
        BY <1>5, <3>1, <3>3
      <4>2. QED  BY <3>3, <4>1, SerialClosed DEF serial_write_dec64_signed
    <3>4. QED  BY <3>2, <3>3
  <2>3. \/ \E t \in Texts : call = serial_write_str(t)
        \/ \E v \in Values32 : call = serial_write_hex(v) \/ call = serial_write_dec(v)
        \/ \E v \in Values64 : call = serial_write_hex64(v) \/ call = serial_write_dec64(v)
        \/ \E v \in Signed32 : call = serial_write_dec_signed(v)
        \/ \E v \in Signed64 : call = serial_write_dec64_signed(v)
        \/ call = serial_write_null \/ call = serial_clear_error
        \/ \E port \in {"COM1", "COM2"}, baud \in {0, 110} : call = serial_reinit(port, baud)
        \/ \E baud \in {50, 9600} : call = test_serial_baud_rates(baud)
    BY DEF SerialCalls
  <2>4. {0, 110, 50, 9600} \subseteq Nat
    OBVIOUS
  <2>5. CASE \E t \in Texts : call = serial_write_str(t)
    BY <1>2, <2>5, SerialClosed
  <2>6. CASE \E v \in Values32 : call = serial_write_hex(v) \/ call = serial_write_dec(v)
    BY <1>3, <2>6, SerialClosed
  <2>7. CASE \E v \in Values64 : call = serial_write_hex64(v) \/ call = serial_write_dec64(v)
    BY <1>4, <2>7, SerialClosed
  <2>8. QED  BY <2>1, <2>2, <2>3, <2>4, <2>5, <2>6, <2>7, StoresClosed
<1>7. ASSUME NEW call \in ScreenCalls PROVE Closed(call)
  <2>1. \/ \E t \in Texts : call = print_str(t)
        \/ \E v \in Values32 : call = print_hex(v) \/ call = print_dec(v)
        \/ \E v \in Values64 : call = print_hex64(v) \/ call = print_dec64(v)
        \/ \E v \in Signed32 : call = print_dec_signed(v)
        \/ \E v \in Signed64 : call = print_dec64_signed(v)
        \/ call \in {print_char("c"), print_clear, print_newline, print_advance_cursor}
        \/ \E row \in {0, VGA_ROWS} : call = print_clear_row(row)
        \/ \E bg \in {2, 16} : call = print_set_color(1, bg)
        \/ call \in {print_set_cursor(1, VGA_ROWS), print_set_cursor(VGA_COLS, 1)}
        \/ \E row \in {1, VGA_ROWS} : call = put_char_at("a", 1, row, 16, 3)
    BY DEF ScreenCalls
  <2>2. CASE \E t \in Texts : call = print_str(t)
    BY <1>2, <2>2, ScreenClosed
  <2>3. CASE \E v \in Values32 : call = print_hex(v) \/ call = print_dec(v)
    BY <1>3, <2>3, ScreenClosed
  <2>4. CASE \E v \in Values64 : call = print_hex64(v) \/ call = print_dec64(v)
    BY <1>4, <2>4, ScreenClosed
  <2>5. CASE \E v \in Signed32 : call = print_dec_signed(v)
    BY <1>1, <2>5, ScreenClosed
  <2>6. CASE \E v \in Signed64 : call = print_dec64_signed(v)
    BY <1>1, <2>6, ScreenClosed
  <2>7. Closed(print_char("c"))
    <3>1. "c" \in Char
      BY DEF Char
    <3>2. QED  BY <3>1, ScreenClosed
  <2>8. Closed(print_clear) /\ Closed(print_newline) /\ Closed(print_advance_cursor)
    <3>1. <<"clear">> \in Plain /\ <<"newline">> \in Plain /\ <<"advance_cursor">> \in Plain
      BY DEF Plain
    <3>2. QED  BY <3>1, OneOrdinary DEF print_clear, print_newline, print_advance_cursor
  <2>9. \A row \in Nat : Closed(print_clear_row(row))
    <3>1. \A row \in Nat : <<"clear_row", row>> \in Placing
      BY DEF Placing
    <3>2. QED  BY <3>1, OneOrdinary DEF print_clear_row
  <2>10. \A fg, bg \in Nat : Closed(print_set_color(fg, bg)) /\ Closed(print_set_cursor(fg, bg))
    <3>1. \A fg, bg \in Nat : <<"set_color", fg, bg>> \in Placing
      BY DEF Placing
    <3>2. \A fg, bg \in Nat : <<"set_cursor", fg, bg>> \in Placing
      BY DEF Placing
    <3>3. QED  BY <3>1, <3>2, OneOrdinary DEF print_set_color, print_set_cursor
  <2>11. \A row \in Nat : Closed(put_char_at("a", 1, row, 16, 3))
    <3>1. "a" \in Char /\ 1 \in Nat /\ 16 \in Nat /\ 3 \in Nat
      BY DEF Char
    <3>2. \A row \in Nat : <<"put_char_at", "a", 1, row, 16, 3>> \in Placing
      BY <3>1 DEF Placing
    <3>3. QED  BY <3>2, OneOrdinary DEF put_char_at
  <2>12. {0, 1, 2, 16, VGA_ROWS, VGA_COLS} \subseteq Nat
    BY <1>5
  <2>13. QED
    BY <2>1, <2>2, <2>3, <2>4, <2>5, <2>6, <2>7, <2>8, <2>9, <2>10, <2>11, <2>12
<1>8. ASSUME NEW call \in PoolCalls PROVE Closed(call)
  <2>1. \/ \E r \in Requests : call = early_alloc(r[1], r[2])
        \/ call = << <<"stats">> >>
    BY DEF PoolCalls
  <2>2. ASSUME NEW r \in Requests PROVE Closed(early_alloc(r[1], r[2]))
    <3>1. r[1] \in Nat /\ r[2] \in Nat
      BY <1>1
    <3>2. <<"early_alloc_align", r[1], r[2]>> \in Asking
      BY <3>1 DEF Asking
    <3>3. QED  BY <3>2, OneOrdinary DEF early_alloc
  <2>3. Closed(<< <<"stats">> >>)
    <3>1. <<"stats">> \in Deciding
      BY DEF Deciding
    <3>2. QED  BY <3>1, OneOrdinary
  <2>4. QED  BY <2>1, <2>2, <2>3
<1>9. QED  BY <1>6, <1>7, <1>8, LogClosed DEF Calls

(* Words of plain kinds, and short messages.                                *)
LEMMA BootClosed ==
    /\ \A kind \in {"clear", "detect", "init", "halt", "log_init", "early_alloc_init"} : Closed(<< <<kind>> >>)
    /\ \A kind \in {"choose_output", "warn_if_failed", "start_vga", "banner"} : Closed(<< <<kind>> >>)
    /\ \A c \in Char : Closed(serial_write_str(<<c>>))
    /\ \A c \in Reasons : Closed(early_panic(<<c>>))
    /\ \A c \in Char : Closed(print_str(<<c, CR, LF>>))
    /\ \A fg, bg \in Nat : Closed(print_set_color(fg, bg))
    /\ Closed(interrupts_enable) /\ Closed(print_clear) /\ Closed(halt)
<1>1. \A kind \in {"clear", "detect", "init", "halt", "log_init", "early_alloc_init"} : Closed(<< <<kind>> >>)
  <2>1. \A kind \in {"clear", "detect", "init", "halt", "log_init", "early_alloc_init"} : <<kind>> \in Plain
    BY DEF Plain
  <2>2. QED  BY <2>1, OneOrdinary
<1>2. \A kind \in {"choose_output", "warn_if_failed", "start_vga", "banner"} : Closed(<< <<kind>> >>)
  <2>1. \A kind \in {"choose_output", "warn_if_failed", "start_vga", "banner"} : <<kind>> \in Deciding
    BY DEF Deciding
  <2>2. QED  BY <2>1, OneOrdinary
<1>3. Closed(halt) /\ Closed(print_clear)
  BY <1>1 DEF halt, print_clear
<1>4. /\ \A c \in Char : Closed(serial_write_str(<<c>>))
      /\ \A c \in Reasons : Closed(early_panic(<<c>>))
  <2>1. \A c \in Char : <<c>> \in Seq(Char)
    OBVIOUS
  <2>2. \A c \in Reasons : Closed(<< <<"early_panic", <<c>> >> >>)
    BY OneOrdinary
  <2>3. QED  BY <1>3, <2>1, <2>2, SerialClosed, ClosedThen DEF early_panic
<1>5. ASSUME NEW c \in Char PROVE Closed(print_str(<<c, CR, LF>>))
  <2>1. CR \in Char /\ LF \in Char
    BY DEF Char
  <2>2. <<c, CR, LF>> \in Seq(Char)
    BY <2>1
  <2>3. QED  BY <2>2, ScreenClosed
<1>6. \A fg, bg \in Nat : Closed(print_set_color(fg, bg))
  <2>1. \A fg, bg \in Nat : <<"set_color", fg, bg>> \in Placing
    BY DEF Placing
  <2>2. QED  BY <2>1, OneOrdinary DEF print_set_color
<1>7. Closed(interrupts_enable)
  <2>1. <<"handlers", TRUE>> \in Enabling
    BY DEF Enabling
  <2>2. QED  BY <2>1, OneOrdinary DEF interrupts_enable
<1>8. QED  BY <1>1, <1>2, <1>3, <1>4, <1>5, <1>6, <1>7

(* With the serial port up.                                                 *)
LEMMA SerialModeClosed == Closed(SerialMode)
<1>1. "b" \in Char /\ "k" \in Char
  BY DEF Char
<1>2. Closed(serial_write_str(<<"b">>)) /\ Closed(interrupts_enable) /\ Closed(<< <<"banner">> >>)
      /\ Closed(<< <<"early_alloc_init">> >>)
  BY <1>1, BootClosed
<1>3. PICK a, b, c, d : /\ a = <<"warn_if_failed">> /\ b = <<"detect">>
                        /\ c = <<"start_vga">> /\ d = <<"log_init">>
  OBVIOUS
<1>4. Closed(<<a, b, c, d>>)
  <2>1. a \in Deciding /\ b \in Plain /\ c \in Deciding /\ d \in Plain
    BY <1>3 DEF Deciding, Plain
  <2>2. a \in Ordinary /\ b \in Ordinary /\ c \in Ordinary /\ d \in Ordinary
    BY <2>1 DEF Ordinary
  <2>3. <<a, b, c, d>> \in Seq(Ordinary)
    BY <2>2
  <2>4. QED  BY <2>3, OrdinaryClosed
<1>5. Closed(LOG_INFO(Message("k")))
  <2>1. Sayable(Message("k"))
    BY <1>1, FormatsSayable
  <2>2. QED  BY <2>1, LogClosed
<1>6. Closed(slab_init)
  <2>1. EARLY_ALLOC_ALIGNMENT \in Nat
    BY EarlyAllocAssumption, Zenon
  <2>2. SlabPoolSize \in 0 .. Word32 - 1
    BY OutputAssumption, Zenon
  <2>3. SlabPoolSize \in Nat /\ SlabPoolSize \in Int
    BY <2>2
  <2>4. <<"early_alloc_align", SlabPoolSize, EARLY_ALLOC_ALIGNMENT>> \in Asking
    BY <2>1, <2>3 DEF Asking
  <2>5. Closed(early_alloc(SlabPoolSize, EARLY_ALLOC_ALIGNMENT))
    BY <2>4, OneOrdinary DEF early_alloc
  <2>6. Closed(serial_write_dec(SlabPoolSize))
    BY <2>3, SerialClosed
  <2>7. QED  BY <2>5, <2>6, ClosedThen DEF slab_init
<1>7. SerialMode = serial_write_str(<<"b">>) \o <<a, b, c, d>> \o LOG_INFO(Message("k"))
                       \o << <<"banner">> >> \o interrupts_enable \o << <<"early_alloc_init">> >>
                       \o slab_init
  BY <1>3 DEF SerialMode
<1>8. QED  BY <1>2, <1>4, <1>5, <1>6, <1>7, ClosedThen

(* Whatever a section turns out to be; a call of serial_init apart.         *)
LEMMA DecisionClosed ==
    ASSUME NEW x \in Section, x[1] \in Decisions, x \notin Inits,
           serial.error_code \in Int, serial.timeout_count \in Int,
           pool.size \in Nat, pool.used \in Nat
    PROVE  Closed(Decision(x))
<1>1. x \in Deciding
  BY KindsApart
<1>2. x[1] \in {"choose_output", "warn_if_failed", "start_vga", "banner", "reinit_result", "stats"}
  BY <1>1 DEF Deciding
<1>3. {"N", "e", "v", "w", "W", "F"} \subseteq Char
  BY DEF Char
<1>4. Closed(<<>>)
  BY OrdinaryClosed
<1>5. CASE x[1] = "choose_output"
  <2>1. Closed(VgaOnly)
    <3>1. 14 \in Nat /\ 0 \in Nat
      OBVIOUS
    <3>2. /\ Closed(<< <<"detect">> >>) /\ Closed(print_clear) /\ Closed(print_set_color(14, 0))
          /\ Closed(print_str(<<"F", CR, LF>>)) /\ Closed(halt)
      BY <1>3, <3>1, BootClosed
    <3>3. Closed(print_hex(serial.error_code)) /\ Closed(print_dec(serial.timeout_count))
      BY ScreenClosed
    <3>4. QED  BY <3>2, <3>3, ClosedThen DEF VgaOnly
  <2>2. Closed(early_panic(<<"N">>))
    BY BootClosed DEF Reasons
  <2>3. Decision(x) = ChooseOutput
    BY <1>5 DEF Decision
  <2>4. QED  BY <2>1, <2>2, <2>3, SerialModeClosed DEF ChooseOutput
<1>6. CASE x[1] = "warn_if_failed"
  <2>1. Decision(x) = IF serial.failed = 1 THEN serial_write_str(<<"e">>) ELSE <<>>
    BY <1>6 DEF Decision
  <2>2. QED  BY <1>3, <1>4, <2>1, BootClosed
<1>7. CASE x[1] = "start_vga"
  <2>1. Decision(x) = StartVga
    BY <1>7 DEF Decision
  <2>2. 10 \in Nat /\ 0 \in Nat
    OBVIOUS
  <2>3. /\ Closed(<< <<"init">> >>) /\ Closed(print_clear) /\ Closed(print_set_color(10, 0))
        /\ Closed(serial_write_str(<<"v">>)) /\ Closed(serial_write_str(<<"w">>))
    BY <1>3, <2>2, BootClosed
  <2>4. QED  BY <2>1, <2>3, ClosedThen DEF StartVga
<1>8. CASE x[1] = "banner"
  <2>1. Decision(x) = IF screen.detected THEN print_str(<<"W", CR, LF>>) ELSE <<>>
    BY <1>8 DEF Decision
  <2>2. QED  BY <1>3, <1>4, <2>1, BootClosed
<1>9. CASE x[1] = "reinit_result"
  <2>1. Decision(x) = IF serial.initialized = 0 THEN InitFailed ELSE <<>>
    BY <1>9 DEF Decision
  <2>2. QED  BY <1>4, <2>1, StoresClosed
<1>10. CASE x[1] = "stats"
  <2>1. Decision(x) = early_alloc_print_stats
    BY <1>10 DEF Decision
  <2>2. /\ pool.size \in Int /\ pool.used \in Int /\ pool.size - pool.used \in Int
        /\ pool.size > 0 => (pool.used * 100) \div pool.size \in Int
    OBVIOUS
  <2>3. Closed(IF pool.size > 0 THEN serial_write_dec((pool.used * 100) \div pool.size) ELSE <<>>)
    BY <1>4, <2>2, SerialClosed
  <2>4. /\ Closed(serial_write_dec(pool.size)) /\ Closed(serial_write_dec(pool.used))
        /\ Closed(serial_write_dec(pool.size - pool.used))
    BY <2>2, SerialClosed
  <2>5. QED  BY <2>1, <2>3, <2>4, ClosedThen DEF early_alloc_print_stats
<1>11. QED  BY <1>2, <1>5, <1>6, <1>7, <1>8, <1>9, <1>10

-----------------------------------------------------------------------------
(* The serial line: writes, and the stores that program the port.           *)

(* The driver's state and the UART's.                                       *)
SerialState ==
    [initialized : {0, 1}, port : {"none", "COM1", "COM2"}, failed : {0, 1},
     error_code : Nat, timeout_count : Nat]
UartState == [present : BOOLEAN, dlab : BOOLEAN, dll : Nat, dlm : Nat, wire : Seq(Char)]

(* The beginning of a text, one character longer.                           *)
LEMMA OneMore ==
    ASSUME NEW S, NEW wire \in Seq(S), NEW text \in Seq(S), NEW n \in 1 .. Len(text)
    PROVE  Append(wire \o SubSeq(text, 1, n - 1), text[n]) = wire \o SubSeq(text, 1, n)
<1>1. PICK a, b : a = SubSeq(text, 1, n - 1) /\ b = SubSeq(text, 1, n)
  OBVIOUS
<1>2. Len(text) \in Nat /\ \A i \in 1 .. Len(text) : text[i] \in S
  OBVIOUS
<1>3. a \in Seq(S) /\ Len(a) = n - 1 /\ \A i \in 1 .. n - 1 : a[i] = text[i]
  <2>1. 1 \in Int /\ n - 1 \in Int /\ \A i \in 1 .. n - 1 : text[i] \in S
    BY <1>2
  <2>2. /\ a \in Seq(S) /\ Len(a) = IF 1 <= n - 1 THEN n - 1 - 1 + 1 ELSE 0
        /\ \A i \in 1 .. n - 1 - 1 + 1 : a[i] = text[1 + i - 1]
    BY ONLY <1>1, <2>1, SubSeqProperties
  <2>3. QED  BY <2>2
<1>4. b \in Seq(S) /\ Len(b) = n /\ \A i \in 1 .. n : b[i] = text[i]
  <2>1. 1 \in Int /\ n \in Int /\ \A i \in 1 .. n : text[i] \in S
    BY <1>2
  <2>2. /\ b \in Seq(S) /\ Len(b) = IF 1 <= n THEN n - 1 + 1 ELSE 0
        /\ \A i \in 1 .. n - 1 + 1 : b[i] = text[1 + i - 1]
    BY ONLY <1>1, <2>1, SubSeqProperties
  <2>3. QED  BY <2>2
<1>5. text[n] \in S
  BY <1>2
<1>6. PICK p, q : p = wire \o a /\ q = wire \o b
  OBVIOUS
<1>7. /\ p \in Seq(S) /\ Len(p) = Len(wire) + (n - 1)
      /\ \A i \in 1 .. Len(wire) + (n - 1) : p[i] = IF i <= Len(wire) THEN wire[i] ELSE a[i - Len(wire)]
  <2>1. wire \in Seq(S) /\ a \in Seq(S)
    BY <1>3
  <2>2. /\ p \in Seq(S) /\ Len(p) = Len(wire) + Len(a)
        /\ \A i \in 1 .. Len(wire) + Len(a) : p[i] = IF i <= Len(wire) THEN wire[i] ELSE a[i - Len(wire)]
    BY ONLY <1>6, <2>1, ConcatProperties
  <2>3. Len(a) = n - 1
    BY <1>3
  <2>4. QED  BY <2>2, <2>3
<1>8. /\ q \in Seq(S) /\ Len(q) = Len(wire) + n
      /\ \A i \in 1 .. Len(wire) + n : q[i] = IF i <= Len(wire) THEN wire[i] ELSE b[i - Len(wire)]
  <2>1. wire \in Seq(S) /\ b \in Seq(S)
    BY <1>4
  <2>2. /\ q \in Seq(S) /\ Len(q) = Len(wire) + Len(b)
        /\ \A i \in 1 .. Len(wire) + Len(b) : q[i] = IF i <= Len(wire) THEN wire[i] ELSE b[i - Len(wire)]
    BY ONLY <1>6, <2>1, ConcatProperties
  <2>3. Len(b) = n
    BY <1>4
  <2>4. QED  BY <2>2, <2>3
<1>9. PICK r : r = Append(p, text[n])
  OBVIOUS
<1>10. PICK m \in Nat : m = Len(wire)
  OBVIOUS
<1>11. /\ r \in Seq(S) /\ Len(r) = m + n
       /\ \A i \in 1 .. m + (n - 1) : r[i] = p[i]
       /\ r[m + n] = text[n]
  BY <1>5, <1>7, <1>9, <1>10
<1>12. ASSUME NEW i \in 1 .. m + n PROVE r[i] = q[i]
  <2>1. CASE i <= m
    <3>1. i \in 1 .. m + (n - 1) /\ i \in 1 .. m + n
      BY <2>1
    <3>2. r[i] = wire[i] /\ q[i] = wire[i]
      BY <1>7, <1>8, <1>10, <1>11, <2>1, <3>1
    <3>3. QED  BY <3>2
  <2>2. CASE i > m /\ i # m + n
    <3>1. i - m \in 1 .. n - 1 /\ i - m \in 1 .. n /\ i \in 1 .. m + (n - 1)
      BY <2>2
    <3>2. r[i] = a[i - m] /\ q[i] = b[i - m]
      BY <1>7, <1>8, <1>10, <1>11, <2>2, <3>1
    <3>3. QED  BY <1>3, <1>4, <3>1, <3>2
  <2>3. CASE i = m + n
    <3>1. q[i] = b[n]
      <4>1. i - m = n /\ ~(i <= m)
        BY <2>3
      <4>2. QED  BY <1>8, <1>10, <4>1
    <3>2. QED  BY <1>4, <1>11, <2>3, <3>1
  <2>4. QED  BY <2>1, <2>2, <2>3
<1>13. r = q
  BY <1>8, <1>10, <1>11, <1>12
<1>14. QED  BY <1>1, <1>6, <1>9, <1>13

(* What the transmitter is given goes out, character by character.          *)
LEMMA UartIs ==
    ASSUME NEW ser, ser.initialized \in {0, 1}, NEW u \in UartState,
           NEW text \in Seq(Char), NEW ready \in 0 .. Len(text),
           ser.initialized = 1 => ~u.dlab
    PROVE  UartAfter(ser, u, text, ready) =
               IF ser.initialized = 0 THEN u
               ELSE [u EXCEPT !.wire = u.wire \o SubSeq(text, 1, ready)]
<1> DEFINE Is(f) == f = [n \in 0 .. Len(text) |-> IF n = 0 THEN u ELSE Outb(f[n - 1], text[n])]
           Sent(n) == [u EXCEPT !.wire = u.wire \o SubSeq(text, 1, n)]
<1>1. u.wire \in Seq(Char) /\ Len(text) \in Nat
  BY DEF UartState
<1>2. PICK sent : sent = CHOOSE f : Is(f)
  OBVIOUS
<1>3. UartAfter(ser, u, text, ready) = sent[Written(ser, text, ready)]
  BY <1>2, Zenon DEF UartAfter
<1>4. Written(ser, text, ready) = IF ser.initialized = 0 THEN 0 ELSE ready
  BY <1>1 DEF Written
<1>5. \E f : Is(f)
  <2>1. CASE u.dlab
    <3>1. PICK f : f = [n \in 0 .. Len(text) |-> IF n = 0 THEN u ELSE [u EXCEPT !.dll = text[n]]]
      OBVIOUS
    <3>2. ASSUME NEW n \in 1 .. Len(text) PROVE f[n] = Outb(f[n - 1], text[n])
      <4>1. n \in 0 .. Len(text) /\ n - 1 \in 0 .. Len(text)
        BY <1>1
      <4>2. f[n] = [u EXCEPT !.dll = text[n]]
        BY <3>1, <4>1
      <4>3. PICK v : v = f[n - 1]
        OBVIOUS
      <4>4. v = u \/ \E x : v = [u EXCEPT !.dll = x]
        BY <3>1, <4>1, <4>3
      <4>5. v.dlab /\ [v EXCEPT !.dll = text[n]] = [u EXCEPT !.dll = text[n]]
        BY <2>1, <4>4 DEF UartState
      <4>6. Outb(v, text[n]) = [u EXCEPT !.dll = text[n]]
        BY <4>5 DEF Outb
      <4>7. QED  BY <4>2, <4>3, <4>6
    <3>3. f[0] = u
      BY <1>1, <3>1
    <3>4. f = [n \in 0 .. Len(text) |-> f[n]]
      BY <3>1
    <3>5. \A n \in 0 .. Len(text) : f[n] = IF n = 0 THEN u ELSE Outb(f[n - 1], text[n])
      BY <3>2, <3>3
    <3>6. Is(f)
      BY <3>4, <3>5
    <3>7. QED  BY <3>6
  <2>2. CASE ~u.dlab
    <3>1. PICK f : f = [n \in 0 .. Len(text) |-> Sent(n)]
      OBVIOUS
    <3>2. ASSUME NEW n \in 1 .. Len(text) PROVE f[n] = Outb(f[n - 1], text[n])
      <4>1. n \in 0 .. Len(text) /\ n - 1 \in 0 .. Len(text)
        BY <1>1
      <4>2. f[n] = Sent(n) /\ f[n - 1] = Sent(n - 1)
        BY <3>1, <4>1
      <4>3. PICK w : w = u.wire \o SubSeq(text, 1, n - 1)
        OBVIOUS
      <4>4. Append(w, text[n]) = u.wire \o SubSeq(text, 1, n)
        BY <1>1, <4>3, OneMore
      <4>5. PICK v : v = [u EXCEPT !.wire = w]
        OBVIOUS
      <4>6. ~v.dlab /\ v.wire = w
        BY <2>2, <4>5 DEF UartState
      <4>7. [v EXCEPT !.wire = Append(w, text[n])] = [u EXCEPT !.wire = Append(w, text[n])]
        BY <4>5 DEF UartState
      <4>8. Outb(v, text[n]) = [v EXCEPT !.wire = Append(w, text[n])]
        BY <4>6 DEF Outb
      <4>9. QED  BY <4>2, <4>3, <4>4, <4>5, <4>7, <4>8
    <3>3. f[0] = u
      <4>1. f[0] = Sent(0)
        BY <1>1, <3>1
      <4>2. u.wire \o SubSeq(text, 1, 0) = u.wire
        <5>1. SubSeq(text, 1, 0) = <<>>
          BY SubSeqEmpty
        <5>2. QED  BY <1>1, <5>1, ConcatEmptySeq
      <4>3. [u EXCEPT !.wire = u.wire] = u
        BY DEF UartState
      <4>4. QED  BY <4>1, <4>2, <4>3
    <3>4. f = [n \in 0 .. Len(text) |-> f[n]]
      BY <3>1
    <3>5. \A n \in 0 .. Len(text) : f[n] = IF n = 0 THEN u ELSE Outb(f[n - 1], text[n])
      BY <3>2, <3>3
    <3>6. Is(f)
      BY <3>4, <3>5
    <3>7. QED  BY <3>6
  <2>3. QED  BY <2>1, <2>2
<1>6. Is(sent)
  <2> HIDE DEF Is
  <2>1. QED  BY <1>2, <1>5
<1>7. sent[0] = u /\ \A n \in 1 .. Len(text) : sent[n] = Outb(sent[n - 1], text[n])
  BY <1>1, <1>6
<1>8. CASE ser.initialized = 0
  BY <1>3, <1>4, <1>7, <1>8
<1>9. CASE ser.initialized = 1
  <2>1. ~u.dlab
    BY <1>9
  <2> DEFINE Q == {n \in Nat : n <= Len(text) => sent[n] = Sent(n)}
  <2>2. 0 \in Q
    <3>1. u.wire \o SubSeq(text, 1, 0) = u.wire
      <4>1. SubSeq(text, 1, 0) = <<>>
        BY SubSeqEmpty
      <4>2. QED  BY <1>1, <4>1, ConcatEmptySeq
    <3>2. [u EXCEPT !.wire = u.wire] = u
      BY DEF UartState
    <3>3. QED  BY <1>7, <3>1, <3>2
  <2>3. ASSUME NEW k \in Nat, k \in Q, k + 1 <= Len(text) PROVE sent[k + 1] = Sent(k + 1)
    <3>1. PICK n \in 1 .. Len(text) : n = k + 1
      BY <1>1, <2>3
    <3>2. n - 1 = k /\ sent[k] = Sent(k)
      BY <2>3, <3>1
    <3>3. sent[n] = Outb(Sent(n - 1), text[n])
      BY <1>7, <3>2
    <3>4. PICK w : w = u.wire \o SubSeq(text, 1, n - 1)
      OBVIOUS
    <3>5. Append(w, text[n]) = u.wire \o SubSeq(text, 1, n)
      BY <1>1, <3>4, OneMore
    <3>6. PICK v : v = [u EXCEPT !.wire = w]
      OBVIOUS
    <3>7. ~v.dlab /\ v.wire = w
      BY <2>1, <3>6 DEF UartState
    <3>8. [v EXCEPT !.wire = Append(w, text[n])] = [u EXCEPT !.wire = Append(w, text[n])]
      BY <3>6 DEF UartState
    <3>9. Outb(v, text[n]) = [v EXCEPT !.wire = Append(w, text[n])]
      BY <3>7 DEF Outb
    <3>10. QED  BY <3>1, <3>3, <3>4, <3>5, <3>6, <3>8, <3>9
  <2>4. ASSUME NEW k \in Nat, k \in Q PROVE k + 1 \in Q
    <3>1. CASE k + 1 <= Len(text)
      <4>1. sent[k + 1] = Sent(k + 1)
        BY <2>3, <2>4, <3>1
      <4>2. QED  BY <4>1
    <3>2. CASE ~(k + 1 <= Len(text))
      BY <3>2
    <3>3. QED  BY <3>1, <3>2
  <2>5. \A k \in Nat : k \in Q
    <3> HIDE DEF Q
    <3>1. QED  BY <2>2, <2>4, Induction
  <2>6. sent[ready] = Sent(ready)
    <3>1. ready \in Nat /\ ready <= Len(text)
      BY <1>1
    <3>2. QED  BY <2>5, <3>1
  <2>7. QED  BY <1>3, <1>4, <1>9, <2>6
<1>10. QED  BY <1>8, <1>9

(* The driver and the UART agree with what has been reported.               *)
Wired ==
    /\ serial \in SerialState /\ uart \in UartState
    /\ uart.wire = reported
    /\ unsent => serial.failed = 1

(* The open port is programmed as asked; and nobody writes to it.           *)
Ready == serial.initialized = 1 => ~uart.dlab /\ uart.dll + 256 * uart.dlm = rate
Safe == serial.initialized = 0 \/ ~handlers

(* The rates that a port is programmed for, and their divisors.             *)
UartClock == 115200
Rates == 110 .. UartClock
Divisor(baud) == UartClock \div baud

(* What is left of a sequence from an element on, and then the rest.        *)
From(s, k, rest) == SubSeq(s, k, Len(s)) \o rest

(* The stores that initialise the port for a rate, from one of them on: what *)
(* has been stored is in the UART.                                          *)
ProgramAt(port, baud, k, rest) ==
    /\ todo = From(InitStores(port, baud), k, rest)
    /\ rate = Divisor(baud)
    /\ k >= 7 => uart.dll = rate % 256
    /\ k >= 8 => uart.dlm = (rate \div 256) % 256
    /\ k = 9 => ~uart.dlab

Idle == Ready /\ Closed(todo)
Leading == Ready /\ Safe /\ todo # <<>> /\ Head(todo) \in Inits /\ Closed(Tail(todo))
Programming ==
    /\ Safe
    /\ \E port \in {"COM1", "COM2"}, baud \in Rates, k \in 1 .. 9, rest \in Seq(Section) :
           Closed(rest) /\ ProgramAt(port, baud, k, rest)

WireInv == Wired /\ (Idle \/ Leading \/ Programming)

(* A text written to the port, none of whose stores goes astray.            *)
LEMMA WriteStep ==
    ASSUME Wired, serial.initialized = 1 => ~uart.dlab,
           NEW t \in Seq(Char), NEW ready \in 0 .. Len(t), SerialWrite(t, t, ready)
    PROVE  /\ Wired'
           /\ serial'.initialized = serial.initialized
           /\ uart'.dlab = uart.dlab /\ uart'.dll = uart.dll /\ uart'.dlm = uart.dlm
<1>1. /\ serial \in SerialState /\ uart \in UartState /\ uart.wire = reported
      /\ unsent => serial.failed = 1
  BY DEF Wired
<1>2. /\ serial.initialized \in {0, 1} /\ serial.timeout_count \in Nat
      /\ uart.wire \in Seq(Char) /\ Len(t) \in Nat
  BY <1>1 DEF SerialState, UartState
<1>3. /\ ready < Len(t) => serial.initialized = 1
      /\ serial' = SerialAfter(serial, t, ready)
      /\ uart' = UartAfter(serial, uart, t, ready)
      /\ unsent' = (unsent \/ ready < Len(t))
  BY DEF SerialWrite
<1>4. PICK sent : sent = Written(serial, t, ready)
  OBVIOUS
<1>5. sent = IF serial.initialized = 0 THEN 0 ELSE ready
  BY <1>2, <1>4 DEF Written
<1>6. reported' = reported \o (IF sent = Len(t) /\ serial.initialized = 1 THEN t ELSE Cut(t, sent))
  BY <1>4 DEF SerialWrite
<1>7. uart' = IF serial.initialized = 0 THEN uart
              ELSE [uart EXCEPT !.wire = uart.wire \o SubSeq(t, 1, ready)]
  <2>1. PICK u : u = uart
    OBVIOUS
  <2>2. u \in UartState /\ (serial.initialized = 1 => ~u.dlab) /\ ready \in 0 .. Len(t)
    BY <1>1, <2>1
  <2>3. UartAfter(serial, u, t, ready) =
            IF serial.initialized = 0 THEN u
            ELSE [u EXCEPT !.wire = u.wire \o SubSeq(t, 1, ready)]
    BY ONLY <1>2, <2>2, t \in Seq(Char), UartIs
  <2>4. QED  BY <1>3, <2>1, <2>3
<1>8. SubSeq(t, 1, ready) \in Seq(Char)
  <2>1. 1 \in Int /\ ready \in Int /\ \A i \in 1 .. ready : t[i] \in Char
    BY <1>2
  <2>2. QED  BY ONLY <2>1, SubSeqProperties
<1>9. uart.wire \o SubSeq(t, 1, ready) \in Seq(Char)
  BY <1>2, <1>8, ConcatProperties
<1>10. /\ uart' \in UartState
       /\ uart'.dlab = uart.dlab /\ uart'.dll = uart.dll /\ uart'.dlm = uart.dlm
  BY <1>1, <1>7, <1>9 DEF UartState
<1>11. uart'.wire = reported'
  <2>1. CASE serial.initialized = 0
    <3>1. sent = 0 /\ Cut(t, sent) = <<>>
      <4>1. sent = 0
        BY <1>5, <2>1
      <4>2. Cut(t, 0) = SubSeq(t, 1, 0)
        BY <1>2 DEF Cut
      <4>3. SubSeq(t, 1, 0) = <<>>
        BY SubSeqEmpty
      <4>4. QED  BY <4>1, <4>2, <4>3
    <3>2. reported' = reported \o <<>>
      <4>1. serial.initialized # 1
        BY <2>1
      <4>2. QED  BY <1>6, <3>1, <4>1
    <3>3. reported \o <<>> = reported
      BY <1>1, <1>2, ConcatEmptySeq
    <3>4. QED  BY <1>1, <1>7, <2>1, <3>2, <3>3
  <2>2. CASE serial.initialized = 1
    <3>1. sent = ready
      BY <1>5, <2>2
    <3>2. uart'.wire = uart.wire \o SubSeq(t, 1, ready)
      <4>1. uart' = [uart EXCEPT !.wire = uart.wire \o SubSeq(t, 1, ready)]
        BY <1>7, <2>2
      <4>2. QED  BY <1>1, <4>1 DEF UartState
    <3>3. CASE sent = Len(t)
      <4>1. SubSeq(t, 1, ready) = t
        BY <3>1, <3>3
      <4>2. reported' = reported \o t
        BY <1>6, <2>2, <3>3
      <4>3. QED  BY <1>1, <3>2, <4>1, <4>2
    <3>4. CASE sent # Len(t)
      <4>1. reported' = reported \o Cut(t, ready)
        BY <1>6, <3>1, <3>4
      <4>2. Cut(t, ready) = SubSeq(t, 1, ready)
        BY <1>2 DEF Cut
      <4>3. QED  BY <1>1, <3>2, <4>1, <4>2
    <3>5. QED  BY <3>3, <3>4
  <2>3. QED  BY <1>2, <2>1, <2>2
<1>12. \/ serial' = serial /\ (unsent' => unsent)
       \/ /\ serial' = [serial EXCEPT !.failed = 1, !.error_code = 1,
                                      !.timeout_count = serial.timeout_count + 1]
  <2>1. CASE ready < Len(t)
    BY <1>2, <1>3, <2>1 DEF SerialAfter, SERIAL_ERROR_TIMEOUT
  <2>2. CASE ~(ready < Len(t))
    BY <1>3, <2>2 DEF SerialAfter
  <2>3. QED  BY <2>1, <2>2
<1>13. serial' \in SerialState /\ serial'.initialized = serial.initialized
       /\ (unsent' => serial'.failed = 1)
  <2>1. CASE serial' = serial /\ (unsent' => unsent)
    BY <1>1, <2>1
  <2>2. CASE serial' = [serial EXCEPT !.failed = 1, !.error_code = 1,
                                      !.timeout_count = serial.timeout_count + 1]
    <3>1. serial.timeout_count + 1 \in Nat
      BY <1>2
    <3>2. QED  BY <1>1, <2>2, <3>1 DEF SerialState
  <2>3. QED  BY <1>12, <2>1, <2>2
<1>14. QED  BY <1>10, <1>11, <1>13 DEF Wired

(* The same of a section that writes, of the main line or of a handler.     *)
LEMMA SectionWritten ==
    ASSUME Wired, serial.initialized = 1 => ~uart.dlab, NEW section, NEW t \in Seq(Char),
           \/ section = <<"serial", t, t>>
           \/ \E level \in 0 .. 4 : section = <<"log", level, t, t>>,
           NEW ready \in 0 .. Len(TextOf(section)), Write(section, ready)
    PROVE  /\ Wired'
           /\ serial'.initialized = serial.initialized
           /\ uart'.dlab = uart.dlab /\ uart'.dll = uart.dll /\ uart'.dlm = uart.dlm
<1>1. CASE section = <<"serial", t, t>>
  <2>1. section[1] = "serial" /\ section[2] = t /\ section[3] = t
    BY <1>1
  <2>2. SerialWrite(t, t, ready) /\ ready \in 0 .. Len(t)
    BY <2>1 DEF Write, TextOf
  <2>3. QED  BY <2>2, WriteStep
<1>2. ASSUME NEW level \in 0 .. 4, section = <<"log", level, t, t>>
      PROVE  /\ Wired'
             /\ serial'.initialized = serial.initialized
             /\ uart'.dlab = uart.dlab /\ uart'.dll = uart.dll /\ uart'.dlm = uart.dlm
  <2>1. section[1] = "log" /\ section[3] = t /\ section[4] = t
    BY <1>2
  <2>2. LogWrite(section, ready) /\ ready \in 0 .. Len(t)
    BY <2>1 DEF Write, TextOf
  <2>3. CASE SerialWrite(section[3], section[4], ready)
    <3>1. SerialWrite(t, t, ready)
      BY <2>1, <2>3
    <3>2. QED  BY <2>2, <3>1, WriteStep
  <2>4. CASE UNCHANGED <<devices, reported, unsent, timeouts, page>>
    BY <2>4 DEF devices, Wired
  <2>5. QED  BY <2>2, <2>3, <2>4 DEF LogWrite
<1>3. QED  BY <1>1, <1>2

(* What is left of a sequence of stores.                                    *)
LEMMA Remaining ==
    ASSUME NEW S, NEW s \in Seq(S), NEW k \in 1 .. Len(s), NEW rest \in Seq(S),
           NEW u, u = From(s, k, rest)
    PROVE  /\ u # <<>> /\ Head(u) = s[k]
           /\ Tail(u) = From(s, k + 1, rest)
           /\ Len(s) - k + 1 \in DOMAIN u /\ u[Len(s) - k + 1] = s[Len(s)]
<1>1. PICK n \in Nat : n = Len(s) /\ \A i \in 1 .. n : s[i] \in S
  OBVIOUS
<1>2. PICK a, b : a = SubSeq(s, k, n) /\ b = SubSeq(s, k + 1, n)
  OBVIOUS
<1>3. a \in Seq(S) /\ Len(a) = n - k + 1 /\ \A i \in 1 .. n - k + 1 : a[i] = s[k + i - 1]
  <2>1. k \in Int /\ n \in Int /\ k <= n /\ \A i \in k .. n : s[i] \in S
    BY <1>1
  <2>2. /\ a \in Seq(S) /\ Len(a) = IF k <= n THEN n - k + 1 ELSE 0
        /\ \A i \in 1 .. n - k + 1 : a[i] = s[k + i - 1]
    BY ONLY <1>2, <2>1, SubSeqProperties
  <2>3. QED  BY <2>1, <2>2
<1>4. b \in Seq(S) /\ Len(b) = n - k /\ \A i \in 1 .. n - k : b[i] = s[k + i]
  <2>1. k + 1 \in Int /\ n \in Int /\ k <= n /\ \A i \in k + 1 .. n : s[i] \in S
    BY <1>1
  <2>2. /\ b \in Seq(S) /\ Len(b) = IF k + 1 <= n THEN n - (k + 1) + 1 ELSE 0
        /\ \A i \in 1 .. n - (k + 1) + 1 : b[i] = s[(k + 1) + i - 1]
    BY ONLY <1>2, <2>1, SubSeqProperties
  <2>3. \A i \in 1 .. n - k : i \in 1 .. n - (k + 1) + 1 /\ (k + 1) + i - 1 = k + i
    BY <1>1
  <2>4. QED  BY <1>1, <2>1, <2>2, <2>3
<1>5. PICK m \in Nat : m = Len(rest)
  OBVIOUS
<1>6. /\ u \in Seq(S) /\ Len(u) = (n - k + 1) + m
      /\ \A i \in 1 .. (n - k + 1) + m : u[i] = IF i <= n - k + 1 THEN a[i] ELSE rest[i - (n - k + 1)]
  <2>1. a \in Seq(S) /\ rest \in Seq(S) /\ u = a \o rest
    BY <1>1, <1>2, <1>3 DEF From
  <2>2. /\ u \in Seq(S) /\ Len(u) = Len(a) + Len(rest)
        /\ \A i \in 1 .. Len(a) + Len(rest) : u[i] = IF i <= Len(a) THEN a[i] ELSE rest[i - Len(a)]
    BY ONLY <2>1, ConcatProperties
  <2>3. QED  BY <1>3, <1>5, <2>2
<1>7. PICK v : v = b \o rest
  OBVIOUS
<1>8. /\ v \in Seq(S) /\ Len(v) = (n - k) + m
      /\ \A i \in 1 .. (n - k) + m : v[i] = IF i <= n - k THEN b[i] ELSE rest[i - (n - k)]
  <2>1. b \in Seq(S) /\ rest \in Seq(S)
    BY <1>4
  <2>2. /\ v \in Seq(S) /\ Len(v) = Len(b) + Len(rest)
        /\ \A i \in 1 .. Len(b) + Len(rest) : v[i] = IF i <= Len(b) THEN b[i] ELSE rest[i - Len(b)]
    BY ONLY <1>7, <2>1, ConcatProperties
  <2>3. QED  BY <1>4, <1>5, <2>2
<1>9. PICK d \in Nat : d = n - k /\ n \in Nat /\ k \in 1 .. n
  <2>1. k \in 1 .. n /\ n \in Nat
    BY <1>1
  <2>2. n - k \in Nat
    BY ONLY <2>1
  <2>3. QED  BY <2>1, <2>2
<1>10. u # <<>> /\ Head(u) = u[1] /\ u[1] = s[k]
  <2>1. Len(u) >= 1 /\ 1 \in 1 .. (n - k + 1) + m /\ 1 <= n - k + 1 /\ 1 \in 1 .. n - k + 1
    BY <1>5, <1>6, <1>9
  <2>2. u[1] = a[1] /\ a[1] = s[k + 1 - 1] /\ k + 1 - 1 = k
    BY <1>3, <1>6, <2>1
  <2>3. u # <<>>
    <3>1. ASSUME u = <<>> PROVE FALSE
      <4>1. Len(u) = 0
        BY <3>1
      <4>2. QED  BY <2>1, <4>1
    <3>2. QED  BY <3>1
  <2>4. QED  BY <2>2, <2>3
<1>11. Tail(u) = v
  <2>1. PICK t : t = Tail(u)
    OBVIOUS
  <2>2. /\ t \in Seq(S) /\ Len(t) = d + m
        /\ \A i \in 1 .. d + m : t[i] = u[i + 1]
    <3>1. /\ t \in Seq(S) /\ Len(t) = Len(u) - 1
          /\ \A i \in 1 .. Len(t) : t[i] = u[i + 1]
      BY <1>6, <1>10, <2>1, HeadTailProperties
    <3>2. Len(u) - 1 = d + m
      BY <1>5, <1>6, <1>9
    <3>3. QED  BY <3>1, <3>2
  <2>3. ASSUME NEW i \in 1 .. d + m PROVE t[i] = v[i]
    <3>1. t[i] = u[i + 1] /\ i + 1 \in 1 .. (n - k + 1) + m /\ i \in 1 .. (n - k) + m
      <4>1. i \in 1 .. d + m /\ m \in Nat
        OBVIOUS
      <4>2. i + 1 \in 1 .. (n - k + 1) + m /\ i \in 1 .. (n - k) + m
        BY ONLY <1>9, <4>1
      <4>3. QED  BY <2>2, <4>2
    <3>2. CASE i <= d
      <4>1. i + 1 <= n - k + 1 /\ i + 1 \in 1 .. n - k + 1 /\ i <= n - k /\ i \in 1 .. n - k
        BY <1>9, <3>2
      <4>2. u[i + 1] = a[i + 1] /\ a[i + 1] = s[k + (i + 1) - 1] /\ k + (i + 1) - 1 = k + i
        BY <1>3, <1>6, <3>1, <4>1
      <4>3. v[i] = b[i] /\ b[i] = s[k + i]
        BY <1>4, <1>8, <3>1, <4>1
      <4>4. QED  BY <3>1, <4>2, <4>3
    <3>3. CASE ~(i <= d)
      <4>1. ~(i + 1 <= n - k + 1) /\ ~(i <= n - k) /\ (i + 1) - (n - k + 1) = i - (n - k)
        BY <1>9, <3>3
      <4>2. u[i + 1] = rest[(i + 1) - (n - k + 1)]
        BY <1>6, <3>1, <4>1
      <4>3. v[i] = rest[i - (n - k)]
        BY <1>8, <3>1, <4>1
      <4>4. QED  BY <3>1, <4>1, <4>2, <4>3
    <3>4. QED  BY <3>2, <3>3
  <2>4. t = v
    BY <1>8, <1>9, <2>2, <2>3
  <2>5. QED  BY <2>1, <2>4
<1>12. n - k + 1 \in DOMAIN u /\ u[n - k + 1] = s[n]
  <2>1. n - k + 1 \in 1 .. (n - k + 1) + m /\ n - k + 1 \in 1 .. n - k + 1 /\ k + (n - k + 1) - 1 = n
    BY <1>1, <1>5, <1>9
  <2>2. u[n - k + 1] = a[n - k + 1] /\ a[n - k + 1] = s[k + (n - k + 1) - 1]
    <3>1. u[n - k + 1] = a[n - k + 1]
      <4>1. n - k + 1 <= n - k + 1
        BY <1>9
      <4>2. QED  BY <1>6, <2>1, <4>1
    <3>2. a[n - k + 1] = s[k + (n - k + 1) - 1]
      BY <1>3, <2>1
    <3>3. QED  BY <3>1, <3>2
  <2>3. DOMAIN u = 1 .. (n - k + 1) + m
    BY <1>6
  <2>4. QED  BY <2>1, <2>2, <2>3
<1>13. QED  BY <1>1, <1>2, <1>7, <1>10, <1>11, <1>12 DEF From

(* What a sequence of nine holds.                                           *)
LEMMA OfNine ==
    ASSUME NEW a, NEW b, NEW c, NEW d, NEW e, NEW f, NEW g, NEW h, NEW i, NEW s,
           s = <<a, b, c, d, e, f, g, h, i>>
    PROVE  /\ \E S : s \in Seq(S)
           /\ Len(s) = 9
           /\ s[1] = a /\ s[2] = b /\ s[3] = c /\ s[4] = d /\ s[5] = e /\ s[6] = f /\ s[7] = g
           /\ s[8] = h /\ s[9] = i
<1>1. DOMAIN s = 1 .. 9 /\ Len(s) = 9
  OBVIOUS
<1>2. s[1] = a /\ s[2] = b /\ s[3] = c /\ s[4] = d /\ s[5] = e
  OBVIOUS
<1>3. s[6] = f /\ s[7] = g /\ s[8] = h /\ s[9] = i
  OBVIOUS
<1>4. s \in Seq({s[n] : n \in 1 .. 9})
  <2>1. s \in [1 .. 9 -> {s[n] : n \in 1 .. 9}]
    BY <1>1
  <2>2. QED  BY <2>1
<1>5. QED  BY <1>1, <1>2, <1>3, <1>4, Zenon

(* The stores of an initialisation, in their order.                         *)
NineStores(s, port, divisor) ==
    /\ \E S : s \in Seq(S)
    /\ Len(s) = 9
    /\ s[1] = <<"set", "failed", 0>> /\ s[2] = <<"set", "error_code", 0>>
    /\ s[3] = <<"set", "timeout_count", 0>> /\ s[4] = <<"set", "port", port>>
    /\ s[5] = <<"out", "dlab", TRUE>>
    /\ s[6] = <<"out", "dll", divisor % 256>>
    /\ s[7] = <<"out", "dlm", (divisor \div 256) % 256>>
    /\ s[8] = <<"out", "dlab", FALSE>>
    /\ s[9] = <<"set", "initialized", 1>>

(* They are what the driver stores.                                         *)
LEMMA StoresAre ==
    ASSUME NEW port, NEW baud
    PROVE  NineStores(InitStores(port, baud), port, Divisor(baud))
<1> DEFINE s == InitStores(port, baud)
<1>1. s = << <<"set", "failed", 0>>, <<"set", "error_code", 0>>, <<"set", "timeout_count", 0>>,
             <<"set", "port", port>>, <<"out", "dlab", TRUE>>, <<"out", "dll", Divisor(baud) % 256>>,
             <<"out", "dlm", (Divisor(baud) \div 256) % 256>>, <<"out", "dlab", FALSE>>,
             <<"set", "initialized", 1>> >>
  BY SMT DEF InitStores, Set, SERIAL_ERROR_NONE, Divisor, UartClock
<1> HIDE DEF s
<1>2. PICK a, b, c, d : /\ a = <<"set", "failed", 0>> /\ b = <<"set", "error_code", 0>>
                        /\ c = <<"set", "timeout_count", 0>> /\ d = <<"set", "port", port>>
  OBVIOUS
<1>3. PICK e, h, i : /\ e = <<"out", "dlab", TRUE>> /\ h = <<"out", "dlab", FALSE>>
                     /\ i = <<"set", "initialized", 1>>
  BY Zenon
<1>4. PICK f, g : /\ f = <<"out", "dll", Divisor(baud) % 256>>
                  /\ g = <<"out", "dlm", (Divisor(baud) \div 256) % 256>>
  BY Zenon
<1>5. s = <<a, b, c, d, e, f, g, h, i>>
  BY ONLY <1>1, <1>2, <1>3, <1>4, Zenon
<1>6. /\ \E S : s \in Seq(S)
      /\ Len(s) = 9
      /\ s[1] = a /\ s[2] = b /\ s[3] = c /\ s[4] = d /\ s[5] = e /\ s[6] = f /\ s[7] = g
      /\ s[8] = h /\ s[9] = i
  BY ONLY <1>5, OfNine
<1>7. NineStores(s, port, Divisor(baud))
  BY ONLY <1>2, <1>3, <1>4, <1>6, Zenon DEF NineStores
<1>8. QED  BY <1>7, Zenon DEF s

(* Each is a store.                                                         *)
LEMMA StoreKinds ==
    ASSUME NEW s, NEW port, NEW divisor, NineStores(s, port, divisor), NEW k \in 1 .. 9
    PROVE  s[k][1] \in {"set", "out"}
<1>1. /\ s[1] = <<"set", "failed", 0>> /\ s[2] = <<"set", "error_code", 0>>
      /\ s[3] = <<"set", "timeout_count", 0>> /\ s[4] = <<"set", "port", port>>
      /\ s[6] = <<"out", "dll", divisor % 256>>
      /\ s[7] = <<"out", "dlm", (divisor \div 256) % 256>>
      /\ s[9] = <<"set", "initialized", 1>>
  BY Zenon DEF NineStores
<1>2. /\ s[1][1] = "set" /\ s[2][1] = "set" /\ s[3][1] = "set" /\ s[4][1] = "set"
      /\ s[6][1] = "out" /\ s[7][1] = "out" /\ s[9][1] = "set"
  BY ONLY <1>1
<1>3. PICK x, y : x = s[5] /\ y = s[8]
  OBVIOUS
<1>4. x = <<"out", "dlab", TRUE>> /\ y = <<"out", "dlab", FALSE>>
  BY <1>3, Zenon DEF NineStores
<1>5. x[1] = "out" /\ y[1] = "out"
  BY ONLY <1>4, Zenon
<1>6. s[5][1] = "out" /\ s[8][1] = "out"
  BY ONLY <1>3, <1>5, Zenon
<1>7. \/ k = 1 \/ k = 2 \/ k = 3 \/ k = 4 \/ k = 5 \/ k = 6 \/ k = 7 \/ k = 8 \/ k = 9
  OBVIOUS
<1>8. QED  BY ONLY <1>2, <1>6, <1>7

(* While the port is programmed, the next section is the next store.        *)
LEMMA ProgramIs ==
    ASSUME NEW port \in {"COM1", "COM2"}, NEW baud, NEW k \in 1 .. 9, NEW rest, Closed(rest),
           todo = From(InitStores(port, baud), k, rest)
    PROVE  /\ todo # <<>> /\ Initialising
           /\ Head(todo) = InitStores(port, baud)[k] /\ Head(todo)[1] \in {"set", "out"}
           /\ Tail(todo) = From(InitStores(port, baud), k + 1, rest)
           /\ k = 9 => Tail(todo) = rest
<1>1. PICK s : s = InitStores(port, baud)
  OBVIOUS
<1>a. NineStores(s, port, Divisor(baud))
  BY <1>1, StoresAre, Zenon
<1>2. PICK S : s \in Seq(S)
  BY <1>a, Zenon DEF NineStores
<1>3. Len(s) = 9 /\ s[9] = <<"set", "initialized", 1>>
  BY <1>a, Zenon DEF NineStores
<1>4. PICK T : T = S \union Section
  OBVIOUS
<1>5. s \in Seq(T) /\ rest \in Seq(T) /\ rest \in Seq(Section)
  <2>1. S \subseteq T /\ Section \subseteq T /\ rest \in Seq(Section)
    BY <1>4 DEF Closed
  <2>2. s \in Seq(T)
    BY <1>2, <2>1, SeqGrows
  <2>3. rest \in Seq(T)
    BY <2>1, SeqGrows
  <2>4. QED  BY <2>1, <2>2, <2>3
<1>6. PICK u : u = todo
  OBVIOUS
<1>7. u = From(s, k, rest)
  BY <1>1, <1>3, <1>6
<1>b. k \in 1 .. Len(s)
  BY <1>3
<1>8. /\ u # <<>> /\ Head(u) = s[k]
      /\ Tail(u) = From(s, k + 1, rest)
      /\ Len(s) - k + 1 \in DOMAIN u /\ u[Len(s) - k + 1] = s[Len(s)]
  BY ONLY <1>5, <1>7, <1>b, Remaining
<1>9. Initialising
  <2>1. 9 - k + 1 \in DOMAIN todo /\ todo[9 - k + 1] = Set("initialized", 1)
    <3>1. 9 - k + 1 \in DOMAIN u /\ u[9 - k + 1] = s[9]
      BY ONLY <1>3, <1>8, Zenon
    <3>2. QED  BY ONLY <1>3, <1>6, <3>1, Zenon DEF Set
  <2>2. QED  BY <2>1 DEF Initialising
<1>10. s[k][1] \in {"set", "out"}
  BY <1>a, StoreKinds, Zenon
<1>11. ASSUME k = 9 PROVE Tail(todo) = rest
  <2>1. SubSeq(s, 10, 9) = <<>>
    BY SubSeqEmpty
  <2>2. Tail(u) = <<>> \o rest
    <3>1. k + 1 = 10
      BY <1>11
    <3>2. QED  BY ONLY <1>3, <1>8, <2>1, <3>1, Zenon DEF From
  <2>3. QED  BY <1>5, <1>6, <2>2, ConcatEmptySeq
<1>12. QED  BY <1>1, <1>3, <1>6, <1>8, <1>9, <1>10, <1>11

(* A quotient.                                                              *)
LEMMA SmallQuotient ==
    ASSUME NEW d \in Nat, NEW b \in Nat, NEW least \in Nat, NEW word \in Nat, b >= least,
           d < word * least, b > 0, NEW n, n = d \div b
    PROVE  n \in Nat /\ n < word
<1>1. d \div b \in Nat /\ d % b \in Nat /\ d = b * (d \div b) + (d % b)
  OBVIOUS
<1>2. PICK r \in Nat : r = d % b
  BY <1>1
<1>3. n \in Nat /\ d = b * n + r
  BY <1>1, <1>2
<1>4. ASSUME n >= word PROVE FALSE
  <2>1. PICK m \in Nat, e \in Nat : n = word + m /\ b = least + e
    <3>1. n - word \in Nat /\ b - least \in Nat
      BY <1>3, <1>4
    <3>2. n = word + (n - word) /\ b = least + (b - least)
      BY <1>3
    <3>3. QED  BY <3>1, <3>2
  <2>2. b * n = word * least + (least * m + e * word + e * m)
    BY <2>1
  <2>3. least * m + e * word + e * m \in Nat
    BY <2>1
  <2>4. QED  BY <1>3, <2>2, <2>3
<1>5. QED  BY <1>3, <1>4

(* What the halves of the divisor hold is all of it.                        *)
LEMMA DivisorFits ==
    ASSUME NEW baud \in Rates, NEW q, q = Divisor(baud)
    PROVE  /\ q \in Nat /\ q % 256 \in Nat /\ (q \div 256) % 256 \in Nat
           /\ (q % 256) + 256 * ((q \div 256) % 256) = q
<1>1. \E c, word, least : /\ c \in Nat /\ word \in Nat /\ least \in Nat /\ c < word * least
                          /\ c = 115200 /\ word = 65536 /\ least = 110
  BY SMT
<1>2. PICK c, word, least : /\ c \in Nat /\ word \in Nat /\ least \in Nat /\ c < word * least
                            /\ c = 115200 /\ word = 65536 /\ least = 110
  BY ONLY <1>1, SMT
<1>3. baud \in Nat /\ baud >= least /\ baud > 0
  <2>1. baud \in 110 .. UartClock
    BY ONLY baud \in Rates, Zenon DEF Rates
  <2>2. UartClock = c
    BY ONLY <1>2, SMT DEF UartClock
  <2>3. least = 110
    BY ONLY <1>2, SMT
  <2>4. least \in Nat /\ least > 0 /\ c \in Nat
    BY ONLY <1>2, SMT
  <2>5. baud \in least .. c
    BY ONLY <2>1, <2>2, <2>3, Zenon
  <2>6. QED  BY ONLY <2>4, <2>5, SMT
<1>4. q = c \div baud
  <2>1. Divisor(baud) = c \div baud
    BY ONLY <1>2, SMT DEF Divisor, UartClock
  <2>2. QED  BY <2>1, SMT
<1>5. c \in Nat /\ word \in Nat /\ least \in Nat /\ c < word * least
  BY ONLY <1>2, SMT
<1>6. q \in Nat /\ q < word
  BY ONLY <1>3, <1>4, <1>5, SmallQuotient, Zenon
<1>7. q \in Nat /\ q < 65536
  BY ONLY <1>2, <1>6, SMT
<1>8. q \div 256 \in Int /\ q % 256 \in 0 .. 255 /\ q = 256 * (q \div 256) + (q % 256)
  BY ONLY <1>7, SMT
<1>9. PICK h, l : h = q \div 256 /\ l = q % 256
  BY ONLY Zenon
<1>10. h \in Int /\ l \in 0 .. 255 /\ q = 256 * h + l
  BY ONLY <1>8, <1>9, SMT
<1>11. h \in 0 .. 255
  BY ONLY <1>7, <1>10, SMT
<1>12. h % 256 = h
  BY ONLY <1>11, SMT
<1>13. QED  BY ONLY <1>7, <1>9, <1>10, <1>11, <1>12, SMT

(* Storing to the driver's state or to the UART.                            *)
LEMMA SetIs ==
    ASSUME StoreSection, NEW field, NEW value, Head(todo) = <<"set", field, value>>
    PROVE  /\ serial' = [serial EXCEPT ![field] = value] /\ uart' = uart
           /\ unsent' = (unsent /\ <<"set", field, value>> # Set("failed", 0))
           /\ todo' = Tail(todo) /\ reported' = reported /\ rate' = rate /\ handlers' = handlers
<1>1. Head(todo)[1] = "set" /\ Head(todo)[2] = field /\ Head(todo)[3] = value
  OBVIOUS
<1>2. QED  BY <1>1 DEF StoreSection, Done

(* The same of a register of the UART.                                      *)
LEMMA OutIs ==
    ASSUME StoreSection, NEW field, NEW value, Head(todo) = <<"out", field, value>>
    PROVE  /\ uart' = [uart EXCEPT ![field] = value] /\ serial' = serial
           /\ (unsent' => unsent)
           /\ todo' = Tail(todo) /\ reported' = reported /\ rate' = rate /\ handlers' = handlers
<1>1. Head(todo)[1] = "out" /\ Head(todo)[2] = field /\ Head(todo)[3] = value
  OBVIOUS
<1>2. QED  BY <1>1 DEF StoreSection, Done

(* A store to the driver's state but to initialized.                        *)
LEMMA SetKept ==
    ASSUME Wired, StoreSection, NEW x \in Setting, Head(todo) = x
    PROVE  /\ Wired' /\ serial'.initialized = serial.initialized /\ uart' = uart
           /\ todo' = Tail(todo) /\ rate' = rate /\ handlers' = handlers
<1>1. PICK s : s = serial
  OBVIOUS
<1>2. s \in SerialState
  BY <1>1 DEF Wired
<1>3. ASSUME NEW field, NEW value, x = <<"set", field, value>>,
             [s EXCEPT ![field] = value] \in SerialState,
             [s EXCEPT ![field] = value].initialized = s.initialized,
             x # Set("failed", 0) => [s EXCEPT ![field] = value].failed = s.failed
                                     \/ [s EXCEPT ![field] = value].failed = 1
      PROVE  /\ Wired' /\ serial'.initialized = serial.initialized /\ uart' = uart
             /\ todo' = Tail(todo) /\ rate' = rate /\ handlers' = handlers
  <2>1. /\ serial' = [s EXCEPT ![field] = value] /\ uart' = uart
        /\ unsent' = (unsent /\ x # Set("failed", 0))
        /\ todo' = Tail(todo) /\ reported' = reported /\ rate' = rate /\ handlers' = handlers
    BY <1>1, <1>3, SetIs
  <2>2. unsent' => serial'.failed = 1
    BY <1>1, <1>3, <2>1 DEF Wired
  <2>3. QED  BY <1>1, <1>3, <2>1, <2>2 DEF Wired
<1>4. \/ \E n \in {0, 1} : x = <<"set", "failed", n>>
      \/ \E field \in {"error_code", "timeout_count"}, n \in Nat : x = <<"set", field, n>>
      \/ \E port \in {"COM1", "COM2"} : x = <<"set", "port", port>>
  BY DEF Setting
<1>5. ASSUME NEW n \in {0, 1}
      PROVE  /\ [s EXCEPT !["failed"] = n] \in SerialState
             /\ [s EXCEPT !["failed"] = n].initialized = s.initialized
             /\ [s EXCEPT !["failed"] = n].failed = n
  BY <1>2 DEF SerialState
<1>6. ASSUME NEW field \in {"error_code", "timeout_count"}, NEW n \in Nat
      PROVE  /\ [s EXCEPT ![field] = n] \in SerialState
             /\ [s EXCEPT ![field] = n].initialized = s.initialized
             /\ [s EXCEPT ![field] = n].failed = s.failed
  BY <1>2 DEF SerialState
<1>7. ASSUME NEW port \in {"COM1", "COM2"}
      PROVE  /\ [s EXCEPT !["port"] = port] \in SerialState
             /\ [s EXCEPT !["port"] = port].initialized = s.initialized
             /\ [s EXCEPT !["port"] = port].failed = s.failed
  BY <1>2 DEF SerialState
<1>8. CASE \E n \in {0, 1} : x = <<"set", "failed", n>>
  <2>1. PICK n \in {0, 1} : x = <<"set", "failed", n>>
    BY <1>8
  <2>2. x # Set("failed", 0) => n = 1
    BY <2>1 DEF Set
  <2>3. QED  BY <1>3, <1>5, <2>1, <2>2
<1>9. CASE \E field \in {"error_code", "timeout_count"}, n \in Nat : x = <<"set", field, n>>
  BY <1>3, <1>6, <1>9
<1>10. CASE \E port \in {"COM1", "COM2"} : x = <<"set", "port", port>>
  BY <1>3, <1>7, <1>10
<1>11. QED  BY <1>4, <1>8, <1>9, <1>10

-----------------------------------------------------------------------------
(* Every step keeps the wire as it should be.                               *)

(* What runs next, if it is neither a store nor an initialisation nor about *)
(* handlers: then the port is not being programmed.                         *)
LEMMA NextIsIdle ==
    ASSUME WireInv, todo # <<>>, Head(todo)[1] \notin {"set", "out", "serial_init", "handlers"}
    PROVE  Wired /\ Ready /\ Head(todo) \in Section /\ Closed(Tail(todo))
<1>1. Wired
  BY DEF WireInv
<1>2. ASSUME Leading PROVE FALSE
  <2>1. Head(todo)[1] = "serial_init"
    BY <1>2 DEF Leading, Inits
  <2>2. QED  BY <2>1
<1>3. ASSUME Programming PROVE FALSE
  <2>1. PICK port \in {"COM1", "COM2"}, baud \in Rates, k \in 1 .. 9, rest \in Seq(Section) :
            Closed(rest) /\ ProgramAt(port, baud, k, rest)
    BY <1>3 DEF Programming
  <2>2. todo = From(InitStores(port, baud), k, rest) /\ Closed(rest)
    BY <2>1 DEF ProgramAt
  <2>3. Head(todo)[1] \in {"set", "out"}
    BY ONLY <2>2, port \in {"COM1", "COM2"}, k \in 1 .. 9, ProgramIs
  <2>4. QED  BY <2>3
<1>4. Idle
  BY <1>2, <1>3 DEF WireInv
<1>5. Ready /\ Closed(todo)
  BY <1>4 DEF Idle
<1>6. /\ Head(todo) \in Section
      /\ Closed(Tail(todo)) \/ Head(todo) \in Guards
  BY <1>5, ClosedRest
<1>7. Head(todo) \notin Guards
  BY <1>6, KindsApart
<1>8. QED  BY <1>1, <1>5, <1>6, <1>7

(* The port and what has been reported stay as they are.                    *)
LEMMA SamePort ==
    ASSUME Wired, UNCHANGED <<serial, uart, reported, unsent, rate>>
    PROVE  Wired' /\ (Ready => Ready')
  BY DEF Wired, Ready

(* A write leaves the divisor alone.                                        *)
LEMMA WrittenReady ==
    ASSUME Ready, serial'.initialized = serial.initialized, rate' = rate,
           uart'.dlab = uart.dlab /\ uart'.dll = uart.dll /\ uart'.dlm = uart.dlm
    PROVE  Ready'
  BY DEF Ready

(* The main line writes.                                                    *)
LEMMA WriteKeepsWire == WireInv /\ WriteSection => WireInv'
<1>1. SUFFICES ASSUME WireInv, WriteSection PROVE WireInv'
  OBVIOUS
<1>2. /\ todo # <<>> /\ Head(todo)[1] \in {"serial", "log"} /\ todo' = Tail(todo) /\ rate' = rate
      /\ \E ready \in 0 .. Len(TextOf(Head(todo))) : Write(Head(todo), ready)
  BY <1>1 DEF WriteSection, Doing, Done
<1>3. Wired /\ Ready /\ Head(todo) \in Section /\ Closed(Tail(todo))
  BY <1>1, <1>2, NextIsIdle
<1>4. PICK x : x = Head(todo)
  OBVIOUS
<1>5. PICK t \in Seq(Char) : \/ x = <<"serial", t, t>>
                             \/ \E level \in 0 .. 4 : x = <<"log", level, t, t>>
  BY <1>2, <1>3, <1>4, KindsApart
<1>6. PICK ready \in 0 .. Len(TextOf(x)) : Write(x, ready)
  BY <1>2, <1>4
<1>7. serial.initialized = 1 => ~uart.dlab
  BY <1>3 DEF Ready
<1>8. /\ Wired'
      /\ serial'.initialized = serial.initialized
      /\ uart'.dlab = uart.dlab /\ uart'.dll = uart.dll /\ uart'.dlm = uart.dlm
  BY <1>3, <1>5, <1>6, <1>7, SectionWritten
<1>9. Ready'
  BY <1>2, <1>3, <1>8, WrittenReady
<1>10. QED  BY <1>2, <1>3, <1>8, <1>9 DEF WireInv, Idle

(* What is behind stays closed when the next section is done.               *)
LEMMA IdleStep ==
    ASSUME WireInv, todo # <<>>, Head(todo)[1] \notin {"set", "out", "serial_init", "handlers"},
           UNCHANGED <<serial, uart, reported, unsent, rate>>,
           NEW s, Closed(s), todo' = s \o Tail(todo)
    PROVE  WireInv'
<1>1. Wired /\ Ready /\ Closed(Tail(todo))
  BY NextIsIdle
<1>2. Wired' /\ Ready'
  BY <1>1, SamePort
<1>3. Closed(s \o Tail(todo))
  BY <1>1, ClosedThen
<1>4. QED  BY <1>2, <1>3 DEF WireInv, Idle

(* The same of a section that leaves nothing more to do.                    *)
LEMMA IdleDone ==
    ASSUME WireInv, todo # <<>>, Head(todo)[1] \notin {"set", "out", "serial_init", "handlers"},
           UNCHANGED <<serial, uart, reported, unsent, rate>>, todo' = Tail(todo)
    PROVE  WireInv'
<1>1. Wired /\ Ready /\ Closed(Tail(todo))
  BY NextIsIdle
<1>2. Wired' /\ Ready'
  BY <1>1, SamePort
<1>3. QED  BY <1>1, <1>2 DEF WireInv, Idle

(* The main line uses the screen, the log or the pool.                      *)
LEMMA ScreenKeepsWire == WireInv /\ ScreenSection => WireInv'
<1>1. SUFFICES ASSUME WireInv, ScreenSection PROVE WireInv'
  OBVIOUS
<1>2. /\ todo # <<>> /\ Head(todo)[1] \in ScreenSections /\ todo' = Tail(todo)
      /\ UNCHANGED <<serial, uart, reported, unsent, rate>>
  BY <1>1 DEF ScreenSection, Doing, Done
<1>3. Head(todo)[1] \notin {"set", "out", "serial_init", "handlers"}
  BY <1>2 DEF ScreenSections
<1>4. QED  BY <1>1, <1>2, <1>3, IdleDone

(* It sets up the pool.                                                     *)
LEMMA PoolKeepsWire == WireInv /\ PoolSection => WireInv'
<1>1. SUFFICES ASSUME WireInv, PoolSection PROVE WireInv'
  OBVIOUS
<1>2. /\ todo # <<>> /\ Head(todo)[1] = "early_alloc_init" /\ todo' = Tail(todo)
      /\ UNCHANGED <<serial, uart, reported, unsent, rate>>
  BY <1>1 DEF PoolSection, Doing, Done, devices, history
<1>3. Head(todo)[1] \notin {"set", "out", "serial_init", "handlers"}
  BY <1>2
<1>4. QED  BY <1>1, <1>2, <1>3, IdleDone

(* It sets up the log, and then logs, or sets its level.                    *)
LEMMA LogKeepsWire == WireInv /\ LogSection => WireInv'
<1>1. SUFFICES ASSUME WireInv, LogSection PROVE WireInv'
  OBVIOUS
<1>2. /\ todo # <<>> /\ Head(todo)[1] \in {"log_init", "log_set_level"}
      /\ todo' = Tail(todo) \/ todo' = LOG_INFO(Message("l")) \o Tail(todo)
      /\ UNCHANGED <<serial, uart, reported, unsent, rate>>
  BY <1>1 DEF LogSection, Doing, Done, devices, history
<1>3. Head(todo)[1] \notin {"set", "out", "serial_init", "handlers"}
  BY <1>2
<1>4. Closed(LOG_INFO(Message("l")))
  <2>1. "l" \in Char
    BY DEF Char
  <2>2. QED  BY <2>1, FormatsSayable, LogClosed
<1>5. CASE todo' = Tail(todo)
  BY <1>1, <1>2, <1>3, <1>5, IdleDone
<1>6. CASE todo' = LOG_INFO(Message("l")) \o Tail(todo)
  BY <1>1, <1>2, <1>3, <1>4, <1>6, IdleStep
<1>7. QED  BY <1>2, <1>5, <1>6

(* A request of the early allocator, and what it reports.                   *)
LEMMA AllocKeepsWire == WireInv /\ pool.size \in Nat /\ AllocSection => WireInv'
<1>1. SUFFICES ASSUME WireInv, pool.size \in Nat, AllocSection PROVE WireInv'
  OBVIOUS
<1>2. /\ todo # <<>> /\ Head(todo)[1] = "early_alloc_align"
      /\ UNCHANGED <<serial, uart, reported, unsent, rate>>
  BY <1>1 DEF AllocSection, Doing, devices
<1>3. Head(todo)[1] \notin {"set", "out", "serial_init", "handlers"}
  BY <1>2
<1>4. PICK size : size = UsableSize(Head(todo)[2])
  OBVIOUS
<1>5. size \in Int
  <2>1. Head(todo) \in Section
    BY <1>1, <1>2, <1>3, NextIsIdle
  <2>2. Head(todo)[2] \in Nat
    BY <1>2, <2>1, KindsApart
  <2>3. QED  BY <1>4, <2>2 DEF UsableSize
<1>6. \/ todo' = <<>> \o Tail(todo)
      \/ todo' = (serial_write_dec(size) \o serial_write_dec(pool.size)) \o Tail(todo)
      \/ todo' = serial_write_dec(size) \o Tail(todo)
  <2>1. PICK s : s = CASE early_alloc_align(pool, Head(todo)[2], Head(todo)[3]).ptr # NULL
                              \/ ~pool.initialized -> <<>>
                       [] TooLarge(pool, size) -> serial_write_dec(size) \o serial_write_dec(pool.size)
                       [] OTHER -> serial_write_dec(size)
    OBVIOUS
  <2>2. todo' = s \o Tail(todo)
    BY <1>1, <1>4, <2>1 DEF AllocSection
  <2>3. \/ s = <<>> \/ s = serial_write_dec(size) \o serial_write_dec(pool.size)
        \/ s = serial_write_dec(size)
    BY <2>1
  <2>4. QED  BY <2>2, <2>3
<1>7. /\ Closed(<<>>) /\ Closed(serial_write_dec(size))
      /\ Closed(serial_write_dec(size) \o serial_write_dec(pool.size))
  <2>1. Closed(serial_write_dec(size)) /\ Closed(serial_write_dec(pool.size))
    <3>1. pool.size \in Int
      BY <1>1
    <3>2. QED  BY <1>5, <3>1, SerialClosed
  <2>2. QED  BY <2>1, ClosedThen, OrdinaryClosed
<1>8. QED  BY <1>1, <1>2, <1>3, <1>6, <1>7, IdleStep

(* While the port is being programmed, it is for writers closed.            *)
LEMMA ProgramNext ==
    ASSUME Programming
    PROVE  /\ Safe
           /\ \E port \in {"COM1", "COM2"}, baud \in Rates, k \in 1 .. 9, rest \in Seq(Section) :
                  /\ Closed(rest) /\ ProgramAt(port, baud, k, rest)
                  /\ todo # <<>> /\ Initialising
                  /\ Head(todo) = InitStores(port, baud)[k] /\ Head(todo)[1] \in {"set", "out"}
                  /\ Tail(todo) = From(InitStores(port, baud), k + 1, rest)
                  /\ k = 9 => Tail(todo) = rest
<1>1. Safe
  BY DEF Programming
<1>2. PICK port \in {"COM1", "COM2"}, baud \in Rates, k \in 1 .. 9, rest \in Seq(Section) :
          Closed(rest) /\ ProgramAt(port, baud, k, rest)
  BY DEF Programming
<1>3. todo = From(InitStores(port, baud), k, rest) /\ Closed(rest)
  BY <1>2 DEF ProgramAt
<1>4. /\ todo # <<>> /\ Initialising
      /\ Head(todo) = InitStores(port, baud)[k] /\ Head(todo)[1] \in {"set", "out"}
      /\ Tail(todo) = From(InitStores(port, baud), k + 1, rest)
      /\ k = 9 => Tail(todo) = rest
  BY ONLY <1>3, port \in {"COM1", "COM2"}, k \in 1 .. 9, ProgramIs
<1>5. QED  BY <1>1, <1>2, <1>4

(* One store further.                                                       *)
LEMMA ProgramStep ==
    ASSUME Safe', NEW port \in {"COM1", "COM2"}, NEW baud \in Rates, NEW k \in 1 .. 8, NEW rest,
           Closed(rest), todo' = From(InitStores(port, baud), k + 1, rest),
           rate' = Divisor(baud), k >= 6 => uart'.dll = rate' % 256,
           k >= 7 => uart'.dlm = (rate' \div 256) % 256, k = 8 => ~uart'.dlab
    PROVE  Programming'
<1>1. PICK j \in 1 .. 9 : j = k + 1
  OBVIOUS
<1>2. ProgramAt(port, baud, j, rest)'
  <2>1. (j >= 7 => k >= 6) /\ (j >= 8 => k >= 7) /\ (j = 9 => k = 8)
    BY ONLY <1>1, k \in 1 .. 8
  <2>2. todo' = From(InitStores(port, baud), j, rest)
    BY <1>1
  <2>3. /\ j >= 7 => uart'.dll = rate' % 256
        /\ j >= 8 => uart'.dlm = (rate' \div 256) % 256
        /\ j = 9 => ~uart'.dlab
    BY <2>1
  <2>4. QED  BY <2>2, <2>3, Zenon DEF ProgramAt
<1>3. rest \in Seq(Section)
  BY DEF Closed
<1>4. QED  BY <1>2, <1>3, Zenon DEF Programming

(* A store to a register of the UART.                                       *)
LEMMA OutKept ==
    ASSUME Wired, StoreSection, NEW field, NEW value, Head(todo) = <<"out", field, value>>,
           \/ field = "dlab" /\ value \in BOOLEAN
           \/ field \in {"dll", "dlm"} /\ value \in Nat
    PROVE  /\ Wired' /\ serial' = serial
           /\ uart'.dlab = (IF field = "dlab" THEN value ELSE uart.dlab)
           /\ uart'.dll = (IF field = "dll" THEN value ELSE uart.dll)
           /\ uart'.dlm = (IF field = "dlm" THEN value ELSE uart.dlm)
           /\ todo' = Tail(todo) /\ rate' = rate /\ handlers' = handlers
<1>1. /\ uart' = [uart EXCEPT ![field] = value] /\ serial' = serial
      /\ (unsent' => unsent)
      /\ todo' = Tail(todo) /\ reported' = reported /\ rate' = rate /\ handlers' = handlers
  BY OutIs
<1>2. PICK u : u = uart
  OBVIOUS
<1>3. u \in UartState /\ u.wire = reported /\ uart' = [u EXCEPT ![field] = value]
  BY <1>1, <1>2 DEF Wired
<1>4. /\ uart' \in UartState /\ uart'.wire = u.wire
      /\ uart'.dlab = (IF field = "dlab" THEN value ELSE u.dlab)
      /\ uart'.dll = (IF field = "dll" THEN value ELSE u.dll)
      /\ uart'.dlm = (IF field = "dlm" THEN value ELSE u.dlm)
  <2>1. CASE field = "dlab" /\ value \in BOOLEAN
    BY <1>3, <2>1 DEF UartState
  <2>2. CASE field = "dll" /\ value \in Nat
    BY <1>3, <2>2 DEF UartState
  <2>3. CASE field = "dlm" /\ value \in Nat
    BY <1>3, <2>3 DEF UartState
  <2>4. QED  BY <2>1, <2>2, <2>3
<1>5. Wired'
  BY <1>1, <1>2, <1>3, <1>4 DEF Wired
<1>6. QED  BY <1>1, <1>2, <1>4, <1>5

(* The stores of an initialisation, one by one.                             *)
LEMMA ProgramKeepsWire ==
    ASSUME Wired, Programming, StoreSection
    PROVE  WireInv'
<1>1. Safe
  BY ProgramNext
<1>2. PICK port \in {"COM1", "COM2"}, baud \in Rates, k \in 1 .. 9, rest \in Seq(Section) :
          /\ Closed(rest) /\ ProgramAt(port, baud, k, rest)
          /\ todo # <<>> /\ Initialising
          /\ Head(todo) = InitStores(port, baud)[k] /\ Head(todo)[1] \in {"set", "out"}
          /\ Tail(todo) = From(InitStores(port, baud), k + 1, rest)
          /\ k = 9 => Tail(todo) = rest
  BY ProgramNext
<1>3. PICK q, s : q = Divisor(baud) /\ s = InitStores(port, baud)
  OBVIOUS
<1>4. NineStores(s, port, q)
  BY <1>3, StoresAre, Zenon
<1>5. /\ q \in Nat /\ q % 256 \in Nat /\ (q \div 256) % 256 \in Nat
      /\ (q % 256) + 256 * ((q \div 256) % 256) = q
  BY ONLY <1>3, baud \in Rates, DivisorFits
<1>6. /\ rate = q
      /\ k >= 7 => uart.dll = rate % 256
      /\ k >= 8 => uart.dlm = (rate \div 256) % 256
      /\ k = 9 => ~uart.dlab
  BY <1>2, <1>3, Zenon DEF ProgramAt
<1>7. PICK x : x = s[k]
  OBVIOUS
<1>8. Head(todo) = x
  BY <1>2, <1>3, <1>7
<1>9. CASE k \in 1 .. 4
  <2>1. x \in Setting
    <3>1. /\ s[1] = <<"set", "failed", 0>> /\ s[2] = <<"set", "error_code", 0>>
          /\ s[3] = <<"set", "timeout_count", 0>> /\ s[4] = <<"set", "port", port>>
      BY <1>4, Zenon DEF NineStores
    <3>2. k = 1 \/ k = 2 \/ k = 3 \/ k = 4
      BY <1>9
    <3>3. /\ <<"set", "failed", 0>> \in Setting /\ <<"set", "error_code", 0>> \in Setting
          /\ <<"set", "timeout_count", 0>> \in Setting /\ <<"set", "port", port>> \in Setting
      BY ONLY port \in {"COM1", "COM2"}, SMT DEF Setting
    <3>4. s[1] \in Setting /\ s[2] \in Setting /\ s[3] \in Setting /\ s[4] \in Setting
      BY ONLY <3>1, <3>3, Zenon
    <3>5. QED  BY ONLY <1>7, <3>2, <3>4, Zenon
  <2>2. /\ Wired' /\ serial'.initialized = serial.initialized /\ uart' = uart
        /\ todo' = Tail(todo) /\ rate' = rate /\ handlers' = handlers
    BY <1>8, <2>1, SetKept
  <2>3. Safe'
    BY <1>1, <2>2 DEF Safe
  <2>4. todo' = From(InitStores(port, baud), k + 1, rest) /\ rate' = Divisor(baud)
    BY <1>2, <1>3, <1>6, <2>2
  <2>5. k \in 1 .. 8 /\ ~(k >= 6) /\ ~(k >= 7) /\ k # 8
    BY <1>9
  <2>6. Programming'
    BY ONLY <1>2, <2>3, <2>4, <2>5, port \in {"COM1", "COM2"}, baud \in Rates, ProgramStep
  <2>7. QED  BY <2>2, <2>6 DEF WireInv
<1>10. ASSUME k \in 5 .. 8, NEW field, NEW value, x = <<"out", field, value>>,
              \/ field = "dlab" /\ value \in BOOLEAN
              \/ field \in {"dll", "dlm"} /\ value \in Nat,
              k = 6 => field = "dll" /\ value = q % 256,
              k = 7 => field = "dlm" /\ value = (q \div 256) % 256,
              k = 8 => field = "dlab" /\ ~value
       PROVE  WireInv'
  <2>1. /\ Wired' /\ serial' = serial
        /\ uart'.dlab = (IF field = "dlab" THEN value ELSE uart.dlab)
        /\ uart'.dll = (IF field = "dll" THEN value ELSE uart.dll)
        /\ uart'.dlm = (IF field = "dlm" THEN value ELSE uart.dlm)
        /\ todo' = Tail(todo) /\ rate' = rate /\ handlers' = handlers
    BY <1>8, <1>10, OutKept
  <2>2. Safe'
    BY <1>1, <2>1 DEF Safe
  <2>3. todo' = From(InitStores(port, baud), k + 1, rest) /\ rate' = Divisor(baud)
    BY <1>2, <1>3, <1>6, <2>1
  <2>4. k \in 1 .. 8 /\ (k = 5 \/ k = 6 \/ k = 7 \/ k = 8)
    BY <1>10
  <2>5. k >= 6 => uart'.dll = rate' % 256
    BY <1>6, <1>10, <2>1, <2>4
  <2>6. k >= 7 => uart'.dlm = (rate' \div 256) % 256
    BY <1>6, <1>10, <2>1, <2>4
  <2>7. k = 8 => ~uart'.dlab
    BY <1>10, <2>1
  <2>8. Programming'
    BY ONLY <1>2, <2>2, <2>3, <2>4, <2>5, <2>6, <2>7, port \in {"COM1", "COM2"}, baud \in Rates, ProgramStep
  <2>9. QED  BY <2>1, <2>8 DEF WireInv
<1>11. CASE k \in 5 .. 8
  <2>1. PICK dll, dlm : dll = q % 256 /\ dlm = (q \div 256) % 256
    BY Zenon
  <2>2. /\ s[5] = <<"out", "dlab", TRUE>> /\ s[6] = <<"out", "dll", dll>>
        /\ s[7] = <<"out", "dlm", dlm>> /\ s[8] = <<"out", "dlab", FALSE>>
    BY <1>4, <2>1, Zenon DEF NineStores
  <2>3. dll \in Nat /\ dlm \in Nat
    BY <1>5, <2>1
  <2>4. CASE k = 5
    <3>1. x = <<"out", "dlab", TRUE>>
      BY <1>7, <2>2, <2>4, Zenon
    <3>2. k # 6 /\ k # 7 /\ k # 8 /\ TRUE \in BOOLEAN
      BY <2>4
    <3>3. QED  BY <1>10, <1>11, <3>1, <3>2, Zenon
  <2>5. CASE k = 6
    <3>1. x = <<"out", "dll", dll>>
      BY <1>7, <2>2, <2>5, Zenon
    <3>2. k # 7 /\ k # 8 /\ "dll" \in {"dll", "dlm"} /\ dll = q % 256 /\ dll \in Nat
      BY <2>1, <2>3, <2>5
    <3>3. QED  BY <1>10, <1>11, <3>1, <3>2, Zenon
  <2>6. CASE k = 7
    <3>1. x = <<"out", "dlm", dlm>>
      BY <1>7, <2>2, <2>6, Zenon
    <3>2. k # 6 /\ k # 8 /\ "dlm" \in {"dll", "dlm"} /\ dlm = (q \div 256) % 256 /\ dlm \in Nat
      BY <2>1, <2>3, <2>6
    <3>3. QED  BY <1>10, <1>11, <3>1, <3>2, Zenon
  <2>7. CASE k = 8
    <3>1. x = <<"out", "dlab", FALSE>>
      BY <1>7, <2>2, <2>7, Zenon
    <3>2. k # 6 /\ k # 7 /\ FALSE \in BOOLEAN
      BY <2>7
    <3>3. QED  BY <1>10, <1>11, <3>1, <3>2, Zenon
  <2>8. k = 5 \/ k = 6 \/ k = 7 \/ k = 8
    BY <1>11
  <2>9. QED  BY <2>4, <2>5, <2>6, <2>7, <2>8
<1>12. CASE k = 9
  <2>1. Head(todo) = <<"set", "initialized", 1>>
    <3>1. s[9] = <<"set", "initialized", 1>>
      BY <1>4, Zenon DEF NineStores
    <3>2. QED  BY <1>7, <1>8, <1>12, <3>1
  <2>2. /\ serial' = [serial EXCEPT !["initialized"] = 1] /\ uart' = uart
        /\ unsent' = (unsent /\ <<"set", "initialized", 1>> # Set("failed", 0))
        /\ todo' = Tail(todo) /\ reported' = reported /\ rate' = rate /\ handlers' = handlers
    BY <2>1, SetIs
  <2>3. Wired' /\ serial'.initialized = 1
    <3>1. serial \in SerialState
      BY DEF Wired
    <3>2. serial' \in SerialState /\ serial'.initialized = 1 /\ serial'.failed = serial.failed
      BY <2>2, <3>1 DEF SerialState
    <3>3. QED  BY <2>2, <3>2 DEF Wired
  <2>4. uart'.dll + 256 * uart'.dlm = rate' /\ ~uart'.dlab
    <3>1. 9 >= 7 /\ 9 >= 8
      OBVIOUS
    <3>2. uart.dll = q % 256 /\ uart.dlm = (q \div 256) % 256 /\ ~uart.dlab
      BY <1>6, <1>12, <3>1, Zenon
    <3>3. uart.dll + 256 * uart.dlm = q
      BY <1>5, <3>2, Zenon
    <3>4. QED  BY <1>6, <2>2, <3>2, <3>3, Zenon
  <2>5. Ready'
    BY <2>4, Zenon DEF Ready
  <2>6. Closed(todo)'
    BY <1>2, <1>12, <2>2
  <2>7. QED  BY <2>3, <2>5, <2>6 DEF WireInv, Idle
<1>13. QED  BY <1>9, <1>11, <1>12

(* The sections that nothing else is.                                       *)
LEMMA GuardsApart ==
    /\ \A x \in Setting : x \notin Guards
    /\ <<"handlers", TRUE>> \notin Guards
    /\ \A x \in Inits : x[1] = "serial_init"
<1>1. ASSUME NEW x \in Setting PROVE x \notin Guards
  <2>1. x[1] = "set" /\ x[2] # "initialized"
    BY DEF Setting
  <2>2. ASSUME x = <<"handlers", FALSE>> PROVE x[1] = "handlers"
    BY <2>2
  <2>3. ASSUME x = <<"set", "initialized", 0>> PROVE x[2] = "initialized"
    BY <2>3
  <2>4. QED  BY <2>1, <2>2, <2>3 DEF Guards
<1>2. ASSUME NEW x, x = <<"handlers", TRUE>> PROVE x \notin Guards
  <2>1. x[1] = "handlers" /\ x[2] = TRUE
    BY <1>2, Zenon
  <2>2. ASSUME x = <<"handlers", FALSE>> PROVE FALSE
    <3>1. x[2] = FALSE
      BY <2>2, Zenon
    <3>2. QED  BY <2>1, <3>1, Zenon
  <2>3. ASSUME x = <<"set", "initialized", 0>> PROVE x[1] = "set"
    BY <2>3
  <2>4. QED  BY <2>1, <2>2, <2>3 DEF Guards
<1>3. \A x \in Inits : x[1] = "serial_init"
  BY DEF Inits
<1>4. QED  BY <1>1, <1>2, <1>3

(* A guard, and what it leaves to do.                                       *)
LEMMA GuardStep ==
    ASSUME Wired', Ready', Safe', todo' = Tail(todo),
           \/ Closed(Tail(todo))
           \/ Tail(todo) # <<>> /\ Head(Tail(todo)) \in Inits /\ Closed(Tail(Tail(todo)))
    PROVE  WireInv'
<1>1. CASE Closed(Tail(todo))
  <2>1. Closed(todo)'
    BY <1>1
  <2>2. QED  BY <2>1 DEF WireInv, Idle
<1>2. CASE Tail(todo) # <<>> /\ Head(Tail(todo)) \in Inits /\ Closed(Tail(Tail(todo)))
  <2>1. Leading'
    BY <1>2 DEF Leading
  <2>2. QED  BY <2>1 DEF WireInv
<1>3. QED  BY <1>1, <1>2

(* The main line stores to the driver's state or to the UART.               *)
LEMMA StoreKeepsWire == WireInv /\ StoreSection => WireInv'
<1>1. SUFFICES ASSUME WireInv, StoreSection PROVE WireInv'
  OBVIOUS
<1>2. todo # <<>> /\ Head(todo)[1] \in {"set", "out"} /\ todo' = Tail(todo)
  BY <1>1 DEF StoreSection, Doing, Done
<1>3. Wired
  BY <1>1 DEF WireInv
<1>4. CASE Programming
  BY <1>1, <1>3, <1>4, ProgramKeepsWire
<1>5. CASE Leading
  <2>1. Head(todo)[1] = "serial_init"
    BY <1>5, GuardsApart DEF Leading
  <2>2. QED  BY <1>2, <2>1
<1>6. CASE Idle
  <2>1. PICK x : x = Head(todo)
    OBVIOUS
  <2>2. Ready /\ Closed(todo)
    BY <1>6 DEF Idle
  <2>3. /\ x \in Section
        /\ \/ Closed(Tail(todo))
           \/ /\ x \in Guards
              /\ Tail(todo) # <<>> /\ Head(Tail(todo)) \in Inits /\ Closed(Tail(Tail(todo)))
    BY <1>2, <2>1, <2>2, ClosedRest
  <2>4. x \in Setting \/ x = <<"set", "initialized", 0>>
    BY <1>2, <2>1, <2>3, KindsApart
  <2>5. CASE x \in Setting
    <3>1. Closed(Tail(todo))
      BY <2>3, <2>5, GuardsApart
    <3>2. /\ Wired' /\ serial'.initialized = serial.initialized /\ uart' = uart /\ rate' = rate
      BY <1>1, <1>3, <2>1, <2>5, SetKept
    <3>3. Ready'
      BY <2>2, <3>2 DEF Ready
    <3>4. Closed(todo)'
      BY <1>2, <3>1
    <3>5. QED  BY <3>2, <3>3, <3>4 DEF WireInv, Idle
  <2>6. CASE x = <<"set", "initialized", 0>>
    <3>1. /\ serial' = [serial EXCEPT !["initialized"] = 0] /\ uart' = uart
          /\ unsent' = (unsent /\ <<"set", "initialized", 0>> # Set("failed", 0))
          /\ reported' = reported
      BY <1>1, <2>1, <2>6, SetIs
    <3>2. serial \in SerialState
      BY <1>3 DEF Wired
    <3>3. serial' \in SerialState /\ serial'.initialized = 0 /\ serial'.failed = serial.failed
      BY <3>1, <3>2 DEF SerialState
    <3>4. Wired'
      BY <1>3, <3>1, <3>3 DEF Wired
    <3>5. Ready' /\ Safe'
      BY <3>3 DEF Ready, Safe
    <3>6. QED  BY <1>2, <2>3, <3>4, <3>5, GuardStep
  <2>7. QED  BY <2>4, <2>5, <2>6
<1>7. QED  BY <1>1, <1>4, <1>5, <1>6 DEF WireInv

(* Handlers are let in, or kept out.                                        *)
LEMMA HandlersKeepWire == WireInv /\ HandlersSection => WireInv'
<1>1. SUFFICES ASSUME WireInv, HandlersSection PROVE WireInv'
  OBVIOUS
<1>2. /\ todo # <<>> /\ Head(todo)[1] = "handlers" /\ todo' = Tail(todo)
      /\ handlers' = Head(todo)[2]
      /\ UNCHANGED <<serial, uart, reported, unsent, rate>>
  BY <1>1 DEF HandlersSection, Doing, Done, devices, history
<1>3. Wired
  BY <1>1 DEF WireInv
<1>4. ASSUME Programming PROVE FALSE
  <2>1. Head(todo)[1] \in {"set", "out"}
    BY <1>4, ProgramNext
  <2>2. QED  BY <1>2, <2>1
<1>5. ASSUME Leading PROVE FALSE
  <2>1. Head(todo)[1] = "serial_init"
    BY <1>5, GuardsApart DEF Leading
  <2>2. QED  BY <1>2, <2>1
<1>6. Ready /\ Closed(todo)
  BY <1>1, <1>4, <1>5 DEF WireInv, Idle
<1>7. PICK x : x = Head(todo)
  OBVIOUS
<1>8. /\ x \in Section
      /\ \/ Closed(Tail(todo))
         \/ /\ x \in Guards
            /\ Tail(todo) # <<>> /\ Head(Tail(todo)) \in Inits /\ Closed(Tail(Tail(todo)))
  BY <1>2, <1>6, <1>7, ClosedRest
<1>9. x = <<"handlers", TRUE>> \/ x = <<"handlers", FALSE>>
  <2>1. x[1] = "handlers"
    BY <1>2, <1>7
  <2>2. QED  BY <1>8, <2>1, KindsApart
<1>10. Wired' /\ Ready'
  BY <1>2, <1>3, <1>6, SamePort
<1>11. CASE x = <<"handlers", TRUE>>
  <2>1. x \notin Guards
    BY <1>11, GuardsApart, Zenon
  <2>2. Closed(Tail(todo))
    BY <1>8, <2>1
  <2>3. Closed(todo)'
    BY <1>2, <2>2
  <2>4. QED  BY <1>10, <2>3 DEF WireInv, Idle
<1>12. CASE x = <<"handlers", FALSE>>
  <2>1. x[2] = FALSE
    BY <1>12, Zenon
  <2>2. Safe'
    BY <1>2, <1>7, <2>1, Zenon DEF Safe
  <2>3. QED  BY <1>2, <1>8, <1>10, <2>2, GuardStep
<1>13. QED  BY <1>9, <1>11, <1>12

(* A call, once all is done.                                                *)
LEMMA CallKeepsWire == WireInv /\ Call => WireInv'
<1>1. SUFFICES ASSUME WireInv, Call PROVE WireInv'
  OBVIOUS
<1>2. /\ todo = <<>> /\ todo' \in Calls
      /\ UNCHANGED <<serial, uart, reported, unsent, rate>>
  BY <1>1 DEF Call, devices, history
<1>3. ~Programming
  BY <1>2, ProgramNext
<1>4. Wired /\ Ready
  BY <1>1, <1>2, <1>3 DEF WireInv, Idle, Leading
<1>5. Wired' /\ Ready'
  BY <1>2, <1>4, SamePort
<1>6. Closed(todo)'
  <2>1. Closed(todo')
    BY <1>2, CallsClosed
  <2>2. QED  BY <2>1
<1>7. QED  BY <1>5, <1>6 DEF WireInv, Idle

(* A handler prints between any two sections.                               *)
LEMMA HandlerKeepsWire == WireInv /\ HandlerPrints => WireInv'
<1>1. SUFFICES ASSUME WireInv, HandlerPrints PROVE WireInv'
  OBVIOUS
<1>2. /\ handlers /\ UNCHANGED <<todo, handlers, rate>>
      /\ \E section \in HandlerCalls :
             \E ready \in 0 .. Len(TextOf(section)) : Write(section, ready)
  BY <1>1 DEF HandlerPrints
<1>3. PICK section \in HandlerCalls :
          \E ready \in 0 .. Len(TextOf(section)) : Write(section, ready)
  BY <1>2
<1>4. PICK t \in Seq(Char) : \/ section = <<"serial", t, t>>
                             \/ \E level \in 0 .. 4 : section = <<"log", level, t, t>>
  BY LogClosed
<1>5. PICK ready \in 0 .. Len(TextOf(section)) : Write(section, ready)
  BY <1>3
<1>6. Wired /\ (serial.initialized = 1 => ~uart.dlab)
  <2>1. Programming => serial.initialized = 0
    BY <1>2, ProgramNext DEF Safe
  <2>2. QED  BY <1>1, <2>1 DEF WireInv, Idle, Leading, Ready
<1>7. /\ Wired'
      /\ serial'.initialized = serial.initialized
      /\ uart'.dlab = uart.dlab /\ uart'.dll = uart.dll /\ uart'.dlm = uart.dlm
  BY <1>4, <1>5, <1>6, SectionWritten
<1>8. Ready => Ready'
  BY <1>2, <1>7, WrittenReady
<1>9. Safe => Safe'
  BY <1>2, <1>7 DEF Safe
<1>10. CASE Idle
  BY <1>2, <1>7, <1>8, <1>10 DEF WireInv, Idle
<1>11. CASE Leading
  BY <1>2, <1>7, <1>8, <1>9, <1>11 DEF WireInv, Leading
<1>12. CASE Programming
  <2>1. PICK port \in {"COM1", "COM2"}, baud \in Rates, k \in 1 .. 9, rest \in Seq(Section) :
            Closed(rest) /\ ProgramAt(port, baud, k, rest)
    BY <1>12 DEF Programming
  <2>2. ProgramAt(port, baud, k, rest)'
    BY <1>2, <1>7, <2>1, Zenon DEF ProgramAt
  <2>3. Programming'
    BY <1>9, <1>12, <2>1, <2>2, Zenon DEF Programming
  <2>4. QED  BY <1>7, <2>3 DEF WireInv
<1>13. QED  BY <1>1, <1>10, <1>11, <1>12 DEF WireInv

(* The divisor that an initialisation goes for.                             *)
LEMMA RateDecided ==
    ASSUME NEW port, NEW baud, Decide, Acceptable(uart, port, baud),
           Head(todo) = <<"serial_init", port, baud>>
    PROVE  rate' = Divisor(baud)
<1>1. Head(todo)[1] = "serial_init" /\ Head(todo)[2] = port /\ Head(todo)[3] = baud
  BY SMT
<1>2. ASSUME NEW u, u = Head(todo), u[1] = "serial_init" /\ u[2] = port /\ u[3] = baud
      PROVE  rate' = 115200 \div baud
  BY ONLY <1>2, Decide, Acceptable(uart, port, baud), SMT DEF Decide
<1>3. rate' = 115200 \div baud
  BY ONLY <1>1, <1>2
<1>4. QED  BY ONLY <1>3, SMT DEF Divisor, UartClock

(* What is asked of the port, and what of it.                               *)
LEMMA InitDecided ==
    ASSUME NEW port \in {"COM1", "COM2"}, NEW baud \in Nat, Decide,
           Head(todo) = <<"serial_init", port, baud>>
    PROVE  \/ /\ baud \in Rates /\ todo' = InitStores(port, baud) \o Tail(todo)
              /\ rate' = Divisor(baud)
           \/ todo' = InitFailed \o Tail(todo) /\ rate' = rate
<1>1. Head(todo)[1] = "serial_init" /\ Head(todo)[2] = port /\ Head(todo)[3] = baud
  BY SMT
<1>2. PICK x : x = Head(todo)
  BY SMT
<1>3. x[1] = "serial_init" /\ x[2] = port /\ x[3] = baud
  BY ONLY <1>1, <1>2, SMT
<1>4. todo' = Decision(x) \o Tail(todo)
  BY <1>2, SMT DEF Decide
<1>5. Decision(x) = IF Acceptable(uart, port, baud) THEN InitStores(port, baud) ELSE InitFailed
  BY <1>3, SMT DEF Decision
<1>6. ASSUME Acceptable(uart, port, baud)
      PROVE  baud \in Rates /\ rate' = Divisor(baud)
  <2>1. PICK c : c = UartClock
    OBVIOUS
  <2>2. c = 115200
    BY <2>1, SMT DEF UartClock
  <2>3. baud \in 110 .. c
    <3>1. baud >= 110 /\ baud <= 115200
      BY ONLY <1>6, SMT DEF Acceptable
    <3>2. baud \in Nat
      BY SMT
    <3>3. c \in Nat /\ baud <= c
      BY ONLY <2>2, <3>1, <3>2, SMT
    <3>4. QED  BY ONLY <3>1, <3>2, <3>3, SMT
  <2>4. rate' = Divisor(baud)
    BY ONLY <1>6, Decide, Head(todo) = <<"serial_init", port, baud>>, RateDecided
  <2>5. QED  BY ONLY <2>1, <2>3, <2>4, Zenon DEF Rates
<1>7. ASSUME ~Acceptable(uart, port, baud) PROVE rate' = rate
  BY ONLY <1>1, <1>7, Decide, SMT DEF Decide
<1>8. CASE Acceptable(uart, port, baud)
  <2>1. Decision(x) = InitStores(port, baud)
    BY ONLY <1>5, <1>8, Zenon
  <2>2. QED  BY ONLY <1>4, <1>6, <1>8, <2>1, Zenon
<1>9. CASE ~Acceptable(uart, port, baud)
  <2>1. Decision(x) = InitFailed
    BY ONLY <1>5, <1>9, Zenon
  <2>2. QED  BY ONLY <1>4, <1>7, <1>9, <2>1, Zenon
<1>10. QED  BY ONLY <1>8, <1>9, Zenon

(* All of a sequence, and then the rest.                                    *)
LEMMA FromFirst ==
    ASSUME NEW port, NEW baud, NEW rest
    PROVE  InitStores(port, baud) \o rest = From(InitStores(port, baud), 1, rest)
<1>1. PICK s : s = InitStores(port, baud)
  OBVIOUS
<1>2. NineStores(s, port, Divisor(baud))
  BY <1>1, StoresAre, Zenon
<1>3. PICK S : s \in Seq(S)
  BY <1>2, Zenon DEF NineStores
<1>4. SubSeq(s, 1, Len(s)) = s
  BY ONLY <1>3
<1>5. s \o rest = From(s, 1, rest)
  BY <1>4, Zenon DEF From
<1>6. QED  BY <1>1, <1>5, Zenon

(* The main line goes one way or another.                                   *)
LEMMA DecideKeepsWire == WireInv /\ pool.size \in Nat /\ pool.used \in Nat /\ Decide => WireInv'
<1>1. SUFFICES ASSUME WireInv, pool.size \in Nat, pool.used \in Nat, Decide PROVE WireInv'
  OBVIOUS
<1>2. /\ todo # <<>> /\ Head(todo)[1] \in Decisions
      /\ todo' = Decision(Head(todo)) \o Tail(todo)
      /\ Head(todo)[1] # "serial_init" => rate' = rate
      /\ UNCHANGED <<serial, uart, reported, unsent, handlers>>
  BY <1>1, SMT DEF Decide, Doing, devices
<1>3. Wired
  BY <1>1 DEF WireInv
<1>4. CASE Head(todo)[1] # "serial_init"
  <2>1. Head(todo)[1] \notin {"set", "out", "serial_init", "handlers"}
    BY <1>2, <1>4 DEF Decisions
  <2>2. Head(todo) \in Section
    BY <1>1, <1>2, <2>1, NextIsIdle
  <2>3. Head(todo) \notin Inits
    BY <1>4, GuardsApart
  <2>4. serial.error_code \in Int /\ serial.timeout_count \in Int
    BY <1>3 DEF Wired, SerialState
  <2>5. Closed(Decision(Head(todo)))
    BY <1>1, <1>2, <2>2, <2>3, <2>4, DecisionClosed
  <2>6. UNCHANGED <<serial, uart, reported, unsent, rate>>
    BY <1>2, <1>4
  <2>7. QED  BY <1>1, <1>2, <2>1, <2>5, <2>6, IdleStep
<1>5. CASE Head(todo)[1] = "serial_init"
  <2>1. ~Programming
    <3>1. ASSUME Programming PROVE FALSE
      <4>1. Head(todo)[1] \in {"set", "out"}
        BY <3>1, ProgramNext
      <4>2. QED  BY <1>5, <4>1
    <3>2. QED  BY <3>1
  <2>2. ~Idle
    <3>1. ASSUME Idle PROVE FALSE
      <4>1. Head(todo) \in Section /\ Head(todo) \notin Inits
        BY <1>2, <3>1, ClosedRest DEF Idle
      <4>2. QED  BY <1>5, <4>1, KindsApart
    <3>2. QED  BY <3>1
  <2>3. Ready /\ Safe /\ Head(todo) \in Inits /\ Closed(Tail(todo))
    BY <1>1, <2>1, <2>2 DEF WireInv, Leading
  <2>4. PICK port \in {"COM1", "COM2"}, baud \in Nat : Head(todo) = <<"serial_init", port, baud>>
    BY <2>3 DEF Inits
  <2>5. \/ /\ baud \in Rates /\ todo' = InitStores(port, baud) \o Tail(todo)
           /\ rate' = Divisor(baud)
        \/ todo' = InitFailed \o Tail(todo) /\ rate' = rate
    BY <1>1, <2>4, InitDecided
  <2>6. CASE /\ baud \in Rates /\ todo' = InitStores(port, baud) \o Tail(todo)
             /\ rate' = Divisor(baud)
    <3>1. todo' = From(InitStores(port, baud), 1, Tail(todo))
      BY <2>6, FromFirst, Zenon
    <3>2. PICK one \in 1 .. 9 : one = 1
      OBVIOUS
    <3>3. ~(one >= 7) /\ ~(one >= 8) /\ ~(one = 9)
      BY <3>2
    <3>4. PICK rest : rest = Tail(todo)
      OBVIOUS
    <3>5. todo' = From(InitStores(port, baud), one, rest) /\ Closed(rest)
      BY <2>3, <3>1, <3>2, <3>4, Zenon
    <3>6. ProgramAt(port, baud, one, rest)'
      BY <2>6, <3>3, <3>5, Zenon DEF ProgramAt
    <3>7. Safe'
      BY <1>2, <2>3 DEF Safe
    <3>8. Programming'
      <4>1. rest \in Seq(Section)
        BY <3>5 DEF Closed
      <4>2. QED  BY <2>6, <3>5, <3>6, <3>7, <4>1, Zenon DEF Programming
    <3>9. Wired'
      BY <1>2, <1>3 DEF Wired
    <3>10. QED  BY <3>8, <3>9 DEF WireInv
  <2>7. CASE todo' = InitFailed \o Tail(todo) /\ rate' = rate
    <3>1. Wired' /\ Ready'
      BY <1>2, <1>3, <2>3, <2>7, SamePort
    <3>2. Closed(InitFailed \o Tail(todo))
      BY <2>3, StoresClosed, ClosedThen
    <3>3. Closed(todo)'
      BY <2>7, <3>2
    <3>4. QED  BY <3>1, <3>3 DEF WireInv, Idle
  <2>8. QED  BY <2>5, <2>6, <2>7
<1>6. QED  BY <1>4, <1>5

(* At first the port is closed, and about to be initialised or never.       *)
LEMMA InitialWire == Init => WireInv
<1>1. SUFFICES ASSUME Init PROVE WireInv
  OBVIOUS
<1>2. /\ serial = SerialAtReset /\ reported = <<>> /\ unsent = FALSE /\ handlers = FALSE
      /\ \E present \in BOOLEAN : uart = UartAtReset(present)
      /\ todo \in {kernel_main, early_panic(<<"B">>)}
  BY <1>1, SMT DEF Init
<1>3. serial \in SerialState /\ serial.initialized = 0
  BY <1>2 DEF SerialAtReset, SerialState, SERIAL_ERROR_NONE
<1>4. uart \in UartState /\ uart.wire = <<>>
  <2>1. PICK present \in BOOLEAN : uart = UartAtReset(present)
    BY <1>2
  <2>2. <<>> \in Seq(Char) /\ FALSE \in BOOLEAN
    OBVIOUS
  <2>3. QED  BY <2>1, <2>2 DEF UartAtReset, UartState
<1>5. Wired /\ Ready /\ Safe
  BY <1>2, <1>3, <1>4 DEF Wired, Ready, Safe
<1>6. CASE todo = early_panic(<<"B">>)
  <2>1. "B" \in Reasons
    BY DEF Reasons
  <2>2. Closed(todo)
    BY <1>6, <2>1, BootClosed
  <2>3. QED  BY <1>5, <2>2 DEF WireInv, Idle
<1>7. CASE todo = kernel_main
  <2>a. PICK baud \in Nat : baud = 115200
    BY SMT
  <2>1. PICK x : x = <<"serial_init", "COM1", baud>>
    OBVIOUS
  <2>2. x \in Inits
    BY <2>1, SMT DEF Inits
  <2>3. PICK y : y = <<"choose_output">>
    BY Zenon
  <2>4. todo = <<x>> \o <<y>>
    BY <1>7, <2>a, <2>1, <2>3, SMT DEF kernel_main, serial_init
  <2>5. todo = <<x, y>>
    BY ONLY <2>4, OneAndOne, Zenon
  <2>6. todo # <<>> /\ Head(todo) = x /\ Tail(todo) = <<y>>
    BY ONLY <2>5
  <2>7. Closed(<<y>>)
    BY <2>3, BootClosed, Zenon
  <2>8. Leading
    BY <1>5, <2>2, <2>6, <2>7, Zenon DEF Leading
  <2>9. QED  BY <1>5, <2>8 DEF WireInv
<1>8. QED  BY <1>2, <1>6, <1>7

(* Nothing happens.                                                         *)
LEMMA WireStutters ==
    ASSUME WireInv, UNCHANGED <<serial, uart, reported, unsent, rate, todo, handlers>>
    PROVE  WireInv'
<1>1. Wired' /\ (Ready => Ready')
  BY SamePort DEF WireInv
<1>2. Safe => Safe'
  BY DEF Safe
<1>3. Idle => Idle'
  BY <1>1 DEF Idle
<1>4. Leading => Leading'
  BY <1>1, <1>2 DEF Leading
<1>5. ASSUME Programming PROVE Programming'
  <2>1. PICK port \in {"COM1", "COM2"}, baud \in Rates, k \in 1 .. 9, rest \in Seq(Section) :
            Closed(rest) /\ ProgramAt(port, baud, k, rest)
    BY <1>5 DEF Programming
  <2>2. ProgramAt(port, baud, k, rest)'
    BY <2>1, Zenon DEF ProgramAt
  <2>3. QED  BY <1>2, <1>5, <2>1, <2>2, Zenon DEF Programming
<1>6. QED  BY <1>1, <1>3, <1>4, <1>5 DEF WireInv

-----------------------------------------------------------------------------
(* The screen: every operation of the driver has its like on the page.      *)

(* A line of the screen or of the page; the driver's state and the page.    *)
Line == [Col -> Char \X Color]
ScreenState ==
    [present : BOOLEAN, cells : [Row -> Line], col : 0 .. VGA_COLS, row : Row,
     color : Color, detected : BOOLEAN, initialized : BOOLEAN]
PageState == [lines : Seq(Line), line : Nat, col : 0 .. VGA_COLS, color : Color]

(* The screen shows the end of the page, and printing goes on at the same   *)
(* place in the same colour. That holds of a driver that is not initialised, *)
(* and but for the cells without an adapter.                                *)
Agree(s, p) ==
    /\ s \in ScreenState /\ p \in PageState
    /\ s.detected => s.present
    /\ Len(p.lines) >= VGA_ROWS /\ p.line = FirstShown(p) + s.row
    /\ s.col = p.col /\ s.color = p.color
    /\ s.present => \A r \in Row : s.cells[r] = p.lines[FirstShown(p) + r]

(* The sizes of the screen.                                                 *)
LEMMA Sizes == /\ VGA_ROWS \in Nat \ {0} /\ VGA_COLS \in Nat \ {0} /\ TabStop \in Nat \ {0}
               /\ 0 \in Row /\ VGA_ROWS - 1 \in Row /\ 0 \in Col /\ VGA_COLS - 1 \in Col
<1>1. VGA_ROWS \in Nat \ {0} /\ VGA_COLS \in Nat \ {0} /\ TabStop \in Nat \ {0}
  BY ScreenAssumption
<1>2. QED  BY <1>1 DEF Row, Col

(* Where the page's last lines are.                                         *)
LEMMA Places ==
    ASSUME NEW s, NEW p, Agree(s, p)
    PROVE  /\ Len(p.lines) \in Nat /\ FirstShown(p) \in Nat \ {0}
           /\ FirstShown(p) = Len(p.lines) - VGA_ROWS + 1
           /\ \A r \in Row : FirstShown(p) + r \in 1 .. Len(p.lines)
           /\ s.row \in Row /\ p.line \in 1 .. Len(p.lines)
           /\ p.line = Len(p.lines) <=> s.row = VGA_ROWS - 1
<1>1. p.lines \in Seq(Line) /\ Len(p.lines) >= VGA_ROWS /\ s.row \in Row /\ p.line = FirstShown(p) + s.row
  BY DEF Agree, PageState, ScreenState
<1>2. PICK n \in Nat : n = Len(p.lines)
  BY <1>1
<1>3. FirstShown(p) = n - VGA_ROWS + 1 /\ n >= VGA_ROWS /\ VGA_ROWS \in Nat \ {0}
  BY <1>1, <1>2, Sizes DEF FirstShown
<1>4. QED  BY <1>1, <1>2, <1>3 DEF Row

(* A blank line is a line; so is one with another character.                *)
LEMMA LinesAre ==
    /\ \A color \in Color : [c \in Col |-> <<" ", color>>] \in Line
    /\ \A line \in Line, col \in Col, c \in Char, color \in Color :
           [line EXCEPT ![col] = <<c, color>>] \in Line
<1>1. " " \in Char
  BY DEF Char
<1>2. ASSUME NEW color \in Color PROVE [c \in Col |-> <<" ", color>>] \in Line
  BY <1>1 DEF Line
<1>3. ASSUME NEW line \in Line, NEW col \in Col, NEW c \in Char, NEW color \in Color
      PROVE  [line EXCEPT ![col] = <<c, color>>] \in Line
  <2>1. <<c, color>> \in Char \X Color
    OBVIOUS
  <2>2. QED  BY <2>1 DEF Line
<1>4. QED  BY <1>2, <1>3

(* The end of a line, with or without a line of the screen left.            *)
LEMMA NewlineAgrees ==
    ASSUME NEW s, NEW p, Agree(s, p)
    PROVE  Agree(vga_newline_internal(s), EndLine(p)) /\ EndLine(p).col = 0
<1>1. /\ Len(p.lines) \in Nat /\ FirstShown(p) \in Nat \ {0}
      /\ FirstShown(p) = Len(p.lines) - VGA_ROWS + 1
      /\ \A r \in Row : FirstShown(p) + r \in 1 .. Len(p.lines)
      /\ s.row \in Row /\ p.line \in 1 .. Len(p.lines)
      /\ p.line = Len(p.lines) <=> s.row = VGA_ROWS - 1
  BY Places
<1>2. /\ s \in ScreenState /\ p \in PageState
      /\ s.detected => s.present
      /\ Len(p.lines) >= VGA_ROWS /\ p.line = FirstShown(p) + s.row
      /\ s.col = p.col /\ s.color = p.color
      /\ s.present => \A r \in Row : s.cells[r] = p.lines[FirstShown(p) + r]
  BY DEF Agree
<1>3. PICK n \in Nat, first \in Nat \ {0}, row \in Row :
          n = Len(p.lines) /\ first = FirstShown(p) /\ row = s.row
  BY <1>1
<1>4. row \in Row /\ first = n - VGA_ROWS + 1 /\ VGA_ROWS \in Nat \ {0} /\ VGA_COLS \in Nat \ {0}
  BY <1>1, <1>3, Sizes
<1>5. 0 \in 0 .. VGA_COLS
  BY <1>4
<1>6. PICK s2, p2 : s2 = vga_newline_internal(s) /\ p2 = EndLine(p)
  OBVIOUS
<1>7. CASE row < VGA_ROWS - 1
  <2>1. row + 1 \in Row /\ row # VGA_ROWS - 1
    BY <1>4, <1>7 DEF Row
  <2>2. s2 = [s EXCEPT !.col = 0, !.row = row + 1]
    BY <1>2, <1>3, <1>6, <1>7 DEF vga_newline_internal, ScreenState
  <2>3. p2 = [p EXCEPT !.line = p.line + 1, !.col = 0]
    <3>1. p.line # Len(p.lines)
      BY <1>1, <1>3, <2>1
    <3>2. QED  BY <1>2, <1>6, <3>1 DEF EndLine, PageState
  <2>4. /\ s2 \in ScreenState /\ s2.present = s.present /\ s2.detected = s.detected
        /\ s2.cells = s.cells /\ s2.color = s.color /\ s2.col = 0 /\ s2.row = row + 1
    BY <1>2, <1>5, <2>1, <2>2 DEF ScreenState
  <2>5. /\ p2 \in PageState /\ p2.lines = p.lines /\ p2.line = p.line + 1 /\ p2.col = 0
        /\ p2.color = p.color
    <3>1. p.line + 1 \in Nat
      BY <1>2 DEF PageState
    <3>2. QED  BY <1>2, <1>5, <2>3, <3>1 DEF PageState
  <2>6. FirstShown(p2) = FirstShown(p)
    BY <2>5 DEF FirstShown
  <2>7. p2.line = FirstShown(p2) + s2.row
    <3>1. p2.line = (first + row) + 1 /\ FirstShown(p2) + s2.row = first + (row + 1)
      BY <1>2, <1>3, <2>4, <2>5, <2>6
    <3>2. first \in Int /\ row \in Int
      BY <1>4 DEF Row
    <3>3. QED  BY ONLY <3>1, <3>2
  <2>8. Agree(s2, p2)
    BY <1>2, <2>4, <2>5, <2>6, <2>7 DEF Agree
  <2>9. QED  BY <1>6, <2>5, <2>8
<1>8. CASE ~(row < VGA_ROWS - 1)
  <2>1. row = VGA_ROWS - 1 /\ VGA_ROWS - 1 \in Row /\ 0 \in Col
    BY <1>4, <1>8, Sizes DEF Row
  <2>2. PICK blank : blank = [c \in Col |-> <<" ", s.color>>]
    OBVIOUS
  <2>3. s.color \in Color /\ s.cells \in [Row -> Line] /\ s.present \in BOOLEAN
    BY <1>2 DEF ScreenState
  <2>4. blank \in Line
    BY <2>2, <2>3, LinesAre
  <2>5. PICK cells : cells = [r \in Row |-> IF r < VGA_ROWS - 1 THEN s.cells[r + 1] ELSE s.cells[r]]
    OBVIOUS
  <2>6. cells \in [Row -> Line]
    <3>1. \A r \in Row : r < VGA_ROWS - 1 => r + 1 \in Row
      BY <1>4 DEF Row
    <3>2. QED  BY <2>3, <2>5, <3>1
  <2>7. PICK final : final = IF s.present THEN [cells EXCEPT ![VGA_ROWS - 1] = blank] ELSE s.cells
    OBVIOUS
  <2>8. final \in [Row -> Line]
    BY <2>1, <2>3, <2>4, <2>6, <2>7
  <2>9. s2 = [s EXCEPT !.cells = final, !.col = 0]
    <3>1. PICK t : t = [s EXCEPT !.col = 0, !.cells = IF s.present THEN Scrolled(s.cells) ELSE s.cells]
      OBVIOUS
    <3>2. s2 = vga_clear_row_internal(t, VGA_ROWS - 1)
      BY <1>3, <1>6, <1>8, <3>1 DEF vga_newline_internal
    <3>3. Scrolled(s.cells) = cells
      BY <2>5 DEF Scrolled
    <3>4. is_valid_position(VGA_ROWS - 1, 0)
      BY <2>1 DEF is_valid_position
    <3>5. t.present = s.present /\ t.color = s.color /\ t \in ScreenState
          /\ t.cells = IF s.present THEN cells ELSE s.cells
      BY <1>2, <1>5, <2>3, <2>6, <3>1, <3>3 DEF ScreenState
    <3>6. CASE s.present
      <4>1. s2 = [t EXCEPT !.cells[VGA_ROWS - 1] = blank]
        BY <2>2, <3>2, <3>4, <3>5, <3>6 DEF vga_clear_row_internal, Cell
      <4>2. s2 = [t EXCEPT !.cells = [t.cells EXCEPT ![VGA_ROWS - 1] = blank]]
        BY <4>1
      <4>3. s2 = [t EXCEPT !.cells = final]
        BY <2>7, <3>5, <3>6, <4>2
      <4>4. QED  BY <1>2, <3>1, <4>3 DEF ScreenState
    <3>7. CASE ~s.present
      <4>1. s2 = t
        BY <3>2, <3>5, <3>7 DEF vga_clear_row_internal
      <4>2. QED  BY <1>2, <2>7, <3>1, <3>7, <4>1 DEF ScreenState
    <3>8. QED  BY <3>6, <3>7
  <2>10. /\ s2 \in ScreenState /\ s2.present = s.present /\ s2.detected = s.detected
         /\ s2.cells = final /\ s2.color = s.color /\ s2.col = 0 /\ s2.row = row
    BY <1>2, <1>3, <1>5, <2>8, <2>9 DEF ScreenState
  <2>11. PICK lines : lines = Append(p.lines, blank)
    OBVIOUS
  <2>12. /\ lines \in Seq(Line) /\ Len(lines) = n + 1 /\ lines[n + 1] = blank
         /\ \A i \in 1 .. n : lines[i] = p.lines[i]
    <3>1. p.lines \in Seq(Line)
      BY <1>2 DEF PageState
    <3>2. QED  BY <1>3, <2>4, <2>11, <3>1
  <2>13. p2 = [p EXCEPT !.lines = lines, !.line = p.line + 1, !.col = 0]
    <3>1. p.line = Len(p.lines)
      BY <1>1, <1>3, <2>1
    <3>2. BlankLine(p) = blank
      BY <1>2, <2>2 DEF BlankLine
    <3>3. QED  BY <1>6, <2>11, <3>1, <3>2 DEF EndLine
  <2>14. /\ p2 \in PageState /\ p2.lines = lines /\ p2.line = p.line + 1 /\ p2.col = 0
         /\ p2.color = p.color
    <3>1. p.line + 1 \in Nat
      BY <1>2 DEF PageState
    <3>2. QED  BY <1>2, <1>5, <2>12, <2>13, <3>1 DEF PageState
  <2>15. FirstShown(p2) = first + 1
    BY <1>3, <1>4, <2>12, <2>14 DEF FirstShown
  <2>16. p2.line = FirstShown(p2) + s2.row
    <3>1. p2.line = (first + row) + 1 /\ FirstShown(p2) + s2.row = (first + 1) + row
      BY <1>2, <1>3, <2>10, <2>14, <2>15
    <3>2. first \in Int /\ row \in Int
      BY <1>4 DEF Row
    <3>3. QED  BY ONLY <3>1, <3>2
  <2>17. ASSUME s2.present, NEW r \in Row PROVE s2.cells[r] = p2.lines[FirstShown(p2) + r]
    <3>1. final = [cells EXCEPT ![VGA_ROWS - 1] = blank] /\ s.present
      BY <2>7, <2>10, <2>17
    <3>2. CASE r = VGA_ROWS - 1
      <4>1. final[r] = blank
        BY <2>1, <2>6, <3>1, <3>2
      <4>2. first + 1 + r = n + 1
        BY <1>4, <3>2
      <4>3. QED  BY <2>10, <2>12, <2>14, <2>15, <4>1, <4>2
    <3>3. CASE r # VGA_ROWS - 1
      <4>1. r < VGA_ROWS - 1 /\ r + 1 \in Row /\ first + 1 + r = first + (r + 1)
        BY <1>4, <3>3 DEF Row
      <4>2. final[r] = s.cells[r + 1]
        BY <2>5, <3>1, <3>3, <4>1
      <4>3. s.cells[r + 1] = p.lines[first + (r + 1)]
        BY <1>2, <1>3, <3>1, <4>1
      <4>4. first + (r + 1) \in 1 .. n
        BY <1>1, <1>3, <4>1
      <4>5. QED  BY <2>10, <2>12, <2>14, <2>15, <4>1, <4>2, <4>3, <4>4
    <3>4. QED  BY <3>2, <3>3
  <2>18. Len(p2.lines) >= VGA_ROWS
    BY <1>2, <1>3, <1>4, <2>12, <2>14
  <2>19. Agree(s2, p2)
    BY <1>2, <2>10, <2>14, <2>16, <2>17, <2>18 DEF Agree
  <2>20. QED  BY <1>6, <2>14, <2>19
<1>9. QED  BY <1>7, <1>8

(* The next multiple of TabStop.                                            *)
LEMMA TabIs ==
    ASSUME NEW col \in Nat
    PROVE  (CHOOSE c \in col + 1 .. col + TabStop : c % TabStop = 0)
               = ((col + TabStop) \div TabStop) * TabStop
<1>1. PICK k \in Nat \ {0} : k = TabStop
  BY Sizes
<1>2. PICK q \in Int, r \in 0 .. k - 1 : q = (col + k) \div k /\ col + k = k * q + r
  <2>1. (col + k) \div k \in Int /\ (col + k) % k \in 0 .. k - 1
        /\ col + k = k * ((col + k) \div k) + ((col + k) % k)
    OBVIOUS
  <2>2. QED  BY <2>1
<1>3. PICK next \in Int : next = k * q /\ next \in col + 1 .. col + k
  <2>1. k * q \in Int
    OBVIOUS
  <2>2. QED  BY <1>2, <2>1
<1>4. next % k = 0
  BY <1>3
<1>5. ASSUME NEW c \in col + 1 .. col + k, c % k = 0 PROVE c = next
  <2>1. PICK m \in Int : m = c \div k /\ c = k * m
    <3>1. c \div k \in Int /\ c = k * (c \div k) + (c % k)
      OBVIOUS
    <3>2. QED  BY <1>5, <3>1
  <2>2. ASSUME m > q PROVE FALSE
    <3>1. m - q >= 1 /\ k * (m - q) >= k
      BY <2>2
    <3>2. k * (m - q) = c - next
      BY <1>3, <2>1
    <3>3. c - next < k
      BY <1>3
    <3>4. c \in Int /\ next \in Int
      BY <1>3
    <3>5. QED  BY ONLY <3>1, <3>2, <3>3, <3>4, k \in Nat
  <2>3. ASSUME m < q PROVE FALSE
    <3>1. q - m >= 1 /\ k * (q - m) >= k
      BY <2>3
    <3>2. k * (q - m) = next - c
      BY <1>3, <2>1
    <3>3. next - c < k
      BY <1>3
    <3>4. c \in Int /\ next \in Int
      BY <1>3
    <3>5. QED  BY ONLY <3>1, <3>2, <3>3, <3>4, k \in Nat
  <2>4. m = q
    BY <2>2, <2>3
  <2>5. QED  BY <1>3, <2>1, <2>4
<1>6. (CHOOSE c \in col + 1 .. col + k : c % k = 0) = next
  BY <1>3, <1>4, <1>5, Zenon
<1>7. next = ((col + k) \div k) * k
  BY <1>2, <1>3
<1>8. QED  BY <1>1, <1>6, <1>7

(* The cursor moves within its line, or to the start of it.                 *)
LEMMA ColumnAgrees ==
    ASSUME NEW s, NEW p, Agree(s, p), NEW col \in 0 .. VGA_COLS
    PROVE  Agree([s EXCEPT !.col = col], [p EXCEPT !.col = col])
<1>1. PICK s2, p2 : s2 = [s EXCEPT !.col = col] /\ p2 = [p EXCEPT !.col = col]
  OBVIOUS
<1>2. s \in ScreenState /\ p \in PageState
  BY DEF Agree
<1>3. /\ s2 \in ScreenState /\ s2.present = s.present /\ s2.detected = s.detected
      /\ s2.cells = s.cells /\ s2.color = s.color /\ s2.col = col /\ s2.row = s.row
  BY <1>1, <1>2 DEF ScreenState
<1>4. /\ p2 \in PageState /\ p2.lines = p.lines /\ p2.line = p.line /\ p2.col = col
      /\ p2.color = p.color
  BY <1>1, <1>2 DEF PageState
<1>5. FirstShown(p2) = FirstShown(p)
  BY <1>4 DEF FirstShown
<1>6. QED  BY <1>1, <1>3, <1>4, <1>5 DEF Agree

(* A cell of a line that the screen shows.                                  *)
LEMMA CellAgrees ==
    ASSUME NEW s, NEW p, Agree(s, p), NEW row \in Row, NEW col \in Col,
           NEW c \in Char, NEW color \in Color
    PROVE  Agree(Store(s, row, col, <<c, color>>),
                 [p EXCEPT !.lines[FirstShown(p) + row][col] = <<c, color>>])
<1>1. /\ Len(p.lines) \in Nat /\ FirstShown(p) \in Nat \ {0}
      /\ \A r \in Row : FirstShown(p) + r \in 1 .. Len(p.lines)
  BY Places
<1>2. /\ s \in ScreenState /\ p \in PageState
      /\ s.detected => s.present
      /\ Len(p.lines) >= VGA_ROWS /\ p.line = FirstShown(p) + s.row
      /\ s.col = p.col /\ s.color = p.color
      /\ s.present => \A r \in Row : s.cells[r] = p.lines[FirstShown(p) + r]
  BY DEF Agree
<1>3. PICK n \in Nat, first \in Nat \ {0} : n = Len(p.lines) /\ first = FirstShown(p)
  BY <1>1
<1>4. PICK cell : cell = <<c, color>>
  OBVIOUS
<1>5. PICK s2, p2 : /\ s2 = Store(s, row, col, cell)
                    /\ p2 = [p EXCEPT !.lines[first + row][col] = cell]
  OBVIOUS
<1>6. PICK lines : lines = [p.lines EXCEPT ![first + row] = [p.lines[first + row] EXCEPT ![col] = cell]]
  OBVIOUS
<1>7. p2 = [p EXCEPT !.lines = lines]
  BY <1>5, <1>6
<1>8. p.lines \in Seq(Line) /\ first + row \in 1 .. n
  BY <1>1, <1>2, <1>3 DEF PageState
<1>9. p.lines[first + row] \in Line
  BY <1>3, <1>8
<1>10. [p.lines[first + row] EXCEPT ![col] = cell] \in Line
  BY <1>4, <1>9, LinesAre
<1>11. /\ lines \in Seq(Line) /\ Len(lines) = n
       /\ lines[first + row] = [p.lines[first + row] EXCEPT ![col] = cell]
       /\ \A i \in 1 .. n : i # first + row => lines[i] = p.lines[i]
  BY <1>3, <1>6, <1>8, <1>10
<1>12. /\ p2 \in PageState /\ p2.lines = lines /\ p2.line = p.line /\ p2.col = p.col
       /\ p2.color = p.color
  BY <1>2, <1>7, <1>11 DEF PageState
<1>13. FirstShown(p2) = first
  BY <1>3, <1>11, <1>12 DEF FirstShown
<1>14. s.cells \in [Row -> Line] /\ s.present \in BOOLEAN
  BY <1>2 DEF ScreenState
<1>15. [s.cells[row] EXCEPT ![col] = cell] \in Line
  BY <1>4, <1>14, LinesAre
<1>16. PICK cells : cells = IF s.present
                            THEN [s.cells EXCEPT ![row] = [s.cells[row] EXCEPT ![col] = cell]]
                            ELSE s.cells
  OBVIOUS
<1>17. cells \in [Row -> Line]
  BY <1>14, <1>15, <1>16
<1>18. s2 = [s EXCEPT !.cells = cells]
  <2>1. CASE s.present
    BY <1>5, <1>16, <2>1 DEF Store
  <2>2. CASE ~s.present
    BY <1>2, <1>5, <1>16, <2>2 DEF Store, ScreenState
  <2>3. QED  BY <2>1, <2>2
<1>19. /\ s2 \in ScreenState /\ s2.present = s.present /\ s2.detected = s.detected
       /\ s2.cells = cells /\ s2.color = s.color /\ s2.col = s.col /\ s2.row = s.row
  BY <1>2, <1>17, <1>18 DEF ScreenState
<1>20. ASSUME s.present, NEW r \in Row PROVE cells[r] = lines[first + r]
  <2>1. cells = [s.cells EXCEPT ![row] = [s.cells[row] EXCEPT ![col] = cell]]
    BY <1>16, <1>20
  <2>2. s.cells[r] = p.lines[first + r] /\ s.cells[row] = p.lines[first + row]
        /\ first + r \in 1 .. n
    BY <1>1, <1>2, <1>3, <1>20
  <2>3. CASE r = row
    BY <1>11, <1>14, <2>1, <2>2, <2>3
  <2>4. CASE r # row
    <3>1. first + r # first + row
      BY <2>4 DEF Row
    <3>2. QED  BY <1>11, <1>14, <2>1, <2>2, <2>4, <3>1
  <2>5. QED  BY <2>3, <2>4
<1>21. Len(p2.lines) >= VGA_ROWS /\ p2.line = FirstShown(p2) + s2.row
  BY <1>2, <1>3, <1>11, <1>12, <1>13, <1>19
<1>22. Agree(s2, p2)
  BY <1>2, <1>12, <1>13, <1>19, <1>20, <1>21 DEF Agree
<1>23. QED  BY <1>3, <1>4, <1>5, <1>22

(* A character that is not a control character.                             *)
LEMMA PrintedAgrees ==
    ASSUME NEW s, NEW p, Agree(s, p), NEW c \in Char, NEW here,
           here = IF p.col < VGA_COLS THEN p ELSE EndLine(p)
    PROVE  Agree(Printed(s, c),
                 [here EXCEPT !.lines[here.line][here.col] = <<c, here.color>>, !.col = @ + 1])
<1>1. s \in ScreenState /\ p \in PageState /\ s.col = p.col
  BY DEF Agree
<1>2. VGA_COLS \in Nat \ {0} /\ p.col \in 0 .. VGA_COLS
  BY <1>1, Sizes DEF PageState
<1>3. PICK t : t = IF s.col >= VGA_COLS THEN vga_newline_internal(s) ELSE s
  OBVIOUS
<1>4. Agree(t, here) /\ here.col \in Col
  <2>1. CASE p.col < VGA_COLS
    <3>1. t = s /\ here = p
      BY <1>1, <1>2, <1>3, <2>1
    <3>2. QED  BY <1>2, <2>1, <3>1 DEF Col
  <2>2. CASE ~(p.col < VGA_COLS)
    <3>1. t = vga_newline_internal(s) /\ here = EndLine(p)
      BY <1>1, <1>2, <1>3, <2>2
    <3>2. QED  BY <3>1, NewlineAgrees, Sizes
  <2>3. QED  BY <2>1, <2>2
<1>5. /\ t \in ScreenState /\ here \in PageState /\ t.col = here.col /\ t.color = here.color
      /\ here.line = FirstShown(here) + t.row
  BY <1>4 DEF Agree
<1>6. t.row \in Row /\ t.col \in Col /\ t.color \in Color
  BY <1>4, <1>5 DEF ScreenState
<1>7. PICK t2, here2 : /\ t2 = Store(t, t.row, t.col, <<c, t.color>>)
                       /\ here2 = [here EXCEPT !.lines[here.line][here.col] = <<c, here.color>>]
  OBVIOUS
<1>8. Agree(t2, here2)
  <2>1. Agree(t2, [here EXCEPT !.lines[FirstShown(here) + t.row][t.col] = <<c, t.color>>])
    BY <1>4, <1>6, <1>7, CellAgrees
  <2>2. [here EXCEPT !.lines[FirstShown(here) + t.row][t.col] = <<c, t.color>>] = here2
    BY <1>5, <1>7
  <2>3. QED  BY <2>1, <2>2
<1>9. here2.col = here.col /\ t2.col = here.col
  <2>1. here2.col = here.col
    BY <1>5, <1>7 DEF PageState
  <2>2. QED  BY <1>8, <2>1 DEF Agree
<1>10. here.col + 1 \in 0 .. VGA_COLS
  BY <1>2, <1>4 DEF Col
<1>11. Agree([t2 EXCEPT !.col = here.col + 1], [here2 EXCEPT !.col = here.col + 1])
  BY <1>8, <1>10, ColumnAgrees
<1>12. Printed(s, c) = [t2 EXCEPT !.col = here.col + 1]
  <2>1. is_valid_position(t.row, t.col)
    BY <1>6 DEF is_valid_position
  <2>2. Printed(s, c) = [Store(t, t.row, t.col, Cell(c, t.color)) EXCEPT !.col = @ + 1]
    BY <1>3, <2>1 DEF Printed
  <2>3. QED  BY <1>7, <1>9, <2>2 DEF Cell
<1>13. [here EXCEPT !.lines[here.line][here.col] = <<c, here.color>>, !.col = @ + 1]
           = [here2 EXCEPT !.col = here.col + 1]
  BY <1>5, <1>7 DEF PageState
<1>14. QED  BY <1>11, <1>12, <1>13

(* A tab.                                                                   *)
LEMMA TabAgrees ==
    ASSUME NEW s, NEW p, Agree(s, p), NEW next,
           next = CHOOSE c \in p.col + 1 .. p.col + TabStop : c % TabStop = 0
    PROVE  Agree(Tabbed(s), IF next < VGA_COLS THEN [p EXCEPT !.col = next] ELSE EndLine(p))
<1>1. s \in ScreenState /\ p \in PageState /\ s.col = p.col
  BY DEF Agree
<1>2. VGA_COLS \in Nat \ {0} /\ TabStop \in Nat \ {0} /\ p.col \in Nat
  BY <1>1, Sizes DEF PageState
<1>3. next = ((s.col + TabStop) \div TabStop) * TabStop
  BY <1>1, <1>2, TabIs
<1>4. next \in Nat
  <2>1. PICK k \in Nat \ {0}, col \in Nat : k = TabStop /\ col = s.col
    BY <1>1, <1>2
  <2>2. PICK q \in Nat : q = (s.col + k) \div k
    <3>1. (col + k) \div k \in Nat
      BY ONLY k \in Nat \ {0}, col \in Nat
    <3>2. QED  BY <2>1, <3>1
  <2>3. q * k \in Nat
    BY <2>2
  <2>4. next = q * k
    BY ONLY <1>3, <2>1, <2>2, Zenon
  <2>5. QED  BY ONLY <2>3, <2>4
<1>5. PICK t : t = [s EXCEPT !.col = next]
  OBVIOUS
<1>6. t.col = next
  BY <1>1, <1>5 DEF ScreenState
<1>7. Tabbed(s) = IF t.col >= VGA_COLS THEN vga_newline_internal(t) ELSE t
  BY <1>3, <1>5 DEF Tabbed
<1>8. CASE next < VGA_COLS
  <2>1. Tabbed(s) = t
    BY <1>2, <1>4, <1>6, <1>7, <1>8
  <2>2. next \in 0 .. VGA_COLS
    BY <1>2, <1>4, <1>8
  <2>3. Agree(t, [p EXCEPT !.col = next])
    BY ONLY Agree(s, p), <1>5, <2>2, ColumnAgrees
  <2>4. QED  BY ONLY <1>8, <2>1, <2>3, Zenon
<1>9. CASE ~(next < VGA_COLS)
  <2>1. Tabbed(s) = vga_newline_internal(t)
    BY <1>2, <1>4, <1>6, <1>7, <1>9
  <2>2. vga_newline_internal(t) = vga_newline_internal(s)
    <3>1. /\ t.row = s.row /\ t.present = s.present /\ t.cells = s.cells /\ t.color = s.color
          /\ [t EXCEPT !.col = 0] = [s EXCEPT !.col = 0]
      BY <1>1, <1>5 DEF ScreenState
    <3>2. CASE s.row < VGA_ROWS - 1
      <4>1. [t EXCEPT !.col = 0, !.row = s.row + 1] = [s EXCEPT !.col = 0, !.row = s.row + 1]
        BY <1>1, <1>5 DEF ScreenState
      <4>2. QED  BY <3>1, <3>2, <4>1 DEF vga_newline_internal
    <3>3. CASE ~(s.row < VGA_ROWS - 1)
      <4>1. PICK cells : cells = IF s.present THEN Scrolled(s.cells) ELSE s.cells
        OBVIOUS
      <4>2. [t EXCEPT !.col = 0, !.cells = cells] = [s EXCEPT !.col = 0, !.cells = cells]
        BY <1>1, <1>5 DEF ScreenState
      <4>3. vga_newline_internal(t) =
                vga_clear_row_internal([t EXCEPT !.col = 0, !.cells = cells], VGA_ROWS - 1)
        BY <3>1, <3>3, <4>1 DEF vga_newline_internal
      <4>4. vga_newline_internal(s) =
                vga_clear_row_internal([s EXCEPT !.col = 0, !.cells = cells], VGA_ROWS - 1)
        BY <3>3, <4>1 DEF vga_newline_internal
      <4>5. QED  BY <4>2, <4>3, <4>4
    <3>4. QED  BY <3>2, <3>3
  <2>3. QED  BY <1>9, <2>1, <2>2, NewlineAgrees
<1>10. QED  BY <1>8, <1>9

(* Any character.                                                           *)
LEMMA PutOneAgrees ==
    ASSUME NEW s, NEW p, Agree(s, p), NEW c \in Char
    PROVE  Agree(PutOne(s, c), TypeCharacter(p, c))
<1> DEFINE next == CHOOSE n \in p.col + 1 .. p.col + TabStop : n % TabStop = 0
           here == IF p.col < VGA_COLS THEN p ELSE EndLine(p)
<1>2. TypeCharacter(p, c) =
          CASE c = LF -> EndLine(p)
            [] c = CR -> [p EXCEPT !.col = 0]
            [] c = TAB -> IF next < VGA_COLS THEN [p EXCEPT !.col = next] ELSE EndLine(p)
            [] OTHER -> [here EXCEPT !.lines[here.line][here.col] = <<c, here.color>>, !.col = @ + 1]
  BY DEF TypeCharacter
<1> HIDE DEF next, here
<1>3. PutOne(s, c) =
          CASE c = LF -> vga_newline_internal(s)
            [] c = CR -> [s EXCEPT !.col = 0]
            [] c = TAB -> Tabbed(s)
            [] OTHER -> Printed(s, c)
  BY DEF PutOne
<1>4. LF # CR /\ LF # TAB /\ CR # TAB
  BY DEF LF, CR, TAB
<1>5. CASE c = LF
  <2>1. TypeCharacter(p, c) = EndLine(p) /\ PutOne(s, c) = vga_newline_internal(s)
    BY <1>2, <1>3, <1>4, <1>5, Zenon
  <2>2. QED  BY <2>1, NewlineAgrees
<1>6. CASE c = CR
  <2>1. TypeCharacter(p, c) = [p EXCEPT !.col = 0] /\ PutOne(s, c) = [s EXCEPT !.col = 0]
    BY <1>2, <1>3, <1>4, <1>6, Zenon
  <2>2. 0 \in 0 .. VGA_COLS
    BY Sizes
  <2>3. QED  BY <2>1, <2>2, ColumnAgrees
<1>7. CASE c = TAB
  <2>1. /\ TypeCharacter(p, c) = IF next < VGA_COLS THEN [p EXCEPT !.col = next] ELSE EndLine(p)
        /\ PutOne(s, c) = Tabbed(s)
    BY <1>2, <1>3, <1>4, <1>7, Zenon
  <2>2. next = CHOOSE n \in p.col + 1 .. p.col + TabStop : n % TabStop = 0
    BY DEF next
  <2>3. Agree(Tabbed(s), IF next < VGA_COLS THEN [p EXCEPT !.col = next] ELSE EndLine(p))
    BY ONLY Agree(s, p), <2>2, TabAgrees, Zenon
  <2>4. QED  BY ONLY <2>1, <2>3, Zenon
<1>8. CASE c # LF /\ c # CR /\ c # TAB
  <2>1. /\ TypeCharacter(p, c) =
               [here EXCEPT !.lines[here.line][here.col] = <<c, here.color>>, !.col = @ + 1]
        /\ PutOne(s, c) = Printed(s, c)
    BY <1>2, <1>3, <1>8, Zenon
  <2>2. here = IF p.col < VGA_COLS THEN p ELSE EndLine(p)
    BY DEF here
  <2>3. Agree(Printed(s, c),
              [here EXCEPT !.lines[here.line][here.col] = <<c, here.color>>, !.col = @ + 1])
    BY ONLY Agree(s, p), c \in Char, <2>2, PrintedAgrees, Zenon
  <2>4. QED  BY ONLY <2>1, <2>3, Zenon
<1>9. QED  BY <1>5, <1>6, <1>7, <1>8

(* All characters of a text, on the screen and on the page.                 *)
PutAll(s, text) == FoldLeft(PutOne, s, text)
TypeAll(p, text) == FoldLeft(TypeCharacter, p, text)

(* The screen after each character of a text.                               *)
LEMMA ScreenSteps ==
    ASSUME NEW x, NEW y, Agree(x, y), NEW text \in Seq(Char)
    PROVE  \E h : /\ h[0] = x
                  /\ \A k \in 1 .. Len(text) : h[k] = PutOne(h[k - 1], text[k])
                  /\ PutAll(x, text) = h[Len(text)]
<1>1. PICK n \in Nat : n = Len(text) /\ DOMAIN text = 1 .. n /\ \A k \in 1 .. n : text[k] \in Char
  OBVIOUS
<1> DEFINE T == {z \in ScreenState : \E other : Agree(z, other)}
           Is(f) == f = [s \in SUBSET (1 .. n) |->
                             IF s = {} THEN x ELSE PutOne(f[s \ {Max(s)}], text[Max(s)])]
           G == [q \in (1 .. n) \X T |-> PutOne(q[2], text[q[1]])]
<1>2. x \in T
  BY DEF Agree
<1>3. ASSUME NEW z \in T, NEW k \in 1 .. n PROVE PutOne(z, text[k]) \in T
  <2>1. PICK other : Agree(z, other)
    BY <1>3
  <2>2. text[k] \in Char
    BY <1>1
  <2>3. PICK after : Agree(PutOne(z, text[k]), after)
    BY <2>1, <2>2, PutOneAgrees
  <2>4. PutOne(z, text[k]) \in ScreenState
    BY ONLY <2>3 DEF Agree
  <2>5. QED  BY <2>3, <2>4
<1>4. G \in [(1 .. n) \X T -> T]
  <2> HIDE DEF T
  <2>1. QED  BY <1>3
<1>5. PICK g : IsFold(g, n, T, x, G)
  <2> HIDE DEF G, T
  <2>1. QED  BY <1>2, <1>4, FoldExists
<1>6. Is(g)
  <2> HIDE DEF T
  <2>1. g \in [SUBSET (1 .. n) -> T]
    BY <1>5 DEF IsFold
  <2>2. ASSUME NEW s \in SUBSET (1 .. n)
        PROVE  g[s] = IF s = {} THEN x ELSE PutOne(g[s \ {Max(s)}], text[Max(s)])
    <3>1. g[s] = IF s = {} THEN x ELSE G[<<Max(s), g[s \ {Max(s)}]>>]
      BY <1>5 DEF IsFold
    <3>2. CASE s = {}
      BY <3>1, <3>2
    <3>3. CASE s # {}
      <4>1. Max(s) \in 1 .. n
        <5>1. Max(s) \in s
          BY <3>3, MaxWithin
        <5>2. QED  BY <5>1
      <4>2. g[s \ {Max(s)}] \in T
        BY <2>1
      <4>3. G[<<Max(s), g[s \ {Max(s)}]>>] = PutOne(g[s \ {Max(s)}], text[Max(s)])
        BY <4>1, <4>2
      <4> HIDE DEF G
      <4>4. QED  BY <3>1, <3>3, <4>3
    <3>4. QED  BY <3>2, <3>3
  <2>3. g = [s \in SUBSET (1 .. n) |-> g[s]]
    BY <2>1
  <2>4. QED  BY <2>2, <2>3
<1>7. PICK d : d = CHOOSE f : Is(f)
  OBVIOUS
<1>8. Is(d)
  <2> HIDE DEF Is
  <2>1. QED  BY <1>6, <1>7
<1>9. PutAll(x, text) = d[1 .. n]
  BY <1>1, <1>7, Zenon DEF PutAll, FoldLeft, MapThenFoldSet
<1>10. d[1 .. 0] = x
  <2>1. 1 .. 0 = {} /\ {} \in SUBSET (1 .. n)
    OBVIOUS
  <2>2. QED  BY <1>8, <2>1
<1>11. ASSUME NEW k \in 1 .. n PROVE d[1 .. k] = PutOne(d[1 .. k - 1], text[k])
  <2>1. 1 .. k # {} /\ Max(1 .. k) = k /\ (1 .. k) \ {k} = 1 .. k - 1
    BY LastOfInterval
  <2>2. 1 .. k \in SUBSET (1 .. n)
    OBVIOUS
  <2>3. d[1 .. k] = IF 1 .. k = {} THEN x
                    ELSE PutOne(d[(1 .. k) \ {Max(1 .. k)}], text[Max(1 .. k)])
    BY <1>8, <2>2
  <2>4. QED  BY <2>1, <2>3
<1>12. PICK h : h = [k \in 0 .. n |-> d[1 .. k]]
  OBVIOUS
<1>13. h[0] = x /\ h[n] = d[1 .. n]
  BY <1>10, <1>12
<1>14. ASSUME NEW k \in 1 .. n PROVE h[k] = PutOne(h[k - 1], text[k])
  <2>1. k \in 0 .. n /\ k - 1 \in 0 .. n
    OBVIOUS
  <2>2. h[k] = d[1 .. k] /\ h[k - 1] = d[1 .. k - 1]
    BY <1>12, <2>1
  <2>3. QED  BY <1>11, <2>2
<1>15. QED  BY <1>1, <1>9, <1>13, <1>14

(* And the page.                                                            *)
LEMMA PageSteps ==
    ASSUME NEW x, NEW y, Agree(y, x), NEW text \in Seq(Char)
    PROVE  \E h : /\ h[0] = x
                  /\ \A k \in 1 .. Len(text) : h[k] = TypeCharacter(h[k - 1], text[k])
                  /\ TypeAll(x, text) = h[Len(text)]
<1>1. PICK n \in Nat : n = Len(text) /\ DOMAIN text = 1 .. n /\ \A k \in 1 .. n : text[k] \in Char
  OBVIOUS
<1> DEFINE T == {z \in PageState : \E other : Agree(other, z)}
           Is(f) == f = [s \in SUBSET (1 .. n) |->
                             IF s = {} THEN x ELSE TypeCharacter(f[s \ {Max(s)}], text[Max(s)])]
           G == [q \in (1 .. n) \X T |-> TypeCharacter(q[2], text[q[1]])]
<1>2. x \in T
  BY DEF Agree
<1>3. ASSUME NEW z \in T, NEW k \in 1 .. n PROVE TypeCharacter(z, text[k]) \in T
  <2>1. PICK other : Agree(other, z)
    BY <1>3
  <2>2. text[k] \in Char
    BY <1>1
  <2>3. PICK after : Agree(after, TypeCharacter(z, text[k]))
    BY <2>1, <2>2, PutOneAgrees
  <2>4. TypeCharacter(z, text[k]) \in PageState
    BY ONLY <2>3 DEF Agree
  <2>5. QED  BY <2>3, <2>4
<1>4. G \in [(1 .. n) \X T -> T]
  <2> HIDE DEF T
  <2>1. QED  BY <1>3
<1>5. PICK g : IsFold(g, n, T, x, G)
  <2> HIDE DEF G, T
  <2>1. QED  BY <1>2, <1>4, FoldExists
<1>6. Is(g)
  <2> HIDE DEF T
  <2>1. g \in [SUBSET (1 .. n) -> T]
    BY <1>5 DEF IsFold
  <2>2. ASSUME NEW s \in SUBSET (1 .. n)
        PROVE  g[s] = IF s = {} THEN x ELSE TypeCharacter(g[s \ {Max(s)}], text[Max(s)])
    <3>1. g[s] = IF s = {} THEN x ELSE G[<<Max(s), g[s \ {Max(s)}]>>]
      BY <1>5 DEF IsFold
    <3>2. CASE s = {}
      BY <3>1, <3>2
    <3>3. CASE s # {}
      <4>1. Max(s) \in 1 .. n
        <5>1. Max(s) \in s
          BY <3>3, MaxWithin
        <5>2. QED  BY <5>1
      <4>2. g[s \ {Max(s)}] \in T
        BY <2>1
      <4>3. G[<<Max(s), g[s \ {Max(s)}]>>] = TypeCharacter(g[s \ {Max(s)}], text[Max(s)])
        BY <4>1, <4>2
      <4> HIDE DEF G
      <4>4. QED  BY <3>1, <3>3, <4>3
    <3>4. QED  BY <3>2, <3>3
  <2>3. g = [s \in SUBSET (1 .. n) |-> g[s]]
    BY <2>1
  <2>4. QED  BY <2>2, <2>3
<1>7. PICK d : d = CHOOSE f : Is(f)
  OBVIOUS
<1>8. Is(d)
  <2> HIDE DEF Is
  <2>1. QED  BY <1>6, <1>7
<1>9. TypeAll(x, text) = d[1 .. n]
  BY <1>1, <1>7, Zenon DEF TypeAll, FoldLeft, MapThenFoldSet
<1>10. d[1 .. 0] = x
  <2>1. 1 .. 0 = {} /\ {} \in SUBSET (1 .. n)
    OBVIOUS
  <2>2. QED  BY <1>8, <2>1
<1>11. ASSUME NEW k \in 1 .. n PROVE d[1 .. k] = TypeCharacter(d[1 .. k - 1], text[k])
  <2>1. 1 .. k # {} /\ Max(1 .. k) = k /\ (1 .. k) \ {k} = 1 .. k - 1
    BY LastOfInterval
  <2>2. 1 .. k \in SUBSET (1 .. n)
    OBVIOUS
  <2>3. d[1 .. k] = IF 1 .. k = {} THEN x
                    ELSE TypeCharacter(d[(1 .. k) \ {Max(1 .. k)}], text[Max(1 .. k)])
    BY <1>8, <2>2
  <2>4. QED  BY <2>1, <2>3
<1>12. PICK h : h = [k \in 0 .. n |-> d[1 .. k]]
  OBVIOUS
<1>13. h[0] = x /\ h[n] = d[1 .. n]
  BY <1>10, <1>12
<1>14. ASSUME NEW k \in 1 .. n PROVE h[k] = TypeCharacter(h[k - 1], text[k])
  <2>1. k \in 0 .. n /\ k - 1 \in 0 .. n
    OBVIOUS
  <2>2. h[k] = d[1 .. k] /\ h[k - 1] = d[1 .. k - 1]
    BY <1>12, <2>1
  <2>3. QED  BY <1>11, <2>2
<1>15. QED  BY <1>1, <1>9, <1>13, <1>14

(* A text that is put on the screen is what the page is asked for.          *)
LEMMA TextAgrees ==
    ASSUME NEW s, NEW p, Agree(s, p), NEW text \in Seq(Char)
    PROVE  Agree(PutAll(s, text), TypeAll(p, text))
<1>1. PICK n \in Nat : n = Len(text) /\ \A k \in 1 .. n : text[k] \in Char
  OBVIOUS
<1>2. PICK h : /\ h[0] = s
               /\ \A k \in 1 .. n : h[k] = PutOne(h[k - 1], text[k])
               /\ PutAll(s, text) = h[n]
  <2>1. \E h : /\ h[0] = s
               /\ \A k \in 1 .. Len(text) : h[k] = PutOne(h[k - 1], text[k])
               /\ PutAll(s, text) = h[Len(text)]
    BY ONLY Agree(s, p), text \in Seq(Char), ScreenSteps
  <2>2. QED  BY ONLY <1>1, <2>1
<1>3. PICK g : /\ g[0] = p
               /\ \A k \in 1 .. n : g[k] = TypeCharacter(g[k - 1], text[k])
               /\ TypeAll(p, text) = g[n]
  <2>1. \E g : /\ g[0] = p
               /\ \A k \in 1 .. Len(text) : g[k] = TypeCharacter(g[k - 1], text[k])
               /\ TypeAll(p, text) = g[Len(text)]
    BY ONLY Agree(s, p), text \in Seq(Char), PageSteps
  <2>2. QED  BY ONLY <1>1, <2>1
<1> DEFINE Q == {k \in Nat : k <= n => Agree(h[k], g[k])}
<1>4. 0 \in Q
  BY <1>2, <1>3
<1>5. ASSUME NEW k \in Nat, k \in Q PROVE k + 1 \in Q
  <2>1. SUFFICES ASSUME k + 1 <= n PROVE Agree(h[k + 1], g[k + 1])
    OBVIOUS
  <2>2. PICK i \in 1 .. n : i = k + 1
    BY <2>1
  <2>3. i - 1 = k /\ Agree(h[k], g[k]) /\ text[i] \in Char
    BY <1>1, <1>5, <2>1, <2>2
  <2>4. Agree(PutOne(h[k], text[i]), TypeCharacter(g[k], text[i]))
    BY <2>3, PutOneAgrees
  <2>5. h[i] = PutOne(h[k], text[i]) /\ g[i] = TypeCharacter(g[k], text[i])
    BY <1>2, <1>3, <2>3
  <2>6. QED  BY <2>2, <2>4, <2>5
<1>6. n \in Q
  <2> HIDE DEF Q
  <2>1. QED  BY <1>4, <1>5, Induction
<1>7. Agree(h[n], g[n])
  BY <1>6
<1>8. QED  BY <1>2, <1>3, <1>7

(* A driver and a page that keep what is not said to change.                *)
LEMMA StillAgree ==
    ASSUME NEW s, NEW p, Agree(s, p), NEW s2 \in ScreenState, NEW p2 \in PageState,
           s2.present = s.present, s2.detected = s.detected,
           Len(p2.lines) = Len(p.lines), p2.line = FirstShown(p) + s2.row,
           s2.col = p2.col, s2.color = p2.color,
           s.present => \A r \in Row : s2.cells[r] = p2.lines[FirstShown(p) + r]
    PROVE  Agree(s2, p2)
<1>1. FirstShown(p2) = FirstShown(p)
  BY DEF FirstShown
<1>2. QED  BY <1>1 DEF Agree

(* A whole line.                                                            *)
LEMMA LineAgrees ==
    ASSUME NEW s, NEW p, Agree(s, p), NEW row \in Row, NEW line \in Line
    PROVE  Agree(IF s.present THEN [s EXCEPT !.cells[row] = line] ELSE s,
                 [p EXCEPT !.lines[FirstShown(p) + row] = line])
<1>1. /\ Len(p.lines) \in Nat /\ FirstShown(p) \in Nat \ {0}
      /\ \A r \in Row : FirstShown(p) + r \in 1 .. Len(p.lines)
  BY Places
<1>2. /\ s \in ScreenState /\ p \in PageState
      /\ p.line = FirstShown(p) + s.row
      /\ s.col = p.col /\ s.color = p.color
      /\ s.present => \A r \in Row : s.cells[r] = p.lines[FirstShown(p) + r]
  BY DEF Agree
<1>3. PICK n \in Nat, first \in Nat \ {0} : n = Len(p.lines) /\ first = FirstShown(p)
  BY <1>1
<1>4. PICK s2, p2 : /\ s2 = IF s.present THEN [s EXCEPT !.cells[row] = line] ELSE s
                    /\ p2 = [p EXCEPT !.lines[first + row] = line]
  OBVIOUS
<1>5. PICK lines : lines = [p.lines EXCEPT ![first + row] = line]
  OBVIOUS
<1>6. p.lines \in Seq(Line) /\ first + row \in 1 .. n
  BY <1>1, <1>2, <1>3 DEF PageState
<1>7. /\ lines \in Seq(Line) /\ Len(lines) = n /\ lines[first + row] = line
      /\ \A i \in 1 .. n : i # first + row => lines[i] = p.lines[i]
  BY <1>3, <1>5, <1>6
<1>8. /\ p2 \in PageState /\ p2.lines = lines /\ p2.line = p.line /\ p2.col = p.col
      /\ p2.color = p.color
  BY <1>2, <1>4, <1>5, <1>7 DEF PageState
<1>9. s.cells \in [Row -> Line] /\ s.present \in BOOLEAN
  BY <1>2 DEF ScreenState
<1>10. PICK cells : cells = IF s.present THEN [s.cells EXCEPT ![row] = line] ELSE s.cells
  OBVIOUS
<1>11. cells \in [Row -> Line]
  BY <1>9, <1>10
<1>12. /\ s2 \in ScreenState /\ s2.present = s.present /\ s2.detected = s.detected
       /\ s2.cells = cells /\ s2.color = s.color /\ s2.col = s.col /\ s2.row = s.row
  <2>1. s2 = [s EXCEPT !.cells = cells]
    <3>1. CASE s.present
      BY <1>4, <1>10, <3>1
    <3>2. CASE ~s.present
      BY <1>2, <1>4, <1>10, <3>2 DEF ScreenState
    <3>3. QED  BY <3>1, <3>2
  <2>2. QED  BY <1>2, <1>11, <2>1 DEF ScreenState
<1>13. ASSUME s.present, NEW r \in Row PROVE cells[r] = lines[first + r]
  <2>1. cells = [s.cells EXCEPT ![row] = line] /\ s.cells[r] = p.lines[first + r]
        /\ first + r \in 1 .. n
    BY <1>1, <1>2, <1>3, <1>10, <1>13
  <2>2. CASE r = row
    BY <1>7, <1>9, <2>1, <2>2
  <2>3. CASE r # row
    <3>1. first + r # first + row
      BY <2>3 DEF Row
    <3>2. QED  BY <1>7, <1>9, <2>1, <2>3, <3>1
  <2>4. QED  BY <2>2, <2>3
<1>14. Agree(s2, p2)
  BY <1>2, <1>3, <1>7, <1>8, <1>12, <1>13, StillAgree
<1>15. QED  BY <1>3, <1>4, <1>14

(* A screen that is put in order, and its cursor set.                       *)
LEMMA ClearAgrees ==
    ASSUME NEW s, NEW p, Agree(s, p)
    PROVE  Agree(vga_clear(s), IF s.initialized THEN WipePage(p) ELSE p)
<1>1. /\ Len(p.lines) \in Nat /\ FirstShown(p) \in Nat \ {0}
      /\ \A r \in Row : FirstShown(p) + r \in 1 .. Len(p.lines)
  BY Places
<1>2. /\ s \in ScreenState /\ p \in PageState /\ s.color = p.color
  BY DEF Agree
<1>3. PICK n \in Nat, first \in Nat \ {0} : n = Len(p.lines) /\ first = FirstShown(p)
  BY <1>1
<1>4. 0 \in Row /\ 0 \in Col /\ 0 \in 0 .. VGA_COLS /\ VGA_COLS \in Nat
  BY Sizes
<1>5. CASE ~s.initialized
  BY <1>5 DEF vga_clear
<1>6. CASE s.initialized
  <2>1. PICK blank : blank = [c \in Col |-> <<" ", s.color>>]
    OBVIOUS
  <2>2. blank \in Line /\ s.cells \in [Row -> Line] /\ s.color \in Color
    BY <1>2, <2>1, LinesAre DEF ScreenState
  <2>3. PICK cells : cells = [r \in Row |-> IF s.present THEN blank ELSE s.cells[r]]
    OBVIOUS
  <2>4. cells \in [Row -> Line]
    BY <2>2, <2>3
  <2>5. ASSUME NEW r \in Row
        PROVE  vga_clear_row_internal(s, r).cells[r] = IF s.present THEN blank ELSE s.cells[r]
    <3>1. is_valid_position(r, 0)
      BY <1>4 DEF is_valid_position
    <3>2. CASE s.present
      <4>1. vga_clear_row_internal(s, r) = [s EXCEPT !.cells[r] = blank]
        BY <2>1, <3>1, <3>2 DEF vga_clear_row_internal, Cell
      <4>2. QED  BY <1>2, <2>2, <3>2, <4>1 DEF ScreenState
    <3>3. CASE ~s.present
      BY <3>3 DEF vga_clear_row_internal
    <3>4. QED  BY <3>2, <3>3
  <2>6. PICK s2 : s2 = vga_clear(s)
    OBVIOUS
  <2>7. s2 = [s EXCEPT !.cells = cells, !.col = 0, !.row = 0]
    <3>1. [r \in Row |-> vga_clear_row_internal(s, r).cells[r]] = cells
      BY <2>3, <2>5
    <3>2. s2 = [s EXCEPT !.cells = [r \in Row |-> vga_clear_row_internal(s, r).cells[r]],
                         !.col = 0, !.row = 0]
      BY <1>6, <2>6 DEF vga_clear
    <3>3. QED  BY <3>1, <3>2
  <2>8. /\ s2 \in ScreenState /\ s2.present = s.present /\ s2.detected = s.detected
        /\ s2.cells = cells /\ s2.color = s.color /\ s2.col = 0 /\ s2.row = 0
    BY <1>2, <1>4, <2>4, <2>7 DEF ScreenState
  <2>9. PICK lines : lines = [i \in 1 .. n |-> IF i < first THEN p.lines[i] ELSE blank]
    OBVIOUS
  <2>10. p.lines \in Seq(Line) /\ DOMAIN p.lines = 1 .. n
    BY <1>2, <1>3 DEF PageState
  <2>11. lines \in Seq(Line) /\ Len(lines) = n
    <3>1. lines \in [1 .. n -> Line]
      BY <1>3, <2>2, <2>9, <2>10
    <3>2. QED  BY <3>1
  <2>12. PICK p2 : p2 = WipePage(p)
    OBVIOUS
  <2>13. p2 = [p EXCEPT !.lines = lines, !.line = first, !.col = 0]
    <3>1. BlankLine(p) = blank
      BY <1>2, <2>1 DEF BlankLine
    <3>2. [i \in DOMAIN p.lines |-> IF i < FirstShown(p) THEN p.lines[i] ELSE BlankLine(p)] = lines
      BY <1>3, <2>9, <2>10, <3>1
    <3>3. QED  BY <1>3, <2>12, <3>2 DEF WipePage
  <2>14. /\ p2 \in PageState /\ p2.lines = lines /\ p2.line = first /\ p2.col = 0
         /\ p2.color = p.color
    BY <1>2, <1>3, <1>4, <2>11, <2>13 DEF PageState
  <2>15. ASSUME s.present, NEW r \in Row PROVE cells[r] = lines[first + r]
    <3>1. first + r \in 1 .. n /\ ~(first + r < first)
      BY <1>1, <1>3 DEF Row
    <3>2. QED  BY <2>3, <2>9, <2>15, <3>1
  <2>16. Agree(s2, p2)
    BY <1>2, <1>3, <2>8, <2>11, <2>14, <2>15, StillAgree
  <2>17. QED  BY <1>6, <2>6, <2>12, <2>16
<1>7. QED  BY <1>5, <1>6

(* A row, if there is one.                                                  *)
LEMMA ClearRowAgrees ==
    ASSUME NEW s, NEW p, Agree(s, p), NEW row \in Nat
    PROVE  Agree(vga_clear_row(s, row),
                 IF s.initialized /\ row \in Row THEN WipeLine(p, row) ELSE p)
<1>1. s \in ScreenState /\ s.color = p.color /\ s.color \in Color
  BY DEF Agree, ScreenState
<1>2. 0 \in Col
  BY Sizes
<1>3. PICK blank : blank = [c \in Col |-> <<" ", s.color>>]
  OBVIOUS
<1>4. blank \in Line
  BY <1>1, <1>3, LinesAre
<1>5. CASE s.initialized /\ row \in Row
  <2>1. vga_clear_row(s, row) = vga_clear_row_internal(s, row)
    BY <1>5 DEF vga_clear_row
  <2>2. is_valid_position(row, 0)
    BY <1>2, <1>5 DEF is_valid_position
  <2>3. vga_clear_row_internal(s, row) = IF s.present THEN [s EXCEPT !.cells[row] = blank] ELSE s
    BY <1>3, <2>2 DEF vga_clear_row_internal, Cell
  <2>4. WipeLine(p, row) = [p EXCEPT !.lines[FirstShown(p) + row] = blank]
    BY <1>1, <1>3 DEF WipeLine, BlankLine
  <2>5. Agree(IF s.present THEN [s EXCEPT !.cells[row] = blank] ELSE s,
              [p EXCEPT !.lines[FirstShown(p) + row] = blank])
    BY <1>4, <1>5, LineAgrees
  <2>6. QED  BY ONLY <1>5, <2>1, <2>3, <2>4, <2>5, Zenon
<1>6. CASE ~(s.initialized /\ row \in Row)
  <2>1. vga_clear_row(s, row) = s
    BY <1>6 DEF vga_clear_row, vga_clear_row_internal, is_valid_position
  <2>2. QED  BY <1>6, <2>1
<1>7. QED  BY <1>5, <1>6

(* The colour, if it is one.                                                *)
LEMMA SetColorAgrees ==
    ASSUME NEW s, NEW p, Agree(s, p), NEW fg \in Nat, NEW bg \in Nat
    PROVE  Agree(vga_set_color(s, fg, bg),
                 [p EXCEPT !.color = IF <<fg, bg>> \in Color THEN <<fg, bg>> ELSE WhiteOnBlack])
<1>1. s \in ScreenState /\ p \in PageState
  BY DEF Agree
<1>2. PICK color : color = IF <<fg, bg>> \in Color THEN <<fg, bg>> ELSE WhiteOnBlack
  OBVIOUS
<1>3. color \in Color
  BY <1>2 DEF Color, WhiteOnBlack
<1>4. PICK s2, p2 : s2 = vga_set_color(s, fg, bg) /\ p2 = [p EXCEPT !.color = color]
  OBVIOUS
<1>5. s2 = [s EXCEPT !.color = color]
  <2>1. CASE fg \in 0 .. 15 /\ bg \in 0 .. 15
    <3>1. color = <<fg, bg>> /\ fg % 16 = fg /\ bg % 16 = bg
      BY <1>2, <2>1 DEF Color
    <3>2. QED  BY <1>4, <2>1, <3>1 DEF vga_set_color, is_valid_color, vga_make_color
  <2>2. CASE ~(fg \in 0 .. 15 /\ bg \in 0 .. 15)
    <3>1. color = WhiteOnBlack
      BY <1>2, <2>2 DEF Color
    <3>2. QED  BY <1>4, <2>2, <3>1 DEF vga_set_color, is_valid_color
  <2>3. QED  BY <2>1, <2>2
<1>6. /\ s2 \in ScreenState /\ s2.present = s.present /\ s2.detected = s.detected
      /\ s2.cells = s.cells /\ s2.color = color /\ s2.col = s.col /\ s2.row = s.row
  BY <1>1, <1>3, <1>5 DEF ScreenState
<1>7. /\ p2 \in PageState /\ p2.lines = p.lines /\ p2.line = p.line /\ p2.col = p.col
      /\ p2.color = color
  BY <1>1, <1>3, <1>4 DEF PageState
<1>8. FirstShown(p2) = FirstShown(p)
  BY <1>7 DEF FirstShown
<1>9. Agree(s2, p2)
  BY <1>6, <1>7, <1>8 DEF Agree
<1>10. QED  BY <1>2, <1>4, <1>9

(* The cursor, as far as the screen goes.                                   *)
LEMMA SetCursorAgrees ==
    ASSUME NEW s, NEW p, Agree(s, p), NEW col \in Nat, NEW row \in Nat
    PROVE  Agree(vga_set_cursor(s, col, row),
                 MoveTo(p, IF col \in Col THEN col ELSE VGA_COLS - 1,
                           IF row \in Row THEN row ELSE VGA_ROWS - 1))
<1>1. s \in ScreenState /\ p \in PageState
  BY DEF Agree
<1>2. PICK c, r : /\ c = IF col \in Col THEN col ELSE VGA_COLS - 1
                  /\ r = IF row \in Row THEN row ELSE VGA_ROWS - 1
  OBVIOUS
<1>3. VGA_ROWS \in Nat \ {0} /\ VGA_COLS \in Nat \ {0}
  BY Sizes
<1>4. c \in 0 .. VGA_COLS /\ r \in Row
  BY <1>2, <1>3 DEF Col, Row
<1>5. PICK s2, p2 : s2 = vga_set_cursor(s, col, row) /\ p2 = MoveTo(p, c, r)
  OBVIOUS
<1>6. s2 = [s EXCEPT !.col = c, !.row = r]
  <2>1. /\ c = IF col >= VGA_COLS THEN VGA_COLS - 1 ELSE col
        /\ r = IF row >= VGA_ROWS THEN VGA_ROWS - 1 ELSE row
    BY <1>2, <1>3 DEF Col, Row
  <2>2. QED  BY <1>5, <2>1 DEF vga_set_cursor
<1>7. /\ s2 \in ScreenState /\ s2.present = s.present /\ s2.detected = s.detected
      /\ s2.cells = s.cells /\ s2.color = s.color /\ s2.col = c /\ s2.row = r
  BY <1>1, <1>4, <1>6 DEF ScreenState
<1>8. FirstShown(p) + r \in Nat
  <2>1. FirstShown(p) \in Nat
    BY Places
  <2>2. QED  BY <1>4, <2>1 DEF Row
<1>9. /\ p2 \in PageState /\ p2.lines = p.lines /\ p2.line = FirstShown(p) + r /\ p2.col = c
      /\ p2.color = p.color
  BY <1>1, <1>4, <1>5, <1>8 DEF PageState, MoveTo
<1>10. FirstShown(p2) = FirstShown(p)
  BY <1>9 DEF FirstShown
<1>11. Agree(s2, p2)
  BY <1>7, <1>9, <1>10 DEF Agree
<1>12. QED  BY <1>2, <1>5, <1>11

(* The cursor, a column on.                                                 *)
LEMMA AdvanceAgrees ==
    ASSUME NEW s, NEW p, Agree(s, p)
    PROVE  Agree(vga_advance_cursor(s),
                 IF p.col + 1 < VGA_COLS THEN [p EXCEPT !.col = @ + 1] ELSE EndLine(p))
<1>1. s \in ScreenState /\ p \in PageState /\ s.col = p.col
  BY DEF Agree
<1>2. PICK col \in Nat : col = p.col /\ col = s.col
  BY <1>1 DEF PageState
<1>3. VGA_COLS \in Nat
  BY Sizes
<1>4. CASE col + 1 < VGA_COLS
  <2>1. vga_advance_cursor(s) = [s EXCEPT !.col = col + 1]
    BY <1>2, <1>3, <1>4 DEF vga_advance_cursor
  <2>2. col + 1 \in 0 .. VGA_COLS
    BY <1>3, <1>4
  <2>3. Agree([s EXCEPT !.col = col + 1], [p EXCEPT !.col = col + 1])
    BY <2>2, ColumnAgrees
  <2>4. QED  BY <1>2, <1>4, <2>1, <2>3
<1>5. CASE ~(col + 1 < VGA_COLS)
  <2>1. vga_advance_cursor(s) = vga_newline_internal(s)
    BY <1>2, <1>3, <1>5 DEF vga_advance_cursor
  <2>2. QED  BY <1>2, <1>5, <2>1, NewlineAgrees
<1>6. QED  BY <1>4, <1>5

(* A character anywhere, in any colour.                                     *)
LEMMA PutAtAgrees ==
    ASSUME NEW s, NEW p, Agree(s, p), NEW c \in Char, NEW col \in Nat, NEW row \in Nat,
           NEW fg \in Nat, NEW bg \in Nat
    PROVE  Agree(vga_put_char_at(s, c, col, row, fg, bg),
                 IF col \in Col /\ row \in Row
                 THEN Stamp(p, col, row, <<c, <<IF fg < 16 THEN fg ELSE 15,
                                                IF bg < 16 THEN bg ELSE 0>> >>)
                 ELSE p)
<1>1. PICK color : color = <<IF fg < 16 THEN fg ELSE 15, IF bg < 16 THEN bg ELSE 0>>
  OBVIOUS
<1>2. color \in Color
  BY <1>1 DEF Color
<1>3. CASE col \in Col /\ row \in Row
  <2>1. is_valid_position(row, col)
    BY <1>3 DEF is_valid_position
  <2>2. PICK f, b : /\ f = IF is_valid_color(fg) THEN fg ELSE 15
                    /\ b = IF is_valid_color(bg) THEN bg ELSE 0
    OBVIOUS
  <2>3. /\ f = IF fg < 16 THEN fg ELSE 15
        /\ b = IF bg < 16 THEN bg ELSE 0
    BY <2>2 DEF is_valid_color
  <2>4. f \in 0 .. 15 /\ b \in 0 .. 15
    BY <2>3
  <2>5. f % 16 = f /\ b % 16 = b
    BY <2>4
  <2>6. vga_make_color(f, b) = color
    BY <1>1, <2>3, <2>5 DEF vga_make_color
  <2>7. vga_put_char_at(s, c, col, row, fg, bg) = Store(s, row, col, <<c, color>>)
    BY <2>1, <2>2, <2>6 DEF vga_put_char_at, Cell
  <2>8. Stamp(p, col, row, <<c, color>>) = [p EXCEPT !.lines[FirstShown(p) + row][col] = <<c, color>>]
    BY DEF Stamp
  <2>9. Agree(Store(s, row, col, <<c, color>>),
              [p EXCEPT !.lines[FirstShown(p) + row][col] = <<c, color>>])
    BY <1>2, <1>3, CellAgrees
  <2>10. QED  BY ONLY <1>1, <1>3, <2>7, <2>8, <2>9, Zenon
<1>4. CASE ~(col \in Col /\ row \in Row)
  <2>1. vga_put_char_at(s, c, col, row, fg, bg) = s
    BY <1>4 DEF vga_put_char_at, is_valid_position
  <2>2. QED  BY <1>4, <2>1
<1>5. QED  BY <1>3, <1>4

(* The adapter, looked for and found or not, and the driver initialised.    *)
LEMMA InitAgrees ==
    ASSUME NEW s, NEW p, Agree(s, p)
    PROVE  /\ Agree(vga_detect(s), p)
           /\ Agree(vga_init(s),
                    IF s.present THEN [MoveTo(p, 0, 0) EXCEPT !.color = WhiteOnBlack] ELSE p)
<1>1. s \in ScreenState /\ p \in PageState /\ (s.detected => s.present)
  BY DEF Agree
<1>2. /\ vga_detect(s) \in ScreenState /\ vga_detect(s).present = s.present
      /\ vga_detect(s).detected = s.present
      /\ vga_detect(s).cells = s.cells /\ vga_detect(s).color = s.color
      /\ vga_detect(s).col = s.col /\ vga_detect(s).row = s.row
  BY <1>1 DEF vga_detect, ScreenState
<1>3. Agree(vga_detect(s), p)
  BY <1>2 DEF Agree
<1>4. PICK found : found = IF s.detected THEN s ELSE vga_detect(s)
  OBVIOUS
<1>5. /\ Agree(found, p) /\ found \in ScreenState /\ found.present = s.present
      /\ found.detected = s.present /\ found.cells = s.cells
  <2>1. CASE s.detected
    <3>1. s.detected \in BOOLEAN /\ s.present \in BOOLEAN
      BY <1>1 DEF ScreenState
    <3>2. QED  BY <1>1, <1>4, <2>1, <3>1
  <2>2. CASE ~s.detected
    BY <1>2, <1>3, <1>4, <2>2
  <2>3. QED  BY <2>1, <2>2
<1>6. PICK s2 : s2 = vga_init(s)
  OBVIOUS
<1>7. CASE s.present
  <2>1. s2 = [found EXCEPT !.color = WhiteOnBlack, !.col = 0, !.row = 0, !.initialized = TRUE]
    BY <1>4, <1>5, <1>6, <1>7 DEF vga_init
  <2>2. WhiteOnBlack \in Color /\ 0 \in Row /\ 0 \in 0 .. VGA_COLS
    BY Sizes DEF WhiteOnBlack, Color
  <2>3. /\ s2 \in ScreenState /\ s2.present = s.present /\ s2.detected = s.present
        /\ s2.cells = s.cells /\ s2.color = WhiteOnBlack /\ s2.col = 0 /\ s2.row = 0
    BY <1>5, <2>1, <2>2 DEF ScreenState
  <2>4. PICK p2 : p2 = [MoveTo(p, 0, 0) EXCEPT !.color = WhiteOnBlack]
    OBVIOUS
  <2>5. FirstShown(p) \in Nat
    BY Places
  <2>6. /\ p2 \in PageState /\ p2.lines = p.lines /\ p2.line = FirstShown(p) + 0 /\ p2.col = 0
        /\ p2.color = WhiteOnBlack
    <3>1. p2 = [p EXCEPT !.line = FirstShown(p) + 0, !.col = 0, !.color = WhiteOnBlack]
      BY <1>1, <2>4 DEF PageState, MoveTo
    <3>2. FirstShown(p) + 0 \in Nat
      BY <2>5
    <3>3. QED  BY <1>1, <2>2, <3>1, <3>2 DEF PageState
  <2>7. FirstShown(p2) = FirstShown(p)
    BY <2>6 DEF FirstShown
  <2>8. Agree(s2, p2)
    BY <1>7, <2>3, <2>6, <2>7 DEF Agree
  <2>9. QED  BY <1>3, <1>6, <1>7, <2>4, <2>8
<1>8. CASE ~s.present
  <2>1. s2 = found
    BY <1>4, <1>5, <1>6, <1>8 DEF vga_init
  <2>2. QED  BY <1>3, <1>5, <1>6, <1>8, <2>1
<1>9. QED  BY <1>7, <1>8

(* A text and a character, once the driver is initialised.                  *)
LEMMA StringAgrees ==
    ASSUME NEW s, NEW p, Agree(s, p), NEW text \in Seq(Char)
    PROVE  Agree(vga_put_string(s, text), IF s.initialized THEN TypeText(p, text) ELSE p)
<1>1. PICK room \in Nat : room = VGA_ROWS * VGA_COLS
  <2>1. VGA_ROWS * VGA_COLS \in Nat
    BY Sizes
  <2>2. QED  BY <2>1
<1>2. Cut(text, room) \in Seq(Char)
  BY CutIs
<1>3. Agree(PutAll(s, Cut(text, room)), TypeAll(p, Cut(text, room)))
  BY <1>2, TextAgrees
<1>4. vga_put_string(s, text) = IF s.initialized THEN PutAll(s, Cut(text, room)) ELSE s
  BY <1>1, Zenon DEF vga_put_string, PutAll
<1>5. TypeText(p, text) = TypeAll(p, Cut(text, room))
  BY <1>1, Zenon DEF TypeText, TypeAll
<1>6. QED  BY ONLY Agree(s, p), <1>3, <1>4, <1>5, Zenon

(* One character is a text.                                                 *)
LEMMA OneCut == \A c : Cut(<<c>>, VGA_ROWS * VGA_COLS) = <<c>>
<1>1. SUFFICES ASSUME NEW c PROVE Cut(<<c>>, VGA_ROWS * VGA_COLS) = <<c>>
  OBVIOUS
<1>2. PICK room \in Nat \ {0} : room = VGA_ROWS * VGA_COLS
  <2>1. VGA_ROWS \in Nat \ {0} /\ VGA_COLS \in Nat \ {0}
    BY Sizes
  <2>2. VGA_ROWS * VGA_COLS \in Nat \ {0}
    BY <2>1
  <2>3. QED  BY <2>2
<1>3. PICK t : t = <<c>>
  OBVIOUS
<1>4. t \in Seq({c}) /\ Len(t) = 1
  BY <1>3
<1>5. PICK u : u = Cut(t, room)
  OBVIOUS
<1>6. u \in Seq({c}) /\ Len(u) = 1 /\ \A i \in 1 .. Len(u) : u[i] = t[i]
  <2>1. /\ u \in Seq({c}) /\ Len(u) = IF Len(t) < room THEN Len(t) ELSE room
        /\ \A i \in 1 .. Len(u) : u[i] = t[i]
    BY <1>4, <1>5, CutIs
  <2>2. QED  BY <1>4, <2>1
<1>7. u = t
  BY <1>4, <1>6
<1>8. QED  BY <1>2, <1>3, <1>5, <1>7

(* And of one character.                                                    *)
LEMMA CharAgrees ==
    ASSUME NEW s, NEW p, Agree(s, p), NEW c \in Char
    PROVE  Agree(vga_put_char(s, c), IF s.initialized THEN TypeText(p, <<c>>) ELSE p)
<1>1. PICK t \in Seq(Char) : t = <<c>> /\ Len(t) = 1 /\ t[1] = c
  <2>1. <<c>> \in Seq(Char) /\ Len(<<c>>) = 1 /\ <<c>>[1] = c
    OBVIOUS
  <2>2. QED  BY <2>1
<1>2. PICK g : /\ g[0] = p
               /\ \A k \in 1 .. Len(t) : g[k] = TypeCharacter(g[k - 1], t[k])
               /\ TypeAll(p, t) = g[Len(t)]
  BY ONLY Agree(s, p), t \in Seq(Char), PageSteps
<1>3. TypeAll(p, t) = TypeCharacter(p, c)
  <2>1. 1 \in 1 .. Len(t) /\ 1 - 1 = 0
    BY <1>1
  <2>2. g[1] = TypeCharacter(g[1 - 1], t[1])
    BY <1>2, <2>1
  <2>3. g[1] = TypeCharacter(p, c)
    BY ONLY <1>1, <1>2, <2>1, <2>2, Zenon
  <2>4. QED  BY ONLY <1>1, <1>2, <2>3, Zenon
<1>4. TypeText(p, t) = TypeAll(p, t)
  <2>1. Cut(t, VGA_ROWS * VGA_COLS) = t
    BY <1>1, OneCut
  <2>2. TypeText(p, t) = TypeAll(p, Cut(t, VGA_ROWS * VGA_COLS))
    BY Zenon DEF TypeText, TypeAll
  <2>3. QED  BY <2>1, <2>2
<1>5. vga_put_char(s, c) = IF s.initialized THEN PutOne(s, c) ELSE s
  BY DEF vga_put_char
<1>6. Agree(PutOne(s, c), TypeCharacter(p, c))
  BY PutOneAgrees
<1>7. QED  BY ONLY Agree(s, p), <1>1, <1>3, <1>4, <1>5, <1>6, Zenon

(* A sequence of one.                                                       *)
LEMMA OneIs == \A c : \E t : t = <<c>> /\ DOMAIN t = 1 .. 1 /\ Len(t) = 1 /\ t[1] = c
<1>1. SUFFICES ASSUME NEW c
               PROVE  \E t : t = <<c>> /\ DOMAIN t = 1 .. 1 /\ Len(t) = 1 /\ t[1] = c
  OBVIOUS
<1>2. PICK t : t = <<c>>
  OBVIOUS
<1>3. t \in Seq({c}) /\ Len(t) = 1 /\ t[1] = c
  BY <1>2
<1>4. DOMAIN t = 1 .. 1
  BY <1>3
<1>5. QED  BY <1>2, <1>3, <1>4

(* A string of one character, without the driver.                           *)
LEMMA EarlyOneIs ==
    ASSUME NEW s, NEW c, c # LF, c # CR, NEW col \in Nat, NEW color
    PROVE  vga_put_string_early(s, <<c>>, col, 0, color)
               = IF col \in Col THEN Store(s, 0, col, <<c, color>>) ELSE s
<1>1. PICK m : m = [screen |-> s, col |-> col, row |-> 0, start |-> col, color |-> color,
                    stopped |-> FALSE]
  OBVIOUS
<1>2. PICK t : t = <<c>> /\ DOMAIN t = 1 .. 1 /\ Len(t) = 1 /\ t[1] = c
  BY OneIs
<1> DEFINE Is(f) == f = [x \in SUBSET (1 .. 1) |->
                             IF x = {} THEN m ELSE EarlyOne(f[x \ {Max(x)}], t[Max(x)])]
<1>3. Max(1 .. 1) = 1 /\ 1 .. 1 # {} /\ (1 .. 1) \ {1} = {}
  <2>1. PICK k \in Nat \ {0} : k = 1
    OBVIOUS
  <2>2. 1 .. k # {} /\ Max(1 .. k) = k
    BY LastOfInterval
  <2>3. QED  BY <2>1, <2>2
<1>4. PICK g : g = [x \in SUBSET (1 .. 1) |-> IF x = {} THEN m ELSE EarlyOne(m, t[Max(x)])]
  OBVIOUS
<1>5. Is(g)
  <2>1. ASSUME NEW x \in SUBSET (1 .. 1)
        PROVE  g[x] = IF x = {} THEN m ELSE EarlyOne(g[x \ {Max(x)}], t[Max(x)])
    <3>1. CASE x = {}
      BY <1>4, <3>1
    <3>2. CASE x # {}
      <4>1. x = 1 .. 1
        <5>1. 1 .. 1 = {1}
          OBVIOUS
        <5>2. QED  BY <3>2, <5>1
      <4>2. x \ {Max(x)} = {} /\ {} \in SUBSET (1 .. 1)
        BY <1>3, <4>1
      <4>3. g[x \ {Max(x)}] = m
        BY <1>4, <4>2
      <4>4. QED  BY <1>4, <3>2, <4>3
    <3>3. QED  BY <3>1, <3>2
  <2>2. g = [x \in SUBSET (1 .. 1) |-> g[x]]
    BY <1>4
  <2>3. QED  BY <2>1, <2>2
<1>6. PICK d : d = CHOOSE f : Is(f)
  OBVIOUS
<1>7. Is(d)
  <2> HIDE DEF Is
  <2>1. QED  BY <1>5, <1>6
<1>8. FoldLeft(EarlyOne, m, t) = d[1 .. 1]
  BY <1>2, <1>6, Zenon DEF FoldLeft, MapThenFoldSet
<1>9. d[1 .. 1] = EarlyOne(m, c)
  <2>1. {} \in SUBSET (1 .. 1) /\ 1 .. 1 \in SUBSET (1 .. 1)
    OBVIOUS
  <2>2. d[{}] = m
    BY <1>7, <2>1
  <2>3. d[1 .. 1] = EarlyOne(d[(1 .. 1) \ {Max(1 .. 1)}], t[Max(1 .. 1)])
    BY <1>3, <1>7, <2>1
  <2>4. QED  BY <1>2, <1>3, <2>2, <2>3
<1>10. Cut(t, VGA_ROWS * VGA_COLS) = t
  BY <1>2, OneCut
<1>11. vga_put_string_early(s, t, col, 0, color) = EarlyOne(m, c).screen
  <2>1. vga_put_string_early(s, t, col, 0, color) =
            FoldLeft(EarlyOne, m, Cut(t, VGA_ROWS * VGA_COLS)).screen
    BY <1>1, Zenon DEF vga_put_string_early
  <2>2. QED  BY <1>8, <1>9, <1>10, <2>1, Zenon
<1>12. VGA_ROWS \in Nat \ {0} /\ VGA_COLS \in Nat \ {0} /\ 0 \in Row
  BY Sizes
<1>13. m.stopped = FALSE /\ m.col = col /\ m.row = 0 /\ m.screen = s /\ m.color = color
  BY <1>1
<1>14. EarlyOne(m, c) =
           IF m.col >= VGA_COLS \/ m.row >= VGA_ROWS
           THEN [m EXCEPT !.stopped = TRUE]
           ELSE [m EXCEPT !.screen = vga_put_char_early(@, c, m.col, m.row, m.color),
                          !.col = @ + 1]
  BY <1>13, Zenon DEF EarlyOne
<1>15. CASE col \in Col
  <2>1. EarlyOne(m, c) = [m EXCEPT !.screen = vga_put_char_early(s, c, col, 0, color), !.col = col + 1]
    BY <1>12, <1>13, <1>14, <1>15 DEF Col
  <2>2. EarlyOne(m, c).screen = vga_put_char_early(s, c, col, 0, color)
    BY <1>1, <2>1
  <2>3. vga_put_char_early(s, c, col, 0, color) = Store(s, 0, col, <<c, color>>)
    BY <1>12, <1>15 DEF vga_put_char_early, is_valid_position, Cell
  <2>4. QED  BY <1>2, <1>11, <1>15, <2>2, <2>3
<1>16. CASE col \notin Col
  <2>1. EarlyOne(m, c) = [m EXCEPT !.stopped = TRUE]
    BY <1>12, <1>13, <1>14, <1>16 DEF Col
  <2>2. EarlyOne(m, c).screen = s
    BY <1>1, <2>1
  <2>3. QED  BY <1>2, <1>11, <1>16, <2>2
<1>17. QED  BY <1>15, <1>16

(* White on red is a colour.                                                *)
LEMMA RedIs == WhiteOnRed \in Color
<1>1. 15 \in 0 .. 15 /\ 4 \in 0 .. 15
  OBVIOUS
<1>2. QED  BY <1>1 DEF WhiteOnRed, Color

(* The page with the line of an early panic.                                *)
PanicLine(p, t) ==
    [p EXCEPT !.lines[FirstShown(p)] =
        [c \in Col |-> <<CASE c = 0 -> "E" [] c \in DOMAIN t -> t[c] [] OTHER -> " ",
                         WhiteOnRed>>]]

(* The line that an early panic leaves on the screen.                       *)
LEMMA PanicAgrees ==
    ASSUME NEW s, NEW p, Agree(s, p), NEW c \in Char, c # LF, c # CR, NEW t, t = <<c>>
    PROVE  Agree(EarlyPanicOn(s, t), PanicLine(p, t))
<1>1. s \in ScreenState
  BY DEF Agree
<1>2. s.cells \in [Row -> Line] /\ s.present \in BOOLEAN
  BY <1>1 DEF ScreenState
<1>3. VGA_COLS \in Nat \ {0} /\ 0 \in Row /\ 0 \in Col
  BY Sizes
<1>4. PICK line : line = [i \in Col |-> <<IF i = 0 THEN "E" ELSE IF i = 1 THEN c ELSE " ", WhiteOnRed>>]
  OBVIOUS
<1>a. ASSUME NEW i \in Col
      PROVE  /\ i = 0 => line[i] = <<"E", WhiteOnRed>>
             /\ i = 1 => line[i] = <<c, WhiteOnRed>>
             /\ i # 0 /\ i # 1 => line[i] = <<" ", WhiteOnRed>>
  <2>1. line[i] = <<IF i = 0 THEN "E" ELSE IF i = 1 THEN c ELSE " ", WhiteOnRed>>
    BY <1>4
  <2>2. i = 1 => i # 0
    OBVIOUS
  <2>3. QED  BY <2>1, <2>2, Zenon
<1>5. line \in Line
  <2>1. "E" \in Char /\ " " \in Char
    BY DEF Char
  <2>2. QED  BY <1>4, <2>1, RedIs DEF Line
<1>6. [i \in Col |-> <<CASE i = 0 -> "E" [] i \in DOMAIN t -> t[i] [] OTHER -> " ", WhiteOnRed>>]
          = line
  <2>1. DOMAIN t = 1 .. 1 /\ t[1] = c
    BY OneIs
  <2>2. ASSUME NEW i \in Col
        PROVE  <<CASE i = 0 -> "E" [] i \in DOMAIN t -> t[i] [] OTHER -> " ", WhiteOnRed>> = line[i]
    <3>1. i \in Int /\ (i \in DOMAIN t <=> i = 1)
      BY <1>3, <2>1 DEF Col
    <3>2. CASE i = 0
      <4>1. i \notin DOMAIN t
        BY <3>1, <3>2
      <4>2. (CASE i = 0 -> "E" [] i \in DOMAIN t -> t[i] [] OTHER -> " ") = "E"
        BY <3>2, <4>1
      <4>3. QED  BY <1>a, <3>2, <4>2
    <3>3. CASE i = 1
      <4>1. i # 0 /\ i \in DOMAIN t /\ t[i] = c
        BY <2>1, <3>1, <3>3
      <4>2. (CASE i = 0 -> "E" [] i \in DOMAIN t -> t[i] [] OTHER -> " ") = c
        BY <4>1
      <4>3. QED  BY <1>a, <3>3, <4>2
    <3>4. CASE i # 0 /\ i # 1
      <4>1. (CASE i = 0 -> "E" [] i \in DOMAIN t -> t[i] [] OTHER -> " ") = " "
        BY <3>1, <3>4
      <4>2. QED  BY <1>a, <3>4, <4>1
    <3>5. QED  BY <3>2, <3>3, <3>4
  <2>3. line = [i \in Col |-> line[i]]
    BY <1>4
  <2>4. QED  BY ONLY <2>2, <2>3, Zenon
<1>7. FirstShown(p) + 0 = FirstShown(p)
  <2>1. FirstShown(p) \in Nat
    BY Places
  <2>2. QED  BY <2>1
<1>8. Agree(IF s.present THEN [s EXCEPT !.cells[0] = line] ELSE s,
            [p EXCEPT !.lines[FirstShown(p)] = line])
  <2>1. Agree(IF s.present THEN [s EXCEPT !.cells[0] = line] ELSE s,
              [p EXCEPT !.lines[FirstShown(p) + 0] = line])
    BY <1>3, <1>5, LineAgrees
  <2>2. QED  BY <1>7, <2>1
<1>9. EarlyPanicOn(s, <<c>>) = IF s.present THEN [s EXCEPT !.cells[0] = line] ELSE s
  <2>1. PICK tagged, said : /\ tagged = vga_put_string_early(s, <<"E">>, 0, 0, WhiteOnRed)
                            /\ said = vga_put_string_early(tagged, <<c>>, 1, 0, WhiteOnRed)
    OBVIOUS
  <2>2. EarlyPanicOn(s, <<c>>) =
            IF s.present
            THEN [said EXCEPT !.cells[0] =
                      [i \in Col |-> IF i > Len(<<c>>) THEN Cell(" ", WhiteOnRed) ELSE @[i]]]
            ELSE s
    BY <2>1 DEF EarlyPanicOn
  <2>3. CASE ~s.present
    BY <2>2, <2>3
  <2>4. CASE s.present
    <3>1. PICK one, two : one = [s.cells[0] EXCEPT ![0] = <<"E", WhiteOnRed>>]
                          /\ two = IF 1 \in Col THEN [one EXCEPT ![1] = <<c, WhiteOnRed>>] ELSE one
      OBVIOUS
    <3>2. s.cells[0] \in Line /\ one \in Line /\ two \in Line
      <4>1. "E" \in Char /\ WhiteOnRed \in Color
        BY RedIs DEF Char
      <4>2. s.cells[0] \in Line
        BY <1>2, <1>3
      <4>3. one \in Line
        BY <1>3, <3>1, <4>1, <4>2, LinesAre
      <4>4. QED  BY <3>1, <4>1, <4>2, <4>3, LinesAre
    <3>3. tagged = [s EXCEPT !.cells = [s.cells EXCEPT ![0] = one]]
      <4>1. "E" # LF /\ "E" # CR
        BY DEF LF, CR
      <4>2. tagged = Store(s, 0, 0, <<"E", WhiteOnRed>>)
        BY <1>3, <2>1, <4>1, EarlyOneIs
      <4>3. QED  BY <2>4, <3>1, <4>2 DEF Store
    <3>4. tagged \in ScreenState /\ tagged.present /\ tagged.cells[0] = one
      BY <1>1, <1>2, <1>3, <2>4, <3>2, <3>3 DEF ScreenState
    <3>5. said = [tagged EXCEPT !.cells[0] = two]
      <4>1. said = IF 1 \in Col THEN Store(tagged, 0, 1, <<c, WhiteOnRed>>) ELSE tagged
        BY <2>1, EarlyOneIs
      <4>2. CASE 1 \in Col
        BY <3>1, <3>4, <4>1, <4>2 DEF Store
      <4>3. CASE 1 \notin Col
        BY <3>1, <3>4, <4>1, <4>3 DEF ScreenState
      <4>4. QED  BY <4>2, <4>3
    <3>6. said \in ScreenState /\ said.cells = [s.cells EXCEPT ![0] = two]
          /\ said.present = s.present /\ said.col = s.col /\ said.row = s.row /\ said.color = s.color
          /\ said.detected = s.detected /\ said.initialized = s.initialized
      <4>1. tagged.cells = [s.cells EXCEPT ![0] = one]
        BY <1>1, <3>3 DEF ScreenState
      <4>2. said = [s EXCEPT !.cells = [s.cells EXCEPT ![0] = two]]
        <5>1. said = [tagged EXCEPT !.cells = [tagged.cells EXCEPT ![0] = two]]
          BY <3>5
        <5>2. [tagged.cells EXCEPT ![0] = two] = [s.cells EXCEPT ![0] = two]
          BY <1>2, <4>1
        <5>3. QED  BY <1>1, <3>3, <5>1, <5>2 DEF ScreenState
      <4>3. [s.cells EXCEPT ![0] = two] \in [Row -> Line]
        BY <1>2, <3>2
      <4>4. QED  BY <1>1, <4>2, <4>3 DEF ScreenState
    <3>7. said.cells[0] = two
      BY <1>2, <1>3, <3>6
    <3>8. [i \in Col |-> IF i > Len(<<c>>) THEN Cell(" ", WhiteOnRed) ELSE two[i]] = line
      <4>1. PICK n : n = Len(<<c>>) /\ n = 1
        OBVIOUS
      <4>2. ASSUME NEW i \in Col
            PROVE  (IF i > n THEN Cell(" ", WhiteOnRed) ELSE two[i]) = line[i]
        <5>1. i \in Nat
          BY <1>3 DEF Col
        <5>2. CASE i = 0
          <6>1. two[i] = one[i]
            BY <3>1, <3>2, <5>2 DEF Line
          <6>2. one[i] = <<"E", WhiteOnRed>>
            BY <1>3, <3>1, <3>2, <5>2 DEF Line
          <6>3. ~(i > n)
            BY <4>1, <5>2
          <6>4. line[i] = <<"E", WhiteOnRed>>
            BY <1>a, <5>2
          <6>5. QED  BY ONLY <6>1, <6>2, <6>3, <6>4, Zenon
        <5>3. CASE i = 1
          <6>1. two[i] = <<c, WhiteOnRed>>
            BY <3>1, <3>2, <5>3 DEF Line
          <6>2. ~(i > n)
            BY <4>1, <5>3
          <6>3. line[i] = <<c, WhiteOnRed>>
            BY <1>a, <5>3
          <6>4. QED  BY ONLY <6>1, <6>2, <6>3, Zenon
        <5>4. CASE i # 0 /\ i # 1
          <6>1. i > n
            BY <4>1, <5>1, <5>4
          <6>2. line[i] = <<" ", WhiteOnRed>>
            BY <1>a, <5>4
          <6>3. QED  BY ONLY <6>1, <6>2, Zenon DEF Cell
        <5>5. QED  BY <5>2, <5>3, <5>4
      <4>3. QED  BY <1>4, <4>1, <4>2
    <3>9. EarlyPanicOn(s, <<c>>) = [said EXCEPT !.cells[0] = line]
      <4>1. EarlyPanicOn(s, <<c>>) =
                [said EXCEPT !.cells[0] =
                    [i \in Col |-> IF i > Len(<<c>>) THEN Cell(" ", WhiteOnRed) ELSE said.cells[0][i]]]
        BY <2>2, <2>4
      <4>2. QED  BY <3>7, <3>8, <4>1
    <3>10. [said EXCEPT !.cells[0] = line] = [s EXCEPT !.cells[0] = line]
      <4>1. [said.cells EXCEPT ![0] = line] = [s.cells EXCEPT ![0] = line]
        BY <1>2, <3>6
      <4>2. QED  BY <1>1, <3>6, <4>1 DEF ScreenState
    <3>11. QED  BY <2>4, <3>9, <3>10
  <2>5. QED  BY <2>3, <2>4
<1>10. PanicLine(p, t) = [p EXCEPT !.lines[FirstShown(p)] = line]
  BY <1>6 DEF PanicLine
<1>11. QED  BY ONLY t = <<c>>, <1>8, <1>9, <1>10, Zenon

-----------------------------------------------------------------------------
(* Every step keeps the screen on the page.                                 *)

PageInv == Agree(screen, page)

(* A section that types.                                                    *)
LEMMA TypingShown ==
    ASSUME PageInv, NEW x \in Typing
    PROVE  Agree(OnScreen(x), IF Refused(x) THEN page ELSE OnPage(x)) /\ x[1] # "init"
<1>1. \/ \E t \in Seq(Char) : x = <<"print", t, t>>
      \/ \E c \in Char : x = <<"put_char", c>>
      \/ \E c \in Reasons : x = <<"early_panic", <<c>> >>
  BY DEF Typing
<1>2. Agree(screen, page)
  BY DEF PageInv
<1>3. ASSUME NEW t \in Seq(Char), x = <<"print", t, t>>
      PROVE  Agree(OnScreen(x), IF Refused(x) THEN page ELSE OnPage(x)) /\ x[1] # "init"
  <2>1. x[1] = "print" /\ x[2] = t /\ x[3] = t
    BY <1>3
  <2>2. OnScreen(x) = vga_put_string(screen, t)
    BY <2>1 DEF OnScreen
  <2>3. OnPage(x) = TypeText(page, t)
    BY <2>1 DEF OnPage
  <2>4. Refused(x) <=> ~screen.initialized
    BY <2>1 DEF Refused
  <2>5. Agree(vga_put_string(screen, t), IF screen.initialized THEN TypeText(page, t) ELSE page)
    BY <1>2, StringAgrees
  <2>6. QED  BY <2>1, <2>2, <2>3, <2>4, <2>5
<1>4. ASSUME NEW c \in Char, x = <<"put_char", c>>
      PROVE  Agree(OnScreen(x), IF Refused(x) THEN page ELSE OnPage(x)) /\ x[1] # "init"
  <2>1. x[1] = "put_char" /\ x[2] = c
    BY <1>4
  <2>2. OnScreen(x) = vga_put_char(screen, c)
    BY <2>1 DEF OnScreen
  <2>3. OnPage(x) = TypeText(page, <<c>>)
    BY <2>1 DEF OnPage
  <2>4. Refused(x) <=> ~screen.initialized
    BY <2>1 DEF Refused
  <2>5. Agree(vga_put_char(screen, c), IF screen.initialized THEN TypeText(page, <<c>>) ELSE page)
    BY <1>2, CharAgrees
  <2>6. QED  BY <2>1, <2>2, <2>3, <2>4, <2>5
<1>5. ASSUME NEW c \in Reasons, x = <<"early_panic", <<c>> >>
      PROVE  Agree(OnScreen(x), IF Refused(x) THEN page ELSE OnPage(x)) /\ x[1] # "init"
  <2>1. PICK t : t = <<c>>
    OBVIOUS
  <2>2. x[1] = "early_panic" /\ x[2] = t
    BY <1>5, <2>1
  <2>3. OnScreen(x) = EarlyPanicOn(screen, t)
    BY <2>2 DEF OnScreen
  <2>4. OnPage(x) = PanicLine(page, x[2])
    BY <2>2, Zenon DEF OnPage, PanicLine
  <2>5. PanicLine(page, x[2]) = PanicLine(page, t)
    BY <2>2, Zenon
  <2>6. ~Refused(x)
    BY <2>2 DEF Refused
  <2>7. c \in Char /\ c # LF /\ c # CR
    BY DEF Reasons, Char, LF, CR
  <2>8. Agree(EarlyPanicOn(screen, t), PanicLine(page, t))
    BY <1>2, <2>1, <2>7, PanicAgrees
  <2>9. QED  BY <2>2, <2>3, <2>4, <2>5, <2>6, <2>8
<1>6. QED  BY <1>1, <1>3, <1>4, <1>5

(* A section that says where, or in which colour.                           *)
LEMMA PlacingShown ==
    ASSUME PageInv, NEW x \in Placing
    PROVE  Agree(OnScreen(x), IF Refused(x) THEN page ELSE OnPage(x)) /\ x[1] # "init"
<1>1. \/ \E row \in Nat : x = <<"clear_row", row>>
      \/ \E fg \in Nat, bg \in Nat : x = <<"set_color", fg, bg>>
      \/ \E col \in Nat, row \in Nat : x = <<"set_cursor", col, row>>
      \/ \E c \in Char, col \in Nat, row \in Nat, fg \in Nat, bg \in Nat :
             x = <<"put_char_at", c, col, row, fg, bg>>
  BY DEF Placing
<1>2. Agree(screen, page)
  BY DEF PageInv
<1>3. ASSUME NEW row \in Nat, x = <<"clear_row", row>>
      PROVE  Agree(OnScreen(x), IF Refused(x) THEN page ELSE OnPage(x)) /\ x[1] # "init"
  <2>1. x[1] = "clear_row" /\ x[2] = row
    BY <1>3
  <2>2. OnScreen(x) = vga_clear_row(screen, row)
    BY <2>1 DEF OnScreen
  <2>3. OnPage(x) = IF row \in Row THEN WipeLine(page, row) ELSE page
    BY <2>1 DEF OnPage
  <2>4. Refused(x) <=> ~screen.initialized
    BY <2>1 DEF Refused
  <2>5. Agree(vga_clear_row(screen, row),
              IF screen.initialized /\ row \in Row THEN WipeLine(page, row) ELSE page)
    BY <1>2, ClearRowAgrees
  <2>6. QED  BY <2>1, <2>2, <2>3, <2>4, <2>5
<1>4. ASSUME NEW fg \in Nat, NEW bg \in Nat, x = <<"set_color", fg, bg>>
      PROVE  Agree(OnScreen(x), IF Refused(x) THEN page ELSE OnPage(x)) /\ x[1] # "init"
  <2>1. x[1] = "set_color" /\ x[2] = fg /\ x[3] = bg
    BY <1>4
  <2>2. OnScreen(x) = vga_set_color(screen, fg, bg)
    BY <2>1 DEF OnScreen
  <2>3. OnPage(x) = [page EXCEPT !.color = IF <<fg, bg>> \in Color THEN <<fg, bg>> ELSE WhiteOnBlack]
    BY <2>1 DEF OnPage
  <2>4. ~Refused(x)
    BY <2>1 DEF Refused
  <2>5. Agree(vga_set_color(screen, fg, bg),
              [page EXCEPT !.color = IF <<fg, bg>> \in Color THEN <<fg, bg>> ELSE WhiteOnBlack])
    BY <1>2, SetColorAgrees
  <2>6. QED  BY <2>1, <2>2, <2>3, <2>4, <2>5
<1>5. ASSUME NEW col \in Nat, NEW row \in Nat, x = <<"set_cursor", col, row>>
      PROVE  Agree(OnScreen(x), IF Refused(x) THEN page ELSE OnPage(x)) /\ x[1] # "init"
  <2>1. x[1] = "set_cursor" /\ x[2] = col /\ x[3] = row
    BY <1>5
  <2>2. OnScreen(x) = vga_set_cursor(screen, col, row)
    BY <2>1 DEF OnScreen
  <2>3. OnPage(x) = MoveTo(page, IF col \in Col THEN col ELSE VGA_COLS - 1,
                                 IF row \in Row THEN row ELSE VGA_ROWS - 1)
    BY <2>1 DEF OnPage
  <2>4. ~Refused(x)
    BY <2>1 DEF Refused
  <2>5. Agree(vga_set_cursor(screen, col, row),
              MoveTo(page, IF col \in Col THEN col ELSE VGA_COLS - 1,
                           IF row \in Row THEN row ELSE VGA_ROWS - 1))
    BY <1>2, SetCursorAgrees
  <2>6. QED  BY <2>1, <2>2, <2>3, <2>4, <2>5
<1>6. ASSUME NEW c \in Char, NEW col \in Nat, NEW row \in Nat, NEW fg \in Nat, NEW bg \in Nat,
             x = <<"put_char_at", c, col, row, fg, bg>>
      PROVE  Agree(OnScreen(x), IF Refused(x) THEN page ELSE OnPage(x)) /\ x[1] # "init"
  <2>1. x[1] = "put_char_at" /\ x[2] = c /\ x[3] = col /\ x[4] = row /\ x[5] = fg /\ x[6] = bg
    BY <1>6
  <2>2. OnScreen(x) = vga_put_char_at(screen, c, col, row, fg, bg)
    BY <2>1 DEF OnScreen
  <2>3. OnPage(x) =
            IF col \in Col /\ row \in Row
            THEN Stamp(page, col, row, <<c, <<IF fg < 16 THEN fg ELSE 15,
                                              IF bg < 16 THEN bg ELSE 0>> >>)
            ELSE page
    BY <2>1 DEF OnPage
  <2>4. ~Refused(x)
    BY <2>1 DEF Refused
  <2>5. Agree(vga_put_char_at(screen, c, col, row, fg, bg),
              IF col \in Col /\ row \in Row
              THEN Stamp(page, col, row, <<c, <<IF fg < 16 THEN fg ELSE 15,
                                                IF bg < 16 THEN bg ELSE 0>> >>)
              ELSE page)
    BY <1>2, PutAtAgrees
  <2>6. QED  BY <2>1, <2>2, <2>3, <2>4, <2>5
<1>7. QED  BY <1>1, <1>3, <1>4, <1>5, <1>6

(* The rest of the sections of the screen.                                  *)
LEMMA PlainShown ==
    ASSUME PageInv,
           NEW x \in {<<"clear">>, <<"newline">>, <<"advance_cursor">>, <<"detect">>, <<"init">>}
    PROVE  Agree(OnScreen(x), IF Refused(x) \/ (x[1] = "init" /\ ~screen.present)
                              THEN page ELSE OnPage(x))
<1>1. x[1] \in {"clear", "newline", "advance_cursor", "detect", "init"}
  OBVIOUS
<1>2. Agree(screen, page)
  BY DEF PageInv
<1>3. CASE x[1] = "clear"
  <2>1. OnScreen(x) = vga_clear(screen)
    BY <1>3 DEF OnScreen
  <2>2. OnPage(x) = WipePage(page)
    BY <1>3 DEF OnPage
  <2>3. (Refused(x) <=> ~screen.initialized) /\ x[1] # "init"
    BY <1>3 DEF Refused
  <2>4. Agree(vga_clear(screen), IF screen.initialized THEN WipePage(page) ELSE page)
    BY <1>2, ClearAgrees
  <2>5. QED  BY <2>1, <2>2, <2>3, <2>4
<1>4. CASE x[1] = "newline"
  <2>1. OnScreen(x) = vga_newline(screen)
    BY <1>4 DEF OnScreen
  <2>2. OnPage(x) = EndLine(page)
    BY <1>4 DEF OnPage
  <2>3. (Refused(x) <=> ~screen.initialized) /\ x[1] # "init"
    BY <1>4 DEF Refused
  <2>4. Agree(vga_newline(screen), IF screen.initialized THEN EndLine(page) ELSE page)
    BY <1>2, NewlineAgrees DEF vga_newline
  <2>5. QED  BY <2>1, <2>2, <2>3, <2>4
<1>5. CASE x[1] = "advance_cursor"
  <2>1. OnScreen(x) = vga_advance_cursor(screen)
    BY <1>5 DEF OnScreen
  <2>2. OnPage(x) = IF page.col + 1 < VGA_COLS THEN [page EXCEPT !.col = @ + 1] ELSE EndLine(page)
    BY <1>5 DEF OnPage
  <2>3. ~Refused(x) /\ x[1] # "init"
    BY <1>5 DEF Refused
  <2>4. Agree(vga_advance_cursor(screen),
              IF page.col + 1 < VGA_COLS THEN [page EXCEPT !.col = @ + 1] ELSE EndLine(page))
    BY <1>2, AdvanceAgrees
  <2>5. QED  BY <2>1, <2>2, <2>3, <2>4
<1>6. CASE x[1] = "detect"
  <2>1. OnScreen(x) = vga_detect(screen)
    BY <1>6 DEF OnScreen
  <2>2. OnPage(x) = page
    BY <1>6 DEF OnPage
  <2>3. Agree(vga_detect(screen), page)
    BY <1>2, InitAgrees
  <2>4. QED  BY <2>1, <2>2, <2>3
<1>7. CASE x[1] = "init"
  <2>1. OnScreen(x) = vga_init(screen)
    BY <1>7 DEF OnScreen
  <2>2. OnPage(x) = [MoveTo(page, 0, 0) EXCEPT !.color = WhiteOnBlack]
    BY <1>7 DEF OnPage
  <2>3. ~Refused(x)
    BY <1>7 DEF Refused
  <2>4. Agree(vga_init(screen),
              IF screen.present THEN [MoveTo(page, 0, 0) EXCEPT !.color = WhiteOnBlack] ELSE page)
    BY <1>2, InitAgrees
  <2>5. QED  BY <1>7, <2>1, <2>2, <2>3, <2>4
<1>8. QED  BY <1>1, <1>3, <1>4, <1>5, <1>6, <1>7

(* The screen and the page stay as they are.                                *)
LEMMA SamePage == PageInv /\ UNCHANGED <<screen, page>> => PageInv'
BY DEF PageInv

(* A text that is written shows on the screen if it is logged.              *)
LEMMA SectionShows ==
    ASSUME PageInv, NEW t \in Seq(Char), NEW x,
           \/ x = <<"serial", t, t>>
           \/ \E level \in 0 .. 4 : x = <<"log", level, t, t>>,
           NEW ready, Write(x, ready)
    PROVE  PageInv'
<1>1. CASE x = <<"serial", t, t>>
  <2>1. x[1] = "serial"
    BY <1>1
  <2>2. UNCHANGED <<screen, page>>
    BY <2>1 DEF Write
  <2>3. QED  BY <2>2, SamePage
<1>2. ASSUME NEW level \in 0 .. 4, x = <<"log", level, t, t>>
      PROVE  PageInv'
  <2>1. x[1] = "log" /\ x[2] = level /\ x[3] = t /\ x[4] = t
    BY <1>2
  <2>2. LogWrite(x, ready)
    BY <2>1 DEF Write
  <2>3. CASE Logged(level)
    <3>1. ScreenWrite(t, t)
      BY <2>1, <2>2, <2>3 DEF LogWrite
    <3>2. /\ screen' = vga_put_string(screen, t)
          /\ page' = IF screen.initialized THEN TypeText(page, t) ELSE page
      BY <3>1 DEF ScreenWrite
    <3>3. Agree(vga_put_string(screen, t), IF screen.initialized THEN TypeText(page, t) ELSE page)
      BY StringAgrees DEF PageInv
    <3>4. Agree(screen', page')
      BY <3>2, <3>3
    <3>5. QED  BY <3>4 DEF PageInv
  <2>4. CASE ~Logged(level)
    <3>1. UNCHANGED <<screen, page>>
      BY <2>1, <2>2, <2>4 DEF LogWrite, devices
    <3>2. QED  BY <3>1, SamePage
  <2>5. QED  BY <2>3, <2>4
<1>3. QED  BY <1>1, <1>2

(* The main line writes.                                                    *)
LEMMA WriteKeepsPage == WireInv /\ PageInv /\ WriteSection => PageInv'
<1>1. SUFFICES ASSUME WireInv, PageInv, WriteSection PROVE PageInv'
  OBVIOUS
<1>2. /\ todo # <<>> /\ Head(todo)[1] \in {"serial", "log"}
      /\ \E ready \in 0 .. Len(TextOf(Head(todo))) : Write(Head(todo), ready)
  BY <1>1 DEF WriteSection, Doing
<1>3. PICK x : x = Head(todo)
  OBVIOUS
<1>4. x \in Section
  BY <1>1, <1>2, <1>3, NextIsIdle
<1>5. PICK t \in Seq(Char) : \/ x = <<"serial", t, t>>
                             \/ \E level \in 0 .. 4 : x = <<"log", level, t, t>>
  BY <1>2, <1>3, <1>4, KindsApart
<1>6. PICK ready \in 0 .. Len(TextOf(x)) : Write(x, ready)
  BY <1>2, <1>3
<1>7. QED  BY <1>1, <1>5, <1>6, SectionShows

(* A handler prints between any two sections.                               *)
LEMMA HandlerKeepsPage == PageInv /\ HandlerPrints => PageInv'
<1>1. SUFFICES ASSUME PageInv, HandlerPrints PROVE PageInv'
  OBVIOUS
<1>2. PICK section \in HandlerCalls :
          \E ready \in 0 .. Len(TextOf(section)) : Write(section, ready)
  BY <1>1 DEF HandlerPrints
<1>3. PICK t \in Seq(Char) : \/ section = <<"serial", t, t>>
                             \/ \E level \in 0 .. 4 : section = <<"log", level, t, t>>
  BY LogClosed
<1>4. PICK ready \in 0 .. Len(TextOf(section)) : Write(section, ready)
  BY <1>2
<1>5. QED  BY <1>1, <1>3, <1>4, SectionShows

(* The main line uses the screen.                                           *)
LEMMA ScreenKeepsPage == WireInv /\ PageInv /\ ScreenSection => PageInv'
<1>1. SUFFICES ASSUME WireInv, PageInv, ScreenSection PROVE PageInv'
  OBVIOUS
<1>2. todo # <<>> /\ Head(todo)[1] \in ScreenSections
  BY <1>1 DEF ScreenSection, Doing
<1>3. PICK x : x = Head(todo)
  OBVIOUS
<1>4. /\ screen' = OnScreen(x)
      /\ page' = IF Refused(x) \/ (x[1] = "init" /\ ~screen.present) THEN page ELSE OnPage(x)
  BY <1>1, <1>3 DEF ScreenSection
<1>5. x \in Section
  <2>1. Head(todo)[1] \notin {"set", "out", "serial_init", "handlers"}
    BY <1>2 DEF ScreenSections
  <2>2. QED  BY <1>1, <1>2, <1>3, <2>1, NextIsIdle
<1>6. \/ x \in Typing \/ x \in Placing
      \/ x \in {<<"clear">>, <<"newline">>, <<"advance_cursor">>, <<"detect">>, <<"init">>}
  BY <1>2, <1>3, <1>5, KindsApart
<1>7. CASE x \in Typing
  <2>1. Agree(OnScreen(x), IF Refused(x) THEN page ELSE OnPage(x)) /\ x[1] # "init"
    BY <1>1, <1>7, TypingShown
  <2>2. Agree(screen', page')
    BY <1>4, <2>1
  <2>3. QED  BY <2>2 DEF PageInv
<1>8. CASE x \in Placing
  <2>1. Agree(OnScreen(x), IF Refused(x) THEN page ELSE OnPage(x)) /\ x[1] # "init"
    BY <1>1, <1>8, PlacingShown
  <2>2. Agree(screen', page')
    BY <1>4, <2>1
  <2>3. QED  BY <2>2 DEF PageInv
<1>9. CASE x \in {<<"clear">>, <<"newline">>, <<"advance_cursor">>, <<"detect">>, <<"init">>}
  <2>1. Agree(OnScreen(x), IF Refused(x) \/ (x[1] = "init" /\ ~screen.present)
                           THEN page ELSE OnPage(x))
    BY <1>1, <1>9, PlainShown
  <2>2. Agree(screen', page')
    BY <1>4, <2>1
  <2>3. QED  BY <2>2 DEF PageInv
<1>10. QED  BY <1>6, <1>7, <1>8, <1>9

(* What firmware leaves, with or without an adapter.                        *)
LEMMA InitialPage == Init => PageInv
<1>1. SUFFICES ASSUME Init PROVE PageInv
  OBVIOUS
<1>2. (\E present \in BOOLEAN : screen = ScreenAtReset(present)) /\ page = PageAtReset
  BY <1>1, SMT DEF Init
<1>3. PICK present \in BOOLEAN : screen = ScreenAtReset(present)
  BY <1>2
<1>4. VGA_ROWS \in Nat \ {0} /\ VGA_COLS \in Nat \ {0} /\ 0 \in Row /\ 0 \in 0 .. VGA_COLS
  <2>1. VGA_ROWS \in Nat \ {0} /\ VGA_COLS \in Nat \ {0} /\ 0 \in Row
    BY Sizes
  <2>2. QED  BY <2>1
<1>5. PICK blank : blank = [c \in Col |-> Cell("?", <<7, 0>>)]
  OBVIOUS
<1>6. blank \in Line
  <2>1. "?" \in Char
    BY DEF Char
  <2>2. <<7, 0>> \in Color
    <3>1. 7 \in 0 .. 15 /\ 0 \in 0 .. 15
      OBVIOUS
    <3>2. QED  BY <3>1 DEF Color
  <2>3. QED  BY <1>5, <2>1, <2>2 DEF Line, Cell
<1>7. <<0, 0>> \in Color
  <2>1. 0 \in 0 .. 15
    OBVIOUS
  <2>2. QED  BY <2>1 DEF Color
<1>8. FirmwareCells \in [Row -> Line] /\ \A r \in Row : FirmwareCells[r] = blank
  BY <1>5, <1>6 DEF FirmwareCells
<1>9. PICK lines : lines = [n \in 1 .. VGA_ROWS |-> blank]
  OBVIOUS
<1>10. /\ lines \in Seq(Line) /\ Len(lines) = VGA_ROWS
       /\ \A n \in 1 .. VGA_ROWS : lines[n] = blank
  BY <1>4, <1>6, <1>9
<1>11. page = [lines |-> lines, line |-> 1, col |-> 0, color |-> <<0, 0>>]
  <2>1. FirmwareCells[0] = blank
    BY <1>4, <1>8
  <2>2. QED  BY <1>2, <1>9, <2>1 DEF PageAtReset
<1>12. page \in PageState /\ page.lines = lines /\ page.line = 1 /\ page.col = 0
       /\ page.color = <<0, 0>>
  BY <1>4, <1>7, <1>10, <1>11 DEF PageState
<1>13. /\ screen \in ScreenState /\ screen.cells = FirmwareCells /\ screen.row = 0
       /\ screen.col = 0 /\ screen.color = <<0, 0>> /\ ~screen.detected
  BY <1>3, <1>4, <1>7, <1>8 DEF ScreenAtReset, ScreenState
<1>14. FirstShown(page) = 1
  BY <1>4, <1>10, <1>12 DEF FirstShown
<1>15. \A r \in Row : screen.cells[r] = page.lines[FirstShown(page) + r]
  <2>1. ASSUME NEW r \in Row PROVE lines[1 + r] = blank
    <3>1. 1 + r \in 1 .. VGA_ROWS
      BY <1>4 DEF Row
    <3>2. QED  BY <1>10, <3>1
  <2>2. QED  BY <1>8, <1>12, <1>13, <1>14, <2>1
<1>16. QED  BY <1>4, <1>10, <1>12, <1>13, <1>14, <1>15 DEF PageInv, Agree

-----------------------------------------------------------------------------
(* The pool's size and how much of it is used.                              *)
LEMMA PoolSizes == ASSUME IInv PROVE pool.size \in Nat /\ pool.used \in Nat
<1>1. EARLY_ALLOC_POOL_SIZE \in Nat
  BY EarlyAllocAssumption
<1>2. QED  BY <1>1 DEF IInv, PoolInv, PoolAtReset, PoolWith

(* The port and its divisor are as they should be in every reachable state, *)
(* and what is to be done cannot change that.                               *)
THEOREM WireInvariant == Spec => []WireInv
<1>1. IInv /\ WireInv /\ [Next]_vars => WireInv'
  <2>1. SUFFICES ASSUME IInv, WireInv, [Next]_vars PROVE WireInv'
    OBVIOUS
  <2>2. pool.size \in Nat /\ pool.used \in Nat
    BY <2>1, PoolSizes
  <2>3. CASE WriteSection
    BY <2>1, <2>3, WriteKeepsWire
  <2>4. CASE ScreenSection
    BY <2>1, <2>4, ScreenKeepsWire
  <2>5. CASE StoreSection
    BY <2>1, <2>5, StoreKeepsWire
  <2>6. CASE Decide
    BY <2>1, <2>2, <2>6, DecideKeepsWire
  <2>7. CASE LogSection
    BY <2>1, <2>7, LogKeepsWire
  <2>8. CASE HandlersSection
    BY <2>1, <2>8, HandlersKeepWire
  <2>9. CASE PoolSection
    BY <2>1, <2>9, PoolKeepsWire
  <2>10. CASE AllocSection
    BY <2>1, <2>2, <2>10, AllocKeepsWire
  <2>11. CASE Call
    BY <2>1, <2>11, CallKeepsWire
  <2>12. CASE HandlerPrints
    BY <2>1, <2>12, HandlerKeepsWire
  <2>13. CASE UNCHANGED vars
    <3>1. UNCHANGED <<serial, uart, reported, unsent, rate, todo, handlers>>
      BY <2>13 DEF vars, devices, history
    <3>2. QED  BY <2>1, <3>1, WireStutters
  <2>14. QED
    BY <2>1, <2>3, <2>4, <2>5, <2>6, <2>7, <2>8, <2>9, <2>10, <2>11, <2>12, <2>13 DEF Next
<1>2. QED  BY <1>1, InitialWire, Invariant, PTL DEF Spec

(* What went out on the line is what the calls asked for, the divisor is    *)
(* the one asked for, and no timeout stays unnoticed: for any texts,        *)
(* numbers and formats, and any order of calls, handlers and timeouts.      *)
THEOREM WireShowsReportsHolds == Spec => []WireShowsReports
<1>1. ASSUME WireInv PROVE WireShowsReports
  <2>1. uart.wire = reported /\ (unsent => serial.failed = 1)
    BY <1>1 DEF WireInv, Wired
  <2>2. Programming => Initialising
    BY ProgramNext
  <2>3. Ready \/ Programming
    BY <1>1 DEF WireInv, Idle, Leading
  <2>4. QED  BY <2>1, <2>2, <2>3 DEF WireShowsReports, Ready
<1>2. QED  BY <1>1, WireInvariant, PTL

(* The screen is a window on the end of the page, and the driver's cursor,  *)
(* colour and cells are where and what they are on the page, in every       *)
(* reachable state: also before the driver is initialised.                  *)
THEOREM PageInvariant == Spec => []PageInv
<1>1. WireInv /\ PageInv /\ [Next]_vars => PageInv'
  <2>1. SUFFICES ASSUME WireInv, PageInv, [Next]_vars PROVE PageInv'
    OBVIOUS
  <2>2. CASE WriteSection
    BY <2>1, <2>2, WriteKeepsPage
  <2>3. CASE ScreenSection
    BY <2>1, <2>3, ScreenKeepsPage
  <2>4. CASE HandlerPrints
    BY <2>1, <2>4, HandlerKeepsPage
  <2>5. CASE \/ StoreSection \/ Decide \/ LogSection \/ HandlersSection \/ PoolSection
             \/ AllocSection \/ Call \/ UNCHANGED vars
    <3>1. StoreSection => UNCHANGED <<screen, page>>
      BY DEF StoreSection
    <3>2. Decide => UNCHANGED <<screen, page>>
      BY DEF Decide, devices
    <3>3. LogSection => UNCHANGED <<screen, page>>
      BY DEF LogSection, devices, history
    <3>4. HandlersSection => UNCHANGED <<screen, page>>
      BY DEF HandlersSection, devices, history
    <3>5. PoolSection => UNCHANGED <<screen, page>>
      BY DEF PoolSection, devices, history
    <3>6. AllocSection => UNCHANGED <<screen, page>>
      BY DEF AllocSection, devices
    <3>7. Call => UNCHANGED <<screen, page>>
      BY DEF Call, devices, history
    <3>8. UNCHANGED vars => UNCHANGED <<screen, page>>
      BY DEF vars, devices, history
    <3>9. QED
      BY <2>1, <2>5, <3>1, <3>2, <3>3, <3>4, <3>5, <3>6, <3>7, <3>8, SamePage
  <2>6. QED
    BY <2>1, <2>2, <2>3, <2>4, <2>5 DEF Next
<1>2. QED  BY <1>1, InitialPage, WireInvariant, PTL DEF Spec

(* The screen shows the last lines of all that was printed, where it was    *)
(* printed and in its colours, and printing goes on where the page says:    *)
(* for a screen of any size, any texts, and any calls and handlers.         *)
THEOREM ScreenShowsPageHolds == Spec => []ScreenShowsPage
<1>1. ASSUME PageInv PROVE ScreenShowsPage
  <2>1. Agree(screen, page)
    BY <1>1 DEF PageInv
  <2>2. screen.row \in Row /\ FirstShown(page) \in Nat /\ VGA_ROWS \in Nat
    BY <2>1, Places, Sizes
  <2>3. page.line = FirstShown(page) + screen.row
    BY <2>1 DEF Agree
  <2>4. screen.row = page.line - FirstShown(page)
    BY <2>2, <2>3 DEF Row
  <2>5. QED  BY <2>1, <2>4 DEF ScreenShowsPage, Agree
<1>2. QED  BY <1>1, PageInvariant, PTL
=============================================================================
