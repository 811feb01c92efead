------------------------------- MODULE Serial -------------------------------
(***************************************************************************)
(* The serial driver (serial.cpp) and the registers of the UART it uses:    *)
(* the line control bit DLAB, behind which the data port is the low byte of *)
(* the divisor, and the line itself. A character stored is a character sent. *)
(*                                                                          *)
(* What runs under the serial lock is an operator on the driver's state and *)
(* the UART; what runs without the lock is a sequence of single stores.     *)
(***************************************************************************)
EXTENDS Integers, Sequences

SERIAL_ERROR_NONE == 0
SERIAL_ERROR_TIMEOUT == 1
SERIAL_ERROR_INIT_FAIL == 2
SERIAL_ERROR_NULL_PTR == 3

SerialAtReset ==
    [initialized |-> 0, port |-> "none", failed |-> 0, error_code |-> SERIAL_ERROR_NONE,
     timeout_count |-> 0]

(* The UART of COM1, which may be missing; no other port has one.           *)
UartAtReset(present) == [present |-> present, dlab |-> FALSE, dll |-> 0, dlm |-> 0, wire |-> <<>>]

-----------------------------------------------------------------------------
(* A store to the transmit register, whatever it is at the moment.          *)
Outb(uart, character) ==
    IF uart.dlab THEN [uart EXCEPT !.dll = character] ELSE [uart EXCEPT !.wire = Append(@, character)]

(* serial_write_str and serial_write_char, if the transmitter is ready in   *)
(* time for the first ready characters and then no more.                    *)
Written(serial, text, ready) ==
    IF serial.initialized = 0 THEN 0 ELSE IF ready < Len(text) THEN ready ELSE Len(text)

UartAfter(serial, uart, text, ready) ==
    LET sent[n \in 0 .. Len(text)] == IF n = 0 THEN uart ELSE Outb(sent[n - 1], text[n])
    IN  sent[Written(serial, text, ready)]

(* Mutant: a timeout is counted and not reported.                           *)
SerialAfterQuiet(serial, text, ready) ==
    IF serial.initialized # 0 /\ ready < Len(text)
    THEN [serial EXCEPT !.error_code = SERIAL_ERROR_TIMEOUT, !.timeout_count = @ + 1]
    ELSE serial

SerialAfter(serial, text, ready) ==
    IF serial.initialized # 0 /\ ready < Len(text)
    THEN [serial EXCEPT !.failed = 1, !.error_code = SERIAL_ERROR_TIMEOUT, !.timeout_count = @ + 1]
    ELSE serial

-----------------------------------------------------------------------------
(* serial_init: what it refuses, and its stores.                            *)
is_valid_serial_port(port) == port \in {"COM1", "COM2", "COM3", "COM4"}
serial_port_exists(uart, port) == port = "COM1" /\ uart.present
Acceptable(uart, port, baud) ==
    /\ baud >= 110 /\ baud <= 115200
    /\ is_valid_serial_port(port)
    /\ serial_port_exists(uart, port)

Set(field, value) == <<"set", field, value>>
InitStores(port, baud) ==
    LET divisor == 115200 \div baud
    IN  << Set("failed", 0),
           Set("error_code", SERIAL_ERROR_NONE),
           Set("timeout_count", 0),
           Set("port", port),
           <<"out", "dlab", TRUE>>,
           <<"out", "dll", divisor % 256>>,
           <<"out", "dlm", (divisor \div 256) % 256>>,
           <<"out", "dlab", FALSE>>,
           Set("initialized", 1) >>

InitFailed == << Set("failed", 1), Set("error_code", SERIAL_ERROR_INIT_FAIL) >>

serial_init(port, baud) == << <<"serial_init", port, baud>> >>

(* Mutant: the port stays open for writers while it is programmed.          *)
serial_reinitOpen(port, baud) ==
    << Set("failed", 0), Set("error_code", SERIAL_ERROR_NONE), Set("timeout_count", 0) >>
        \o serial_init(port, baud) \o << <<"reinit_result">> >>

serial_reinit(port, baud) ==
    << Set("failed", 0),
       Set("error_code", SERIAL_ERROR_NONE),
       Set("timeout_count", 0),
       Set("initialized", 0) >>
        \o serial_init(port, baud) \o << <<"reinit_result">> >>

serial_clear_error == << Set("failed", 0), Set("error_code", SERIAL_ERROR_NONE) >>

(* serial_write_str of a null pointer.                                      *)
serial_write_null == << Set("error_code", SERIAL_ERROR_NULL_PTR) >>
=============================================================================
