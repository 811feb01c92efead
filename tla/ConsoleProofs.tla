--------------------------- MODULE ConsoleProofs ---------------------------
(***************************************************************************)
(* Type correctness of the console, that log lines come in one order on     *)
(* both devices, and that a panic finds the lock it forced free and stays   *)
(* with interrupts off. Nothing here depends on Misuse.                     *)
(***************************************************************************)
EXTENDS Console, SequenceTheorems, TLAPS

(* What two pieces of code are, one after the other.                        *)
LEMMA Then ==
    ASSUME NEW s \in Seq(Instruction), NEW t \in Seq(Instruction), NEW u, u = s \o t
    PROVE  /\ u \in Seq(Instruction)
           /\ Len(u) = Len(s) + Len(t)
           /\ \A i \in 1 .. Len(s) : u[i] = s[i]
           /\ \A i \in 1 .. Len(t) : u[Len(s) + i] = t[i]
  OBVIOUS

(* A section under a lock.                                                  *)
LEMMA SectionIs ==
    ASSUME NEW l \in Lock, NEW code \in Seq(Instruction), NEW u, u = Locked(l, code)
    PROVE  /\ u \in Seq(Instruction) /\ Len(u) = Len(code) + 4
           /\ u[1] = <<"cli_save", l>> /\ u[2] = <<"take", l>>
           /\ \A i \in 1 .. Len(code) : u[i + 2] = code[i]
           /\ u[Len(code) + 3] = <<"reset", l>> /\ u[Len(code) + 4] = <<"unlock", l>>
<1>1. PICK a, r : a = Acquire(l) /\ r = Release(l)
  OBVIOUS
<1>2. /\ a \in Seq(Instruction) /\ Len(a) = 2 /\ a[1] = <<"cli_save", l>> /\ a[2] = <<"take", l>>
      /\ r \in Seq(Instruction) /\ Len(r) = 2 /\ r[1] = <<"reset", l>> /\ r[2] = <<"unlock", l>>
  BY <1>1 DEF Acquire, Release, Instruction
<1>3. PICK b : b = a \o code
  OBVIOUS
<1>4. /\ b \in Seq(Instruction) /\ Len(b) = Len(a) + Len(code)
      /\ \A i \in 1 .. Len(a) : b[i] = a[i]
      /\ \A i \in 1 .. Len(code) : b[Len(a) + i] = code[i]
  <2>1. a \in Seq(Instruction) /\ code \in Seq(Instruction)
    BY <1>2
  <2>2. QED  BY ONLY <2>1, <1>3, Then
<1>5. PICK n \in Nat : n = Len(code)
  OBVIOUS
<1>6. /\ Len(b) = n + 2 /\ b[1] = <<"cli_save", l>> /\ b[2] = <<"take", l>>
      /\ \A i \in 1 .. n : b[i + 2] = code[i]
  <2>1. ASSUME NEW i \in 1 .. n PROVE b[i + 2] = code[i]
    <3>1. b[Len(a) + i] = code[i] /\ Len(a) + i = i + 2
      BY <1>2, <1>4, <1>5
    <3>2. QED  BY <3>1
  <2>2. QED  BY <1>2, <1>4, <1>5, <2>1
<1>7. /\ u \in Seq(Instruction) /\ Len(u) = Len(b) + Len(r)
      /\ \A i \in 1 .. Len(b) : u[i] = b[i]
      /\ \A i \in 1 .. Len(r) : u[Len(b) + i] = r[i]
  <2>1. b \in Seq(Instruction) /\ r \in Seq(Instruction) /\ u = b \o r
    BY <1>1, <1>2, <1>3, <1>4 DEF Locked
  <2>2. QED  BY ONLY <2>1, Then
<1>8. Len(u) = n + 4 /\ u[1] = <<"cli_save", l>> /\ u[2] = <<"take", l>>
  BY <1>2, <1>6, <1>7
<1>9. ASSUME NEW i \in 1 .. n PROVE u[i + 2] = code[i]
  <2>1. i + 2 \in 1 .. Len(b)
    BY <1>6
  <2>2. QED  BY <1>6, <1>7, <2>1
<1>10. u[n + 3] = <<"reset", l>> /\ u[n + 4] = <<"unlock", l>>
  <2>1. u[Len(b) + 1] = r[1] /\ u[Len(b) + 2] = r[2] /\ Len(b) + 1 = n + 3 /\ Len(b) + 2 = n + 4
    BY <1>2, <1>6, <1>7
  <2>2. QED  BY <1>2, <2>1
<1>11. QED  BY <1>5, <1>7, <1>8, <1>9, <1>10

(* A line to one device.                                                    *)
LineOf(line, l) ==
    /\ line \in Seq(Instruction) /\ Len(line) = 5
    /\ line[1] = <<"cli_save", l>> /\ line[2] = <<"take", l>> /\ line[3] = <<"write", l>>
    /\ line[4] = <<"reset", l>> /\ line[5] = <<"unlock", l>>

(* The two lines that the code is made of.                                  *)
LEMMA LineIs == LineOf(serial_write_str, "serial") /\ LineOf(vga_put_string, "vga")
<1>1. ASSUME NEW l \in Lock, NEW u, u = Locked(l, Write(l)) PROVE LineOf(u, l)
  <2>1. PICK w : w = Write(l)
    OBVIOUS
  <2>2. w \in Seq(Instruction) /\ Len(w) = 1 /\ w[1] = <<"write", l>>
    BY <2>1 DEF Write, Instruction
  <2>3. /\ u \in Seq(Instruction) /\ Len(u) = Len(w) + 4
        /\ u[1] = <<"cli_save", l>> /\ u[2] = <<"take", l>>
        /\ \A i \in 1 .. Len(w) : u[i + 2] = w[i]
        /\ u[Len(w) + 3] = <<"reset", l>> /\ u[Len(w) + 4] = <<"unlock", l>>
    BY <1>1, <2>1, <2>2, SectionIs
  <2>4. 1 \in 1 .. Len(w) /\ 1 + 2 = 3 /\ Len(w) + 3 = 4 /\ Len(w) + 4 = 5
    BY <2>2
  <2>5. u[3] = w[1]
    BY <2>3, <2>4
  <2>6. QED  BY <2>2, <2>3, <2>4, <2>5 DEF LineOf
<1>2. {"serial", "vga"} \subseteq Lock
  BY DEF Lock
<1>3. QED  BY <1>1, <1>2 DEF serial_write_str, vga_put_string

(* The same line to both devices.                                           *)
BothOf(w, k) ==
    /\ w[k + 1] = <<"cli_save", "serial">> /\ w[k + 2] = <<"take", "serial">>
    /\ w[k + 3] = <<"write", "serial">>
    /\ w[k + 4] = <<"reset", "serial">> /\ w[k + 5] = <<"unlock", "serial">>
    /\ w[k + 6] = <<"cli_save", "vga">> /\ w[k + 7] = <<"take", "vga">>
    /\ w[k + 8] = <<"write", "vga">>
    /\ w[k + 9] = <<"reset", "vga">> /\ w[k + 10] = <<"unlock", "vga">>

(* write_output: serial first, then the screen.                             *)
LEMMA WriteOutputIs ==
    /\ write_output \in Seq(Instruction) /\ Len(write_output) = 10
    /\ BothOf(write_output, 0)
<1>1. PICK s, v, w : s = serial_write_str /\ v = vga_put_string /\ w = write_output
  OBVIOUS
<1>2. LineOf(s, "serial") /\ LineOf(v, "vga")
  BY <1>1, LineIs
<1>3. /\ w \in Seq(Instruction) /\ Len(w) = Len(s) + Len(v)
      /\ \A i \in 1 .. Len(s) : w[i] = s[i]
      /\ \A i \in 1 .. Len(v) : w[Len(s) + i] = v[i]
  <2>1. s \in Seq(Instruction) /\ v \in Seq(Instruction) /\ w = s \o v
    BY <1>1, <1>2 DEF LineOf, write_output
  <2>2. QED  BY ONLY <2>1, Then
<1>4. Len(s) = 5 /\ Len(v) = 5 /\ Len(w) = 10
  BY <1>2, <1>3 DEF LineOf
<1>5. /\ w[1] = s[1] /\ w[2] = s[2] /\ w[3] = s[3] /\ w[4] = s[4] /\ w[5] = s[5]
      /\ w[6] = v[1] /\ w[7] = v[2] /\ w[8] = v[3] /\ w[9] = v[4] /\ w[10] = v[5]
  BY <1>3, <1>4
<1>6. BothOf(w, 0)
  BY <1>2, <1>5 DEF BothOf, LineOf
<1>7. QED  BY <1>1, <1>3, <1>4, <1>6

(* panic: cli, the lock forced open, a text for both devices and the halt.  *)
LEMMA PanicIs ==
    /\ panic \in Seq(Instruction) /\ Len(panic) = 13
    /\ panic[1] = <<"cli", "none">> /\ panic[2] = <<"force_unlock", "serial">>
    /\ BothOf(panic, 2)
    /\ panic[13] = <<"halt", "none">>
<1>1. PICK a, b, w, h : a = cli /\ b = serial_force_unlock /\ w = write_output /\ h = hlt
  OBVIOUS
<1>2. /\ a \in Seq(Instruction) /\ Len(a) = 1 /\ a[1] = <<"cli", "none">>
      /\ b \in Seq(Instruction) /\ Len(b) = 1 /\ b[1] = <<"force_unlock", "serial">>
      /\ h \in Seq(Instruction) /\ Len(h) = 1 /\ h[1] = <<"halt", "none">>
  BY <1>1 DEF cli, serial_force_unlock, hlt, Instruction, NoLock, Lock
<1>3. w \in Seq(Instruction) /\ Len(w) = 10 /\ BothOf(w, 0)
  BY <1>1, WriteOutputIs
<1>4. PICK u, v, p : u = a \o b /\ v = u \o w /\ p = v \o h
  OBVIOUS
<1>5. u \in Seq(Instruction) /\ Len(u) = 2 /\ u[1] = a[1] /\ u[2] = b[1]
  <2>1. a \in Seq(Instruction) /\ b \in Seq(Instruction) /\ u = a \o b
    BY <1>2, <1>4
  <2>2. /\ u \in Seq(Instruction) /\ Len(u) = Len(a) + Len(b)
        /\ \A i \in 1 .. Len(a) : u[i] = a[i]
        /\ \A i \in 1 .. Len(b) : u[Len(a) + i] = b[i]
    BY ONLY <2>1, Then
  <2>3. QED  BY <1>2, <2>2
<1>6. /\ v \in Seq(Instruction) /\ Len(v) = 12
      /\ v[1] = u[1] /\ v[2] = u[2] /\ \A i \in 1 .. 10 : v[2 + i] = w[i]
  <2>1. u \in Seq(Instruction) /\ w \in Seq(Instruction) /\ v = u \o w
    BY <1>3, <1>4, <1>5
  <2>2. /\ v \in Seq(Instruction) /\ Len(v) = Len(u) + Len(w)
        /\ \A i \in 1 .. Len(u) : v[i] = u[i]
        /\ \A i \in 1 .. Len(w) : v[Len(u) + i] = w[i]
    BY ONLY <2>1, Then
  <2>3. QED  BY <1>3, <1>5, <2>2
<1>7. /\ p \in Seq(Instruction) /\ Len(p) = 13
      /\ \A i \in 1 .. 12 : p[i] = v[i]
      /\ p[13] = h[1]
  <2>1. v \in Seq(Instruction) /\ h \in Seq(Instruction) /\ p = v \o h
    BY <1>2, <1>4, <1>6
  <2>2. /\ p \in Seq(Instruction) /\ Len(p) = Len(v) + Len(h)
        /\ \A i \in 1 .. Len(v) : p[i] = v[i]
        /\ \A i \in 1 .. Len(h) : p[Len(v) + i] = h[i]
    BY ONLY <2>1, Then
  <2>3. QED  BY <1>2, <1>6, <2>2
<1>8. BothOf(p, 2)
  <2>1. /\ p[3] = w[1] /\ p[4] = w[2] /\ p[5] = w[3] /\ p[6] = w[4] /\ p[7] = w[5]
        /\ p[8] = w[6] /\ p[9] = w[7] /\ p[10] = w[8] /\ p[11] = w[9] /\ p[12] = w[10]
    BY <1>6, <1>7
  <2>2. QED  BY <1>3, <2>1 DEF BothOf
<1>9. p[1] = a[1] /\ p[2] = b[1]
  BY <1>5, <1>6, <1>7
<1>10. panic = p
  BY <1>1, <1>4 DEF panic
<1>11. QED  BY <1>2, <1>7, <1>8, <1>9, <1>10

(* log_output: a text for both devices under the log lock.                  *)
LEMMA LogIs ==
    /\ log_output \in Seq(Instruction) /\ Len(log_output) = 14
    /\ log_output[1] = <<"cli_save", "log">> /\ log_output[2] = <<"take", "log">>
    /\ BothOf(log_output, 2)
    /\ log_output[13] = <<"reset", "log">> /\ log_output[14] = <<"unlock", "log">>
<1>1. PICK w, u : w = write_output /\ u = log_output
  OBVIOUS
<1>2. w \in Seq(Instruction) /\ Len(w) = 10 /\ BothOf(w, 0)
  BY <1>1, WriteOutputIs
<1>3. /\ u \in Seq(Instruction) /\ Len(u) = Len(w) + 4
      /\ u[1] = <<"cli_save", "log">> /\ u[2] = <<"take", "log">>
      /\ \A i \in 1 .. Len(w) : u[i + 2] = w[i]
      /\ u[Len(w) + 3] = <<"reset", "log">> /\ u[Len(w) + 4] = <<"unlock", "log">>
  <2>1. "log" \in Lock /\ w \in Seq(Instruction) /\ u = Locked("log", w)
    BY <1>1, <1>2 DEF Lock, log_output
  <2>2. QED  BY ONLY <2>1, SectionIs
<1>4. BothOf(u, 2)
  <2>1. /\ u[3] = w[1] /\ u[4] = w[2] /\ u[5] = w[3] /\ u[6] = w[4] /\ u[7] = w[5]
        /\ u[8] = w[6] /\ u[9] = w[7] /\ u[10] = w[8] /\ u[11] = w[9] /\ u[12] = w[10]
    BY <1>2, <1>3
  <2>2. QED  BY <1>2, <2>1 DEF BothOf
<1>5. QED  BY <1>1, <1>2, <1>3, <1>4

(* At level PANIC it goes on with cli and the halt.                         *)
LEMMA LogPanicIs ==
    /\ log_panic \in Seq(Instruction) /\ Len(log_panic) = 16
    /\ \A i \in 1 .. 14 : log_panic[i] = log_output[i]
    /\ log_panic[15] = <<"cli", "none">> /\ log_panic[16] = <<"halt", "none">>
<1>1. PICK u, a, h, v, p : /\ u = log_output /\ a = cli /\ h = hlt
                           /\ v = u \o a /\ p = v \o h
  OBVIOUS
<1>2. /\ a \in Seq(Instruction) /\ Len(a) = 1 /\ a[1] = <<"cli", "none">>
      /\ h \in Seq(Instruction) /\ Len(h) = 1 /\ h[1] = <<"halt", "none">>
      /\ u \in Seq(Instruction) /\ Len(u) = 14
  BY <1>1, LogIs DEF cli, hlt, Instruction, NoLock
<1>3. /\ v \in Seq(Instruction) /\ Len(v) = 15
      /\ \A i \in 1 .. 14 : v[i] = u[i]
      /\ v[15] = a[1]
  <2>1. u \in Seq(Instruction) /\ a \in Seq(Instruction) /\ v = u \o a
    BY <1>1, <1>2
  <2>2. /\ v \in Seq(Instruction) /\ Len(v) = Len(u) + Len(a)
        /\ \A i \in 1 .. Len(u) : v[i] = u[i]
        /\ \A i \in 1 .. Len(a) : v[Len(u) + i] = a[i]
    BY ONLY <2>1, Then
  <2>3. QED  BY <1>2, <2>2
<1>4. /\ p \in Seq(Instruction) /\ Len(p) = 16
      /\ \A i \in 1 .. 15 : p[i] = v[i]
      /\ p[16] = h[1]
  <2>1. v \in Seq(Instruction) /\ h \in Seq(Instruction) /\ p = v \o h
    BY <1>1, <1>2, <1>3
  <2>2. /\ p \in Seq(Instruction) /\ Len(p) = Len(v) + Len(h)
        /\ \A i \in 1 .. Len(v) : p[i] = v[i]
        /\ \A i \in 1 .. Len(h) : p[Len(v) + i] = h[i]
    BY ONLY <2>1, Then
  <2>3. QED  BY <1>2, <1>3, <2>2
<1>5. log_panic = p
  BY <1>1 DEF log_panic
<1>6. QED  BY <1>1, <1>2, <1>3, <1>4, <1>5

(* Code that neither logs nor is fatal: it leaves the log lock alone and    *)
(* forces nothing open.                                                     *)
Plain(code) ==
    /\ code \in Seq(Instruction)
    /\ Len(code) \in {0, 5, 9}
    /\ \A i \in 1 .. Len(code) :
           code[i] \notin {<<"take", "log">>, <<"unlock", "log">>, <<"force_unlock", "serial">>}

(* So is all that the kernel prints other than a log line and a panic.      *)
LEMMA PlainCode ==
    \A code \in {serial_write_str, vga_put_string, vga_atomic, serial_atomic, <<>>} : Plain(code)
<1>1. ASSUME NEW l \in {"serial", "vga"}, NEW line, LineOf(line, l) PROVE Plain(line)
  BY <1>1 DEF LineOf, Plain
<1>2. ASSUME NEW l \in {"serial", "vga"}, NEW u, u = Locked(l, serial_write_str)
      PROVE  Plain(u)
  <2>1. PICK w : w = serial_write_str
    OBVIOUS
  <2>2. LineOf(w, "serial") /\ l \in Lock
    BY <2>1, LineIs DEF Lock
  <2>3. Plain(w) /\ w \in Seq(Instruction) /\ Len(w) = 5
    BY <1>1, <2>2 DEF LineOf
  <2>4. /\ u \in Seq(Instruction) /\ Len(u) = Len(w) + 4
        /\ u[1] = <<"cli_save", l>> /\ u[2] = <<"take", l>>
        /\ \A i \in 1 .. Len(w) : u[i + 2] = w[i]
        /\ u[Len(w) + 3] = <<"reset", l>> /\ u[Len(w) + 4] = <<"unlock", l>>
    BY <1>2, <2>1, <2>2, <2>3, SectionIs
  <2>5. ASSUME NEW i \in 1 .. 9
        PROVE  u[i] \notin {<<"take", "log">>, <<"unlock", "log">>, <<"force_unlock", "serial">>}
    <3>1. CASE i \in {1, 2, 8, 9}
      BY <2>3, <2>4, <3>1
    <3>2. CASE i \notin {1, 2, 8, 9}
      <4>1. i - 2 \in 1 .. Len(w) /\ i - 2 + 2 = i
        BY <2>3, <3>2
      <4>2. u[i] = w[i - 2]
        BY <2>4, <4>1
      <4>3. QED  BY <2>3, <4>1, <4>2 DEF Plain
    <3>3. QED  BY <3>1, <3>2
  <2>6. QED  BY <2>3, <2>4, <2>5 DEF Plain
<1>3. Plain(<<>>)
  BY EmptySeq DEF Plain
<1>4. QED  BY <1>1, <1>2, <1>3, LineIs DEF vga_atomic, serial_atomic

(* Where a log line, fatal or not, has its instructions.                    *)
LEMMA LogPlaces ==
    ASSUME NEW code \in {log_output, log_panic}
    PROVE  /\ Len(code) \in {14, 16}
           /\ code[2] = <<"take", "log">> /\ code[5] = <<"write", "serial">>
           /\ code[10] = <<"write", "vga">> /\ code[14] = <<"unlock", "log">>
           /\ \A i \in 1 .. Len(code) :
                 /\ code[i] # <<"force_unlock", "serial">>
                 /\ code[i] = <<"unlock", "log">> => i = 14
                 /\ code[i] = <<"write", "serial">> => i = 5
                 /\ code[i] = <<"write", "vga">> => i = 10
                 /\ code[i] = <<"cli", "none">> => i = 15
<1>1. PICK u : u = code
  OBVIOUS
<1>2. /\ u[1] = <<"cli_save", "log">> /\ u[2] = <<"take", "log">>
      /\ u[3] = <<"cli_save", "serial">> /\ u[4] = <<"take", "serial">>
      /\ u[5] = <<"write", "serial">>
      /\ u[6] = <<"reset", "serial">> /\ u[7] = <<"unlock", "serial">>
      /\ u[8] = <<"cli_save", "vga">> /\ u[9] = <<"take", "vga">>
      /\ u[10] = <<"write", "vga">>
      /\ u[11] = <<"reset", "vga">> /\ u[12] = <<"unlock", "vga">>
      /\ u[13] = <<"reset", "log">> /\ u[14] = <<"unlock", "log">>
  <2>1. CASE u = log_output
    BY <2>1, LogIs DEF BothOf
  <2>2. CASE u = log_panic
    <3>1. /\ u[1] = log_output[1] /\ u[2] = log_output[2] /\ u[3] = log_output[3]
          /\ u[4] = log_output[4] /\ u[5] = log_output[5] /\ u[6] = log_output[6]
          /\ u[7] = log_output[7] /\ u[8] = log_output[8] /\ u[9] = log_output[9]
          /\ u[10] = log_output[10] /\ u[11] = log_output[11] /\ u[12] = log_output[12]
          /\ u[13] = log_output[13] /\ u[14] = log_output[14]
      BY <2>2, LogPanicIs
    <3>2. QED  BY <3>1, LogIs DEF BothOf
  <2>3. QED  BY <1>1, <2>1, <2>2
<1>3. \/ Len(u) = 14
      \/ Len(u) = 16 /\ u[15] = <<"cli", "none">> /\ u[16] = <<"halt", "none">>
  BY <1>1, LogIs, LogPanicIs
<1>4. ASSUME NEW i \in 1 .. Len(u)
      PROVE  /\ u[i] # <<"force_unlock", "serial">>
             /\ u[i] = <<"unlock", "log">> => i = 14
             /\ u[i] = <<"write", "serial">> => i = 5
             /\ u[i] = <<"write", "vga">> => i = 10
             /\ u[i] = <<"cli", "none">> => i = 15
  <2>1. CASE i \in 1 .. 14
    <3>1. i \in {1, 2, 3, 4, 5, 6, 7, 8, 9, 10, 11, 12, 13, 14}
      BY <2>1
    <3>2. u[i] # <<"force_unlock", "serial">>
      BY ONLY <1>2, <3>1
    <3>3. u[i] = <<"unlock", "log">> => i = 14
      BY ONLY <1>2, <3>1
    <3>4. u[i] = <<"write", "serial">> => i = 5
      BY ONLY <1>2, <3>1
    <3>5. u[i] = <<"write", "vga">> => i = 10
      BY ONLY <1>2, <3>1
    <3>6. u[i] # <<"cli", "none">>
      BY ONLY <1>2, <3>1
    <3>7. QED  BY <3>2, <3>3, <3>4, <3>5, <3>6
  <2>2. CASE i \notin 1 .. 14
    <3>1. /\ u[15] = <<"cli", "none">> /\ u[16] = <<"halt", "none">>
          /\ i \in {15, 16}
      <4>1. CASE Len(u) = 14
        BY <2>2, <4>1
      <4>2. CASE Len(u) = 16 /\ u[15] = <<"cli", "none">> /\ u[16] = <<"halt", "none">>
        BY <2>2, <4>2
      <4>3. QED  BY <1>3, <4>1, <4>2
    <3>2. QED  BY <3>1
  <2>3. QED  BY <2>1, <2>2
<1>5. QED  BY <1>1, <1>2, <1>3, <1>4

(* Where a panic has its own.                                               *)
LEMMA PanicPlaces ==
    ASSUME NEW i \in 1 .. 13, NEW l
    PROVE  /\ panic[i] = <<"cli", l>> => i = 1
           /\ panic[i] = <<"force_unlock", l>> => i = 2
           /\ panic[i] = <<"cli_save", l>> => i \in {3, 8}
           /\ panic[i] = <<"take", l>> => (i = 4 /\ l = "serial") \/ (i = 9 /\ l = "vga")
           /\ panic[i] = <<"write", l>> => i \in {5, 10}
           /\ panic[i] = <<"reset", l>> => (i = 6 /\ l = "serial") \/ (i = 11 /\ l = "vga")
           /\ panic[i] = <<"unlock", l>> => (i = 7 /\ l = "serial") \/ (i = 12 /\ l = "vga")
           /\ panic[i] # <<"unlock", "log">> /\ panic[i] # <<"take", "log">>
<1>1. PICK u : u = panic
  OBVIOUS
<1>2. /\ u[1] = <<"cli", "none">> /\ u[2] = <<"force_unlock", "serial">>
      /\ u[3] = <<"cli_save", "serial">> /\ u[4] = <<"take", "serial">>
      /\ u[5] = <<"write", "serial">>
      /\ u[6] = <<"reset", "serial">> /\ u[7] = <<"unlock", "serial">>
      /\ u[8] = <<"cli_save", "vga">> /\ u[9] = <<"take", "vga">>
      /\ u[10] = <<"write", "vga">>
      /\ u[11] = <<"reset", "vga">> /\ u[12] = <<"unlock", "vga">>
      /\ u[13] = <<"halt", "none">>
  BY <1>1, PanicIs DEF BothOf
<1>3. i \in {1, 2, 3, 4, 5, 6, 7, 8, 9, 10, 11, 12, 13}
  OBVIOUS
<1>4. QED  BY <1>1, <1>2, <1>3

-----------------------------------------------------------------------------
(* The inductive invariant.                                                 *)

(* All code that frames run, with that of an idle main line.                *)
Code == {serial_write_str, vga_put_string, vga_atomic, serial_atomic, log_output,
         log_panic, panic, <<>>}

(* Frames run calls from the start; fatal ones get no further than halt and *)
(* run while no other CPU does.                                             *)
Frames ==
    \A c \in CPU : \A n \in DOMAIN stack[c] :
        LET f == stack[c][n]
        IN  /\ f.call \in Code
            /\ f.pc <= Len(f.call) + 1
            /\ f.call \in Fatal => f.pc <= Len(f.call) /\ Alone(c)

(* The log lock excludes, which nothing forces open.                        *)
LogHeld ==
    /\ \A c, d \in CPU : \A n \in DOMAIN stack[c], m \in DOMAIN stack[d] :
           Holds(stack[c][n], "log") /\ Holds(stack[d][m], "log") => c = d /\ n = m
    /\ \A c \in CPU : \A n \in DOMAIN stack[c] :
           Holds(stack[c][n], "log") => locked["log"] = 1

(* What a panic that has got to its instruction pc has found: the serial    *)
(* lock free until it takes it, and interrupts off in the flag it saves,    *)
(* stores in the lock and reads back.                                       *)
Settled(pc, flag) ==
    /\ pc \in {3, 4} => locked["serial"] = 0
    /\ pc \in {4, 7, 9, 12} => ~flag
    /\ pc \in {5, 6} => ~interrupts_enabled["serial"]
    /\ pc \in {10, 11} => ~interrupts_enabled["vga"]

(* Fatal code past its cli has nothing on top, save other fatal code.       *)
Sealed(f) == f.call \in Fatal /\ Past(f, <<"cli", NoLock>>)
Masked ==
    \A c \in CPU : \A n \in Live(c) :
        LET f == stack[c][n]
        IN  Sealed(f) => /\ n = Len(stack[c])
                         /\ ~iflag[c]
                         /\ f.call = panic => Settled(f.pc, f.flag)

IInv == TypeOK /\ Frames /\ LogHeld /\ Masked

-----------------------------------------------------------------------------
(* No call is taken for another.                                            *)
LEMMA Lengths == Len(panic) = 13 /\ Len(log_panic) = 16 /\ Len(log_output) = 14
<1>1. Len(panic) = 13
  BY PanicIs
<1>2. Len(log_panic) = 16
  BY LogPanicIs
<1>3. Len(log_output) = 14
  BY LogIs
<1>4. QED  BY <1>1, <1>2, <1>3

(* What the proofs use of the code.                                         *)
LEMMA CodeIs ==
    /\ Calls \subseteq Code /\ HandlerCalls \subseteq Code
    /\ panic # log_panic /\ panic # log_output
    /\ {serial_write_str, log_output, <<>>} \intersect Fatal = {}
    /\ \A code \in Code :
          /\ code \in Seq(Instruction)
          /\ code \in Fatal => Len(code) # 0 /\ code[Len(code)] = <<"halt", "none">>
          /\ \A i \in 1 .. Len(code) :
                /\ code[i] = <<"unlock", "log">> =>
                       code \in {log_output, log_panic} /\ i = 14
                /\ code[i] = <<"force_unlock", "serial">> => code = panic /\ i = 2
<1>1. Calls \subseteq Code /\ HandlerCalls \subseteq Code
  BY DEF Calls, HandlerCalls, Code, Fatal
<1>2. panic # log_panic /\ panic # log_output /\ log_panic # log_output
  BY Lengths
<1>3. ASSUME NEW code \in {serial_write_str, vga_put_string, vga_atomic, serial_atomic, <<>>}
      PROVE  /\ code \in Seq(Instruction) /\ code \notin Fatal
             /\ \A i \in 1 .. Len(code) : code[i] # <<"unlock", "log">>
                                          /\ code[i] # <<"force_unlock", "serial">>
  <2>1. Plain(code)
    BY PlainCode
  <2>2. code \notin Fatal
    <3>1. Len(code) \in {0, 5, 9}
      BY <2>1 DEF Plain
    <3>2. SUFFICES ASSUME code \in {panic, log_panic} PROVE FALSE
      BY DEF Fatal
    <3>3. CASE code = panic
      <4>1. Len(code) = 13
        BY <3>3, PanicIs
      <4>2. QED  BY ONLY <3>1, <4>1
    <3>4. CASE code = log_panic
      <4>1. Len(code) = 16
        BY <3>4, LogPanicIs
      <4>2. QED  BY ONLY <3>1, <4>1
    <3>5. QED  BY <3>2, <3>3, <3>4
  <2>3. QED  BY <2>1, <2>2 DEF Plain
<1>4. ASSUME NEW code \in {log_output, log_panic}
      PROVE  /\ code \in Seq(Instruction)
             /\ code \in Fatal => Len(code) # 0 /\ code[Len(code)] = <<"halt", "none">>
             /\ \A i \in 1 .. Len(code) : /\ code[i] = <<"unlock", "log">> => i = 14
                                          /\ code[i] # <<"force_unlock", "serial">>
  <2>1. code \in Seq(Instruction)
    BY LogIs, LogPanicIs
  <2>2. code \in Fatal => code = log_panic
    BY <1>2 DEF Fatal
  <2>3. Len(log_panic) # 0 /\ log_panic[Len(log_panic)] = <<"halt", "none">>
    BY LogPanicIs
  <2>4. QED  BY <2>1, <2>2, <2>3, LogPlaces
<1>5. /\ panic \in Seq(Instruction)
      /\ Len(panic) # 0 /\ panic[Len(panic)] = <<"halt", "none">>
      /\ \A i \in 1 .. Len(panic) : /\ panic[i] # <<"unlock", "log">>
                                    /\ panic[i] = <<"force_unlock", "serial">> => i = 2
  BY PanicIs, PanicPlaces
<1>6. {serial_write_str, log_output, <<>>} \intersect Fatal = {}
  BY <1>2, <1>3 DEF Fatal
<1>7. QED  BY <1>1, <1>2, <1>3, <1>4, <1>5, <1>6 DEF Code

(* The frame a CPU runs.                                                    *)
LEMMA TopIs ==
    ASSUME TypeOK, NEW c \in CPU
    PROVE  /\ Len(stack[c]) \in Nat /\ Len(stack[c]) >= 1
           /\ DOMAIN stack[c] = 1 .. Len(stack[c])
           /\ \A n \in 1 .. Len(stack[c]) : stack[c][n] \in Frame
           /\ Top(c) = stack[c][Len(stack[c])] /\ Top(c) \in Frame
<1>1. stack[c] \in Seq(Frame) /\ Len(stack[c]) \in 1 .. MaxFrames + 1
  BY DEF TypeOK
<1>2. PICK k \in Nat : k = Len(stack[c]) /\ k >= 1
  <2>0. MaxFrames \in Nat
    BY ConsoleAssumption, Zenon
  <2>1. MaxFrames + 1 \in Nat
    BY ONLY <2>0
  <2>2. QED  BY <1>1, <2>1
<1>3. DOMAIN stack[c] = 1 .. k /\ \A n \in 1 .. k : stack[c][n] \in Frame
  BY <1>1, <1>2
<1>4. Top(c) = stack[c][k] /\ k \in 1 .. k
  BY <1>2 DEF Top
<1>5. QED  BY <1>2, <1>3, <1>4

(* Going on changes the top frame only.                                     *)
LEMMA AdvanceIs ==
    ASSUME TypeOK, NEW c \in CPU, NEW flag \in BOOLEAN, Advance(c, flag)
    PROVE  /\ stack' \in [CPU -> Seq(Frame)]
           /\ \A d \in CPU : d # c => stack'[d] = stack[d]
           /\ Len(stack'[c]) = Len(stack[c]) /\ DOMAIN stack'[c] = DOMAIN stack[c]
           /\ \A n \in DOMAIN stack[c] : n # Len(stack[c]) => stack'[c][n] = stack[c][n]
           /\ LET g == stack'[c][Len(stack[c])]
              IN  g.call = Top(c).call /\ g.pc = Top(c).pc + 1 /\ g.flag = flag
<1>1. PICK k \in Nat : k = Len(stack[c]) /\ k >= 1
  BY TopIs
<1>2. PICK f : f = Top(c)
  OBVIOUS
<1>3. PICK s : s = stack[c]
  OBVIOUS
<1>4. s \in Seq(Frame) /\ Len(s) = k /\ DOMAIN s = 1 .. k /\ s[k] = f /\ f \in Frame
  BY <1>1, <1>2, <1>3, TopIs DEF TypeOK
<1>5. PICK g : g = [f EXCEPT !.pc = f.pc + 1, !.flag = flag]
  OBVIOUS
<1>6. g \in Frame /\ g.call = f.call /\ g.pc = f.pc + 1 /\ g.flag = flag
  <2>1. /\ f.call \in Seq(Instruction) /\ f.pc \in Nat \ {0} /\ f.saved \in BOOLEAN
        /\ f = [call |-> f.call, pc |-> f.pc, flag |-> f.flag, saved |-> f.saved]
    BY <1>4 DEF Frame
  <2>2. f.pc + 1 \in Nat \ {0}
    BY <2>1
  <2>3. g = [call |-> f.call, pc |-> f.pc + 1, flag |-> flag, saved |-> f.saved]
    BY <1>5, <2>1
  <2>4. QED  BY <2>1, <2>2, <2>3 DEF Frame
<1>7. stack' = [stack EXCEPT ![c] = [s EXCEPT ![k] = g]]
  BY <1>1, <1>2, <1>3, <1>4, <1>5, Zenon DEF Advance
<1>8. PICK u : u = [s EXCEPT ![k] = g]
  OBVIOUS
<1>9. /\ u \in Seq(Frame) /\ Len(u) = k /\ DOMAIN u = 1 .. k /\ u[k] = g
      /\ \A n \in 1 .. k : n # k => u[n] = s[n]
  BY <1>1, <1>4, <1>6, <1>8
<1>10. stack \in [CPU -> Seq(Frame)]
  BY DEF TypeOK
<1>11. /\ stack' \in [CPU -> Seq(Frame)] /\ stack'[c] = u
       /\ \A d \in CPU : d # c => stack'[d] = stack[d]
  BY <1>7, <1>8, <1>9, <1>10
<1>12. QED  BY <1>1, <1>2, <1>3, <1>4, <1>6, <1>9, <1>11

(* A frame that is entered is on top of the others.                         *)
LEMMA EnterIs ==
    ASSUME TypeOK, NEW c \in CPU, NEW code \in Code, Enter(c, code)
    PROVE  /\ stack' \in [CPU -> Seq(Frame)]
           /\ \A d \in CPU : d # c => stack'[d] = stack[d]
           /\ Len(stack'[c]) = Len(stack[c]) + 1 /\ DOMAIN stack'[c] = 1 .. Len(stack[c]) + 1
           /\ \A n \in DOMAIN stack[c] : stack'[c][n] = stack[c][n]
           /\ LET g == stack'[c][Len(stack[c]) + 1] IN g.call = code /\ g.pc = 1
<1>1. PICK k \in Nat : k = Len(stack[c]) /\ k >= 1
  BY TopIs
<1>2. PICK s : s = stack[c]
  OBVIOUS
<1>3. s \in Seq(Frame) /\ Len(s) = k /\ DOMAIN s = 1 .. k
  BY <1>1, <1>2, TopIs DEF TypeOK
<1>4. PICK g : g = NewFrame(code, iflag[c])
  OBVIOUS
<1>5. g \in Frame /\ g.call = code /\ g.pc = 1
  BY <1>4, CodeIs DEF NewFrame, Frame, TypeOK
<1>6. stack' = [stack EXCEPT ![c] = Append(s, g)]
  BY <1>2, <1>4 DEF Enter
<1>7. PICK u : u = Append(s, g)
  OBVIOUS
<1>8. /\ u \in Seq(Frame) /\ Len(u) = k + 1 /\ DOMAIN u = 1 .. k + 1 /\ u[k + 1] = g
      /\ \A n \in 1 .. k : u[n] = s[n]
  BY <1>3, <1>5, <1>7
<1>9. stack \in [CPU -> Seq(Frame)]
  BY DEF TypeOK
<1>10. /\ stack' \in [CPU -> Seq(Frame)] /\ stack'[c] = u
       /\ \A d \in CPU : d # c => stack'[d] = stack[d]
  BY <1>6, <1>7, <1>8, <1>9
<1>11. QED  BY <1>1, <1>2, <1>3, <1>5, <1>8, <1>10

(* A main line that calls, or is done, has one frame, at its first          *)
(* instruction.                                                             *)
LEMMA OneFrameIs ==
    ASSUME TypeOK, NEW c \in CPU, NEW code \in Code,
           stack' = [stack EXCEPT ![c] = <<NewFrame(code, TRUE)>>]
    PROVE  /\ stack' \in [CPU -> Seq(Frame)]
           /\ \A d \in CPU : d # c => stack'[d] = stack[d]
           /\ Len(stack'[c]) = 1 /\ DOMAIN stack'[c] = {1}
           /\ stack'[c][1].call = code /\ stack'[c][1].pc = 1
<1>1. PICK g : g = NewFrame(code, TRUE)
  OBVIOUS
<1>2. g \in Frame /\ g.call = code /\ g.pc = 1
  BY <1>1, CodeIs DEF NewFrame, Frame
<1>3. PICK u : u = <<g>>
  OBVIOUS
<1>4. u \in Seq(Frame) /\ Len(u) = 1 /\ DOMAIN u = {1} /\ u[1] = g
  BY <1>2, <1>3
<1>5. stack \in [CPU -> Seq(Frame)] /\ stack' = [stack EXCEPT ![c] = u]
  BY <1>1, <1>3 DEF TypeOK
<1>6. QED  BY <1>2, <1>4, <1>5

(* A handler that is done leaves the frames below it.                       *)
LEMMA ReturnIs ==
    ASSUME TypeOK, NEW c \in CPU, Return(c)
    PROVE  /\ stack' \in [CPU -> Seq(Frame)]
           /\ \A d \in CPU : d # c => stack'[d] = stack[d]
           /\ \/ /\ Len(stack[c]) = 1 /\ Len(stack'[c]) = 1 /\ DOMAIN stack'[c] = {1}
                 /\ stack'[c][1].call = <<>> /\ stack'[c][1].pc = 1
              \/ /\ Len(stack[c]) > 1 /\ Len(stack'[c]) = Len(stack[c]) - 1
                 /\ DOMAIN stack'[c] = 1 .. Len(stack[c]) - 1
                 /\ \A n \in 1 .. Len(stack[c]) - 1 : stack'[c][n] = stack[c][n]
<1>1. PICK k \in Nat : k = Len(stack[c]) /\ k >= 1
  BY TopIs
<1>2. PICK s : s = stack[c]
  OBVIOUS
<1>3. s \in Seq(Frame) /\ Len(s) = k /\ DOMAIN s = 1 .. k
  BY <1>1, <1>2, TopIs DEF TypeOK
<1>4. CASE k = 1
  <2>1. stack' = [stack EXCEPT ![c] = <<NewFrame(<<>>, TRUE)>>] /\ <<>> \in Code
    BY <1>1, <1>4 DEF Return, Idle, Code
  <2>2. QED  BY <1>1, <1>4, <2>1, OneFrameIs
<1>5. CASE k # 1
  <2>1. PICK u : u = SubSeq(s, 1, k - 1)
    OBVIOUS
  <2>2. /\ u \in Seq(Frame) /\ Len(u) = k - 1 /\ DOMAIN u = 1 .. k - 1
        /\ \A n \in 1 .. k - 1 : u[n] = s[n]
    <3>1. 1 \in 1 .. Len(s) + 1 /\ k - 1 \in 1 - 1 .. Len(s) /\ k - 1 \in Nat
      BY <1>1, <1>3
    <3>2. /\ SubSeq(s, 1, k - 1) \in Seq(Frame)
          /\ Len(SubSeq(s, 1, k - 1)) = k - 1 - 1 + 1
          /\ \A i \in 1 .. k - 1 - 1 + 1 : SubSeq(s, 1, k - 1)[i] = s[1 + i - 1]
      BY <1>3, <3>1, SubSeqProperties
    <3>3. QED  BY <1>1, <2>1, <3>1, <3>2
  <2>3. stack' = [stack EXCEPT ![c] = u] /\ stack \in [CPU -> Seq(Frame)]
    BY <1>1, <1>2, <1>5, <2>1 DEF Return, TypeOK
  <2>4. stack'[c] = u /\ k > 1
    BY <1>1, <1>5, <2>3
  <2>5. QED  BY <1>1, <1>2, <1>3, <2>2, <2>3, <2>4
<1>6. QED  BY <1>4, <1>5

-----------------------------------------------------------------------------
(* The steps, by what they do to the stack.                                 *)

(* The running frame executes the instruction it is at.                     *)
Executes(c, i) ==
    /\ Top(c).pc <= Len(Top(c).call)
    /\ i = Top(c).call[Top(c).pc]
    /\ i # <<"halt", "none">>
    /\ \E flag \in BOOLEAN : Advance(c, flag)

(* A handler starts, which on top of sealed code is fatal itself.           *)
Enters(c, code) ==
    /\ Enter(c, code)
    /\ Len(stack[c]) <= MaxFrames
    /\ code \in Fatal => Alone(c)
    /\ \/ code \in Fatal
       \/ iflag[c]
       \/ \A n \in DOMAIN stack[c] : stack[c][n].call \notin Fatal

(* An operation other than the halt, with the Advance it makes.             *)
LEMMA ExecutesIs ==
    ASSUME NEW c, NEW op, NEW l, At(c, op, l), op # "halt",
           NEW flag \in BOOLEAN, Advance(c, flag)
    PROVE  \E i : Executes(c, i)
<1>1. Executes(c, <<op, l>>)
  <2>1. <<op, l>> # <<"halt", "none">>
    OBVIOUS
  <2>2. \E b \in BOOLEAN : Advance(c, b)
    OBVIOUS
  <2>3. QED  BY <2>1, <2>2 DEF Executes, At
<1>2. QED  BY <1>1

(* Each instruction of Step goes on with the frame it is in and keeps the   *)
(* types of the other variables.                                            *)
LEMMA StepIs ==
    ASSUME TypeOK, NEW c \in CPU, Step(c)
    PROVE  /\ Return(c) \/ \E i : Executes(c, i)
           /\ locked' \in [Lock -> {0, 1}]
           /\ interrupts_enabled' \in [Lock -> BOOLEAN]
           /\ iflag' \in [CPU -> BOOLEAN]
           /\ online' = online
<1>0. /\ locked \in [Lock -> {0, 1}]
      /\ interrupts_enabled \in [Lock -> BOOLEAN]
      /\ iflag \in [CPU -> BOOLEAN]
      /\ Top(c).flag \in BOOLEAN /\ Top(c).saved \in BOOLEAN
  BY TopIs DEF TypeOK, Frame
<1>1. ASSUME NEW l \in Lock, CliSave(c, l)
      PROVE  /\ \E i : Executes(c, i)
             /\ UNCHANGED <<locked, interrupts_enabled, online>>
             /\ iflag' \in [CPU -> BOOLEAN]
  <2>1. At(c, "cli_save", l) /\ Advance(c, iflag[c]) /\ iflag[c] \in BOOLEAN
    BY <1>0, <1>1 DEF CliSave
  <2>2. \E i : Executes(c, i)
    BY <2>1, ExecutesIs
  <2>3. QED  BY <1>0, <1>1, <2>2 DEF CliSave
<1>2. ASSUME NEW l \in Lock, Take(c, l)
      PROVE  /\ \E i : Executes(c, i)
             /\ UNCHANGED <<iflag, online>>
             /\ locked' \in [Lock -> {0, 1}] /\ interrupts_enabled' \in [Lock -> BOOLEAN]
  <2>1. At(c, "take", l) /\ Advance(c, FALSE) /\ FALSE \in BOOLEAN
    BY <1>0, <1>2 DEF Take
  <2>2. \E i : Executes(c, i)
    BY <2>1, ExecutesIs
  <2>3. QED  BY <1>0, <1>2, <2>2 DEF Take
<1>3. ASSUME NEW l \in Lock, WriteDevice(c, l)
      PROVE  /\ \E i : Executes(c, i)
             /\ UNCHANGED <<locked, interrupts_enabled, iflag, online>>
  <2>1. At(c, "write", l) /\ Advance(c, FALSE) /\ FALSE \in BOOLEAN
    BY <1>0, <1>3 DEF WriteDevice
  <2>2. \E i : Executes(c, i)
    BY <2>1, ExecutesIs
  <2>3. QED  BY <1>0, <1>3, <2>2 DEF WriteDevice
<1>4. ASSUME NEW l \in Lock, Reset(c, l)
      PROVE  /\ \E i : Executes(c, i)
             /\ UNCHANGED <<locked, iflag, online>>
             /\ interrupts_enabled' \in [Lock -> BOOLEAN]
  <2>1. At(c, "reset", l) /\ Advance(c, interrupts_enabled[l]) /\ interrupts_enabled[l] \in BOOLEAN
    BY <1>0, <1>4 DEF Reset
  <2>2. \E i : Executes(c, i)
    BY <2>1, ExecutesIs
  <2>3. QED  BY <1>0, <1>4, <2>2 DEF Reset
<1>5. ASSUME NEW l \in Lock, Unlock(c, l)
      PROVE  /\ \E i : Executes(c, i)
             /\ UNCHANGED <<interrupts_enabled, online>>
             /\ locked' \in [Lock -> {0, 1}] /\ iflag' \in [CPU -> BOOLEAN]
  <2>1. At(c, "unlock", l) /\ Advance(c, FALSE) /\ FALSE \in BOOLEAN
    BY <1>0, <1>5 DEF Unlock
  <2>2. \E i : Executes(c, i)
    BY <2>1, ExecutesIs
  <2>3. QED  BY <1>0, <1>5, <2>2 DEF Unlock
<1>6. ASSUME Cli(c)
      PROVE  /\ \E i : Executes(c, i)
             /\ UNCHANGED <<locked, interrupts_enabled, online>>
             /\ iflag' \in [CPU -> BOOLEAN]
  <2>1. At(c, "cli", NoLock) /\ Advance(c, FALSE) /\ FALSE \in BOOLEAN
    BY <1>0, <1>6 DEF Cli
  <2>2. \E i : Executes(c, i)
    BY <2>1, ExecutesIs
  <2>3. QED  BY <1>0, <1>6, <2>2 DEF Cli
<1>7. ASSUME ForceUnlock(c)
      PROVE  /\ \E i : Executes(c, i)
             /\ UNCHANGED <<interrupts_enabled, iflag, online>>
             /\ locked' \in [Lock -> {0, 1}]
  <2>1. At(c, "force_unlock", "serial") /\ Advance(c, FALSE) /\ FALSE \in BOOLEAN
    BY <1>0, <1>7 DEF ForceUnlock
  <2>2. \E i : Executes(c, i)
    BY <2>1, ExecutesIs
  <2>3. QED  BY <1>0, <1>7, <2>2 DEF ForceUnlock
<1>8. CASE Return(c)
  BY <1>0, <1>8 DEF Return
<1>9. QED  BY <1>0, <1>1, <1>2, <1>3, <1>4, <1>5, <1>6, <1>7, <1>8 DEF Step

(* Every step of the system is an instruction, a return, a call of the main *)
(* line or a handler that starts.                                           *)
LEMMA Kinds ==
    ASSUME TypeOK, Next
    PROVE  /\ locked' \in [Lock -> {0, 1}]
           /\ interrupts_enabled' \in [Lock -> BOOLEAN]
           /\ iflag' \in [CPU -> BOOLEAN]
           /\ online' = online
           /\ \E c \in CPU :
                 /\ c \in online
                 /\ \/ Step(c)
                    \/ \E code \in Code : Call(c, code)
                    \/ \E code \in Code : Enters(c, code) /\ UNCHANGED <<locked, interrupts_enabled>>
<1>0. /\ locked \in [Lock -> {0, 1}]
      /\ interrupts_enabled \in [Lock -> BOOLEAN]
      /\ iflag \in [CPU -> BOOLEAN]
      /\ online \subseteq CPU
  BY DEF TypeOK
<1>1. PICK c \in online : \/ Step(c)
                          \/ \E code \in Calls : Call(c, code)
                          \/ \E code \in HandlerCalls : Interrupt(c, code)
                          \/ Breakpoint(c)
                          \/ Fault(c)
  BY DEF Next
<1>2. c \in CPU
  BY <1>0
<1>3. CASE Step(c)
  BY <1>2, <1>3, StepIs
<1>4. ASSUME NEW code \in Calls, Call(c, code)
      PROVE  code \in Code /\ UNCHANGED <<locked, interrupts_enabled, iflag, online>>
  BY <1>4, CodeIs DEF Call
<1>5. ASSUME NEW code, Enter(c, code)
      PROVE  iflag' \in [CPU -> BOOLEAN] /\ UNCHANGED <<locked, interrupts_enabled, online>>
  BY <1>0, <1>5 DEF Enter
<1>6. Len(stack[c]) \in Nat /\ MaxFrames \in Nat
  <2>1. MaxFrames \in Nat
    BY ConsoleAssumption, Zenon
  <2>2. QED  BY <1>2, <2>1, TopIs
<1>7. ASSUME NEW code \in HandlerCalls, Interrupt(c, code)
      PROVE  code \in Code /\ Enters(c, code) /\ Enter(c, code)
  <2>1. code \in Code /\ code \notin Fatal
    BY CodeIs DEF Fatal, HandlerCalls
  <2>2. QED  BY <1>6, <1>7, <2>1 DEF Interrupt, Enters
<1>8. ASSUME Breakpoint(c)
      PROVE  /\ serial_write_str \in Code
             /\ Enters(c, serial_write_str) /\ Enter(c, serial_write_str)
  <2>1. serial_write_str \in Code /\ serial_write_str \notin Fatal
    BY CodeIs DEF Fatal, Code
  <2>2. QED  BY <1>6, <1>8, <2>1 DEF Breakpoint, Enters
<1>9. ASSUME Fault(c)
      PROVE  panic \in Code /\ Enters(c, panic) /\ Enter(c, panic)
  <2>1. panic \in Code /\ panic \in Fatal
    BY DEF Fatal, Code
  <2>2. QED  BY <1>6, <1>9, <2>1 DEF Fault, Enters
<1>10. QED
  <2>1. CASE \E code \in Calls : Call(c, code)
    BY <1>0, <1>2, <1>4, <2>1
  <2>2. CASE \E code \in HandlerCalls : Interrupt(c, code)
    BY <1>0, <1>2, <1>5, <1>7, <2>2
  <2>3. CASE Breakpoint(c)
    BY <1>0, <1>2, <1>5, <1>8, <2>3
  <2>4. CASE Fault(c)
    BY <1>0, <1>2, <1>5, <1>9, <2>4
  <2>5. QED  BY <1>1, <1>3, <2>1, <2>2, <2>3, <2>4

(* The stack after a step of c: as ever for the other CPUs; for c, the      *)
(* frames below the running one stay as they are.                           *)
StackChange(c) ==
    /\ stack' \in [CPU -> Seq(Frame)]
    /\ \A d \in CPU : d # c => stack'[d] = stack[d]
    /\ Len(stack'[c]) \in 1 .. MaxFrames + 1
    /\ DOMAIN stack'[c] = 1 .. Len(stack'[c])
    /\ \A n \in 1 .. Len(stack'[c]) :
          \/ n \in 1 .. Len(stack[c]) /\ stack'[c][n] = stack[c][n]
          \/ /\ n = Len(stack[c]) /\ stack'[c][n].call = Top(c).call
             /\ stack'[c][n].pc = Top(c).pc + 1
             /\ \E i : Executes(c, i)
          \/ /\ stack'[c][n].pc = 1 /\ stack'[c][n].call \in Code
             /\ stack'[c][n].call \in Fatal => Alone(c)

(* Every step changes it so.                                                *)
LEMMA StackChanges ==
    ASSUME TypeOK, NEW c \in CPU,
           \/ Step(c)
           \/ \E code \in Code : Call(c, code)
           \/ \E code \in Code : Enters(c, code)
    PROVE  StackChange(c)
<1>1. MaxFrames \in Nat
  BY ConsoleAssumption, Zenon
<1>2. PICK k \in Nat : k = Len(stack[c]) /\ k >= 1 /\ k <= MaxFrames + 1
  <2>1. Len(stack[c]) \in 1 .. MaxFrames + 1
    BY DEF TypeOK
  <2>2. QED  BY <1>1, <2>1, TopIs
<1>3. DOMAIN stack[c] = 1 .. k
  BY <1>2, TopIs
<1>4. ASSUME NEW i, Executes(c, i) PROVE StackChange(c)
  <2>1. PICK flag \in BOOLEAN : Advance(c, flag)
    BY <1>4 DEF Executes
  <2>2. /\ stack' \in [CPU -> Seq(Frame)]
        /\ \A d \in CPU : d # c => stack'[d] = stack[d]
        /\ Len(stack'[c]) = k /\ DOMAIN stack'[c] = 1 .. k
        /\ \A n \in 1 .. k : n # k => stack'[c][n] = stack[c][n]
        /\ stack'[c][k].call = Top(c).call /\ stack'[c][k].pc = Top(c).pc + 1
    BY <1>2, <1>3, <2>1, AdvanceIs
  <2>3. k \in 1 .. MaxFrames + 1
    BY <1>1, <1>2
  <2>4. QED  BY <1>2, <1>4, <2>2, <2>3 DEF StackChange
<1>5. CASE Return(c)
  <2>1. /\ stack' \in [CPU -> Seq(Frame)]
        /\ \A d \in CPU : d # c => stack'[d] = stack[d]
        /\ \/ /\ k = 1 /\ Len(stack'[c]) = 1 /\ DOMAIN stack'[c] = {1}
              /\ stack'[c][1].call = <<>> /\ stack'[c][1].pc = 1
           \/ /\ k > 1 /\ Len(stack'[c]) = k - 1
              /\ DOMAIN stack'[c] = 1 .. k - 1
              /\ \A n \in 1 .. k - 1 : stack'[c][n] = stack[c][n]
    BY <1>2, <1>5, ReturnIs
  <2>2. CASE Len(stack'[c]) = 1 /\ DOMAIN stack'[c] = {1}
             /\ stack'[c][1].call = <<>> /\ stack'[c][1].pc = 1
    <3>1. <<>> \in Code /\ <<>> \notin Fatal
      BY CodeIs DEF Code
    <3>2. 1 .. 1 = {1} /\ 1 \in 1 .. MaxFrames + 1
      BY <1>1
    <3>3. QED  BY <2>1, <2>2, <3>1, <3>2 DEF StackChange
  <2>3. CASE /\ k > 1 /\ Len(stack'[c]) = k - 1
             /\ DOMAIN stack'[c] = 1 .. k - 1
             /\ \A n \in 1 .. k - 1 : stack'[c][n] = stack[c][n]
    <3>1. k - 1 \in 1 .. MaxFrames + 1 /\ 1 .. k - 1 \subseteq 1 .. k
      BY <1>1, <1>2, <2>3
    <3>2. QED  BY <1>2, <2>1, <2>3, <3>1 DEF StackChange
  <2>4. QED  BY <2>1, <2>2, <2>3
<1>6. ASSUME NEW code \in Code, Call(c, code) PROVE StackChange(c)
  <2>1. /\ stack' = [stack EXCEPT ![c] = <<NewFrame(code, TRUE)>>]
        /\ code \in Fatal => Alone(c)
    BY <1>6 DEF Call
  <2>2. /\ stack' \in [CPU -> Seq(Frame)]
        /\ \A d \in CPU : d # c => stack'[d] = stack[d]
        /\ Len(stack'[c]) = 1 /\ DOMAIN stack'[c] = {1}
        /\ stack'[c][1].call = code /\ stack'[c][1].pc = 1
    BY <2>1, OneFrameIs
  <2>3. 1 .. 1 = {1} /\ 1 \in 1 .. MaxFrames + 1
    BY <1>1
  <2>4. QED  BY <2>1, <2>2, <2>3 DEF StackChange
<1>7. ASSUME NEW code \in Code, Enters(c, code) PROVE StackChange(c)
  <2>1. Enter(c, code) /\ k <= MaxFrames /\ (code \in Fatal => Alone(c))
    BY <1>2, <1>7 DEF Enters
  <2>2. /\ stack' \in [CPU -> Seq(Frame)]
        /\ \A d \in CPU : d # c => stack'[d] = stack[d]
        /\ Len(stack'[c]) = k + 1 /\ DOMAIN stack'[c] = 1 .. k + 1
        /\ \A n \in 1 .. k : stack'[c][n] = stack[c][n]
        /\ stack'[c][k + 1].call = code /\ stack'[c][k + 1].pc = 1
    BY <1>2, <1>3, <2>1, EnterIs
  <2>3. /\ k + 1 \in 1 .. MaxFrames + 1
        /\ \A n \in 1 .. k + 1 : n \in 1 .. k \/ n = k + 1
    BY <1>1, <1>2, <2>1
  <2>4. QED  BY <1>2, <2>1, <2>2, <2>3 DEF StackChange
<1>8. QED  BY <1>4, <1>5, <1>6, <1>7, StepIs

(* The types.                                                               *)
LEMMA TypesStep == TypeOK /\ Next => TypeOK'
<1>1. SUFFICES ASSUME TypeOK, Next PROVE TypeOK'
  OBVIOUS
<1>2. PICK c \in CPU : StackChange(c)
  BY <1>1, Kinds, StackChanges
<1>3. ASSUME NEW d \in CPU PROVE Len(stack'[d]) \in 1 .. MaxFrames + 1
  BY <1>1, <1>2 DEF StackChange, TypeOK
<1>4. online' \in SUBSET CPU \ {{}}
  BY <1>1, Kinds DEF TypeOK
<1>5. stack' \in [CPU -> Seq(Frame)]
  BY <1>2 DEF StackChange
<1>6. QED  BY <1>1, <1>3, <1>4, <1>5, Kinds DEF TypeOK

(* The frames: an instruction that is not a halt is not the last one of     *)
(* fatal code.                                                              *)
LEMMA FramesStep == TypeOK /\ Frames /\ Next => Frames'
<1>1. SUFFICES ASSUME TypeOK, Frames, Next PROVE Frames'
  OBVIOUS
<1>2. PICK c \in CPU : StackChange(c)
  BY <1>1, Kinds, StackChanges
<1>3. online' = online
  BY <1>1, Kinds
<1>4. ASSUME NEW n \in 1 .. Len(stack'[c])
      PROVE  /\ stack'[c][n].call \in Code
             /\ stack'[c][n].pc <= Len(stack'[c][n].call) + 1
             /\ stack'[c][n].call \in Fatal =>
                    stack'[c][n].pc <= Len(stack'[c][n].call) /\ Alone(c)
  <2>0. PICK g, f : g = stack'[c][n] /\ f = stack[c][n]
    OBVIOUS
  <2>1. CASE n \in 1 .. Len(stack[c]) /\ g = f
    BY <1>1, <2>0, <2>1, TopIs DEF Frames
  <2>2. CASE /\ n = Len(stack[c]) /\ g.call = Top(c).call
             /\ g.pc = Top(c).pc + 1
             /\ \E i : Executes(c, i)
    <3>1. PICK code, pc : code = Top(c).call /\ pc = Top(c).pc
      OBVIOUS
    <3>2. /\ code \in Code /\ code \in Seq(Instruction) /\ pc \in Nat \ {0}
          /\ code \in Fatal => Alone(c)
      BY <1>1, <3>1, CodeIs, TopIs DEF Frames, Frame
    <3>3. pc <= Len(code) /\ code[pc] # <<"halt", "none">>
      BY <2>2, <3>1 DEF Executes
    <3>4. code \in Fatal => code[Len(code)] = <<"halt", "none">>
      BY <3>2, CodeIs
    <3>5. code \in Fatal => pc + 1 <= Len(code)
      BY <3>2, <3>3, <3>4
    <3>6. pc + 1 <= Len(code) + 1
      BY <3>2, <3>3
    <3>7. QED  BY <2>0, <2>2, <3>1, <3>2, <3>5, <3>6
  <2>3. CASE /\ g.pc = 1 /\ g.call \in Code
             /\ g.call \in Fatal => Alone(c)
    <3>1. PICK code : code = g.call
      OBVIOUS
    <3>2. code \in Code /\ (code \in Fatal => Len(code) # 0) /\ Len(code) \in Nat
      BY <2>3, <3>1, CodeIs
    <3>3. (code \in Fatal => 1 <= Len(code)) /\ 1 <= Len(code) + 1
      BY <3>2
    <3>4. QED  BY <2>0, <2>3, <3>1, <3>2, <3>3
  <2>4. QED  BY <1>2, <2>0, <2>1, <2>2, <2>3 DEF StackChange
<1>5. ASSUME NEW d \in CPU, NEW n \in DOMAIN stack'[d]
      PROVE  /\ stack'[d][n].call \in Code
             /\ stack'[d][n].pc <= Len(stack'[d][n].call) + 1
             /\ stack'[d][n].call \in Fatal =>
                    stack'[d][n].pc <= Len(stack'[d][n].call) /\ Alone(d)
  <2>1. CASE d = c
    BY <1>2, <1>4, <2>1 DEF StackChange
  <2>2. CASE d # c
    BY <1>1, <1>2, <2>2 DEF StackChange, Frames
  <2>3. QED  BY <2>1, <2>2
<1>6. \A d : Alone(d) => Alone(d)'
  BY <1>3 DEF Alone
<1>7. QED  BY <1>5, <1>6 DEF Frames

-----------------------------------------------------------------------------
(* A frame that has done one more instruction and holds a lock had it       *)
(* before, or has just taken it.                                            *)
LEMMA HoldsBefore ==
    ASSUME NEW f \in Frame, NEW g, g.call = f.call, g.pc = f.pc + 1,
           NEW l, Holds(g, l), f.call[f.pc] # <<"take", l>>
    PROVE  Holds(f, l)
<1>1. PICK code, pc : code = f.call /\ pc = f.pc
  OBVIOUS
<1>2. code \in Seq(Instruction) /\ pc \in Nat \ {0} /\ Len(code) \in Nat
  BY <1>1 DEF Frame
<1>3. PICK n \in 1 .. g.pc - 1 : g.call[n] = <<"take", l>>
  BY Zenon DEF Holds, Past
<1>4. n \in 1 .. pc - 1 /\ code[n] = <<"take", l>>
  <2>1. g.pc = pc + 1 /\ code[n] = <<"take", l>> /\ code[pc] # <<"take", l>>
    BY <1>1, <1>3
  <2>2. n \in 1 .. pc /\ n # pc
    BY <1>2, <1>3, <2>1
  <2>3. QED  BY <1>2, <2>1, <2>2
<1>5. PICK m \in pc + 1 .. Len(code) : code[m] = <<"unlock", l>>
  BY <1>1 DEF Holds, Ahead
<1>6. m \in pc .. Len(code)
  BY <1>2, <1>5
<1>7. QED  BY <1>1, <1>4, <1>5, <1>6 DEF Holds, Past, Ahead

(* At its first instruction a frame has done none.                          *)
LEMMA FreshFrame == ASSUME NEW g, g.pc = 1, NEW i PROVE ~Past(g, i)
<1>1. 1 .. g.pc - 1 = {}
  OBVIOUS
<1>2. QED  BY <1>1 DEF Past

(* LogHeld stays true when the word stays and no frame comes to hold it.    *)
LEMMA LogKept ==
    ASSUME LogHeld, locked'["log"] = locked["log"],
           \A d \in CPU : \A n \in DOMAIN stack'[d] :
               Holds(stack'[d][n], "log") => n \in DOMAIN stack[d] /\ Holds(stack[d][n], "log")
    PROVE  LogHeld'
  BY DEF LogHeld

(* A step of c in which it does not take the log lock makes no new holder.  *)
LEMMA NoNewHolder ==
    ASSUME TypeOK, NEW c \in CPU, StackChange(c), ~At(c, "take", "log"),
           NEW d \in CPU, NEW n \in DOMAIN stack'[d], Holds(stack'[d][n], "log")
    PROVE  n \in DOMAIN stack[d] /\ Holds(stack[d][n], "log")
<1>1. CASE d # c
  BY <1>1 DEF StackChange
<1>2. CASE d = c
  <2>0. PICK g, f : g = stack'[c][n] /\ f = stack[c][n]
    OBVIOUS
  <2>1. CASE n \in 1 .. Len(stack[c]) /\ g = f
    BY <1>2, <2>0, <2>1, TopIs
  <2>2. CASE /\ n = Len(stack[c]) /\ g.call = Top(c).call
             /\ g.pc = Top(c).pc + 1
             /\ \E i : Executes(c, i)
    <3>1. f = Top(c) /\ f \in Frame /\ n \in DOMAIN stack[c]
      BY <2>0, <2>2, TopIs
    <3>2. f.call[f.pc] # <<"take", "log">>
      BY <2>2, <3>1 DEF Executes, At
    <3>3. Holds(g, "log")
      BY <1>2, <2>0
    <3>4. Holds(f, "log")
      BY <2>2, <3>1, <3>2, <3>3, HoldsBefore
    <3>5. QED  BY <1>2, <2>0, <3>1, <3>4
  <2>3. CASE g.pc = 1
    BY <1>2, <2>0, <2>3, FreshFrame DEF Holds
  <2>4. n \in 1 .. Len(stack'[c])
    BY <1>2 DEF StackChange
  <2>5. QED  BY <2>0, <2>1, <2>2, <2>3, <2>4 DEF StackChange
<1>3. QED  BY <1>1, <1>2

(* A CPU is at one instruction.                                             *)
LEMMA AtOne ==
    ASSUME NEW c, NEW op, NEW l, At(c, op, l), op # "take" \/ l # "log"
    PROVE  ~At(c, "take", "log")
<1>1. PICK i : i = Top(c).call[Top(c).pc]
  OBVIOUS
<1>2. i = <<op, l>>
  BY <1>1 DEF At
<1>3. SUFFICES ASSUME i = <<"take", "log">> PROVE FALSE
  BY <1>1 DEF At
<1>4. QED  BY ONLY <1>2, <1>3, op # "take" \/ l # "log"

(* The word of the log lock: only take and unlock of that lock write it.    *)
LEMMA LogWord ==
    ASSUME TypeOK, NEW c \in CPU, Step(c)
    PROVE  \/ Take(c, "log")
           \/ Unlock(c, "log")
           \/ locked'["log"] = locked["log"] /\ ~At(c, "take", "log")
<1>0. locked \in [Lock -> {0, 1}] /\ Lock = {"log", "serial", "vga"}
  BY DEF TypeOK, Lock
<1>1. ASSUME NEW l \in Lock, CliSave(c, l) \/ WriteDevice(c, l) \/ Reset(c, l)
      PROVE  locked'["log"] = locked["log"] /\ ~At(c, "take", "log")
  <2>1. locked' = locked /\ (At(c, "cli_save", l) \/ At(c, "write", l) \/ At(c, "reset", l))
    BY <1>1 DEF CliSave, WriteDevice, Reset
  <2>2. QED  BY <2>1, AtOne
<1>2. ASSUME NEW l \in Lock, l # "log", Take(c, l) \/ Unlock(c, l)
      PROVE  locked'["log"] = locked["log"] /\ ~At(c, "take", "log")
  <2>1. /\ At(c, "take", l) \/ At(c, "unlock", l)
        /\ locked' = [locked EXCEPT ![l] = 1] \/ locked' = [locked EXCEPT ![l] = 0]
    BY <1>2 DEF Take, Unlock
  <2>2. QED  BY <1>0, <1>2, <2>1, AtOne
<1>3. ASSUME Cli(c) \/ ForceUnlock(c)
      PROVE  locked'["log"] = locked["log"] /\ ~At(c, "take", "log")
  <2>1. /\ At(c, "cli", NoLock) \/ At(c, "force_unlock", "serial")
        /\ locked' = locked \/ locked' = [locked EXCEPT !["serial"] = 0]
    BY <1>3 DEF Cli, ForceUnlock
  <2>2. QED  BY <1>0, <2>1, AtOne
<1>4. ASSUME Return(c)
      PROVE  locked'["log"] = locked["log"] /\ ~At(c, "take", "log")
  <2>1. Top(c).pc \in Nat /\ Len(Top(c).call) \in Nat
    BY TopIs DEF Frame
  <2>2. QED  BY <1>4, <2>1 DEF Return, At
<1>5. QED  BY <1>1, <1>2, <1>3, <1>4 DEF Step

(* The lock is taken when nobody holds it and freed by the one who does.    *)
LEMMA LogStep == TypeOK /\ Frames /\ LogHeld /\ Next => LogHeld'
<1>1. SUFFICES ASSUME TypeOK, Frames, LogHeld, Next PROVE LogHeld'
  OBVIOUS
<1>2. PICK c \in CPU : \/ Step(c)
                       \/ \E code \in Code : Call(c, code)
                       \/ \E code \in Code : Enters(c, code) /\ UNCHANGED <<locked, interrupts_enabled>>
  BY <1>1, Kinds
<1>3. StackChange(c)
  BY <1>1, <1>2, StackChanges
<1>4. PICK k \in Nat : k = Len(stack[c]) /\ k >= 1
  BY <1>1, TopIs
<1>5. DOMAIN stack[c] = 1 .. k /\ k \in DOMAIN stack[c] /\ Top(c) = stack[c][k] /\ Top(c) \in Frame
  BY <1>1, <1>4, TopIs
<1>6. CASE Take(c, "log")
  <2>1. ASSUME NEW d \in CPU, NEW n \in DOMAIN stack[d] PROVE ~Holds(stack[d][n], "log")
    BY <1>1, <1>6 DEF LogHeld, Take
  <2>2. Advance(c, FALSE)
    BY <1>6 DEF Take
  <2>3. /\ \A d \in CPU : d # c => stack'[d] = stack[d]
        /\ DOMAIN stack'[c] = DOMAIN stack[c]
        /\ \A n \in DOMAIN stack[c] : n # k => stack'[c][n] = stack[c][n]
    BY <1>1, <1>4, <2>2, AdvanceIs
  <2>4. ASSUME NEW d \in CPU, NEW n \in DOMAIN stack'[d], Holds(stack'[d][n], "log")
        PROVE  d = c /\ n = k
    BY <2>1, <2>3, <2>4
  <2>5. locked'["log"] = 1
    BY <1>1, <1>6 DEF Take, TypeOK, Lock
  <2>6. QED  BY <2>4, <2>5 DEF LogHeld
<1>7. CASE Unlock(c, "log")
  <2>1. PICK code, pc : code = Top(c).call /\ pc = Top(c).pc
    OBVIOUS
  <2>2. /\ code \in Code /\ code \in Seq(Instruction) /\ pc \in Nat \ {0}
        /\ pc <= Len(code) /\ code[pc] = <<"unlock", "log">> /\ Len(code) \in Nat
    BY <1>1, <1>5, <1>7, <2>1 DEF Unlock, At, Frames, Frame
  <2>3. code \in {log_output, log_panic} /\ pc = 14
    BY <2>2, CodeIs
  <2>4. Holds(Top(c), "log")
    <3>1. 2 \in 1 .. pc - 1 /\ code[2] = <<"take", "log">>
      BY <2>3, LogPlaces
    <3>2. pc \in pc .. Len(code)
      BY <2>2
    <3>3. QED  BY <2>1, <2>2, <3>1, <3>2 DEF Holds, Past, Ahead
  <2>5. Advance(c, FALSE) /\ ~At(c, "take", "log")
    BY <1>7, AtOne DEF Unlock
  <2>6. ASSUME NEW d \in CPU, NEW n \in DOMAIN stack'[d], Holds(stack'[d][n], "log")
        PROVE  FALSE
    <3>1. n \in DOMAIN stack[d] /\ Holds(stack[d][n], "log")
      BY <1>1, <1>3, <2>5, <2>6, NoNewHolder
    <3>2. d = c /\ n = k
      BY <1>1, <1>5, <2>4, <3>1 DEF LogHeld
    <3>3. stack'[c][k].call = code /\ stack'[c][k].pc = 15
      <4>1. stack'[c][k].call = code /\ stack'[c][k].pc = pc + 1
        BY <1>1, <1>4, <2>1, <2>5, AdvanceIs
      <4>2. QED  BY <2>3, <4>1
    <3>4. PICK m \in 15 .. Len(code) : code[m] = <<"unlock", "log">>
      BY <2>6, <3>2, <3>3 DEF Holds, Ahead
    <3>5. m \in 1 .. Len(code) /\ m # 14
      BY <2>2, <3>4
    <3>6. QED  BY <2>3, <3>4, <3>5, LogPlaces
  <2>7. QED  BY <2>6 DEF LogHeld
<1>8. CASE locked'["log"] = locked["log"] /\ ~At(c, "take", "log")
  BY <1>1, <1>3, <1>8, LogKept, NoNewHolder
<1>9. CASE \E code \in Code : Call(c, code)
  <2>1. locked' = locked /\ stack[c] = Idle
    BY <1>9 DEF Call
  <2>2. ~At(c, "take", "log")
    <3>1. Top(c).call = <<>> /\ Top(c).pc = 1
      BY <2>1 DEF Top, Idle, NewFrame
    <3>2. QED  BY <3>1 DEF At
  <2>3. QED  BY <1>8, <2>1, <2>2
<1>10. CASE \E code \in Code : Enters(c, code) /\ UNCHANGED <<locked, interrupts_enabled>>
  <2>1. PICK code \in Code : Enters(c, code) /\ UNCHANGED <<locked, interrupts_enabled>>
    BY <1>10
  <2>2. /\ \A d \in CPU : d # c => stack'[d] = stack[d]
        /\ DOMAIN stack'[c] = 1 .. k + 1
        /\ \A n \in DOMAIN stack[c] : stack'[c][n] = stack[c][n]
        /\ stack'[c][k + 1].pc = 1
    BY <1>1, <1>4, <2>1, EnterIs DEF Enters
  <2>3. ASSUME NEW d \in CPU, NEW n \in DOMAIN stack'[d], Holds(stack'[d][n], "log")
        PROVE  n \in DOMAIN stack[d] /\ Holds(stack[d][n], "log")
    <3>1. CASE d # c
      BY <2>2, <2>3, <3>1
    <3>2. CASE d = c /\ n = k + 1
      BY <2>2, <2>3, <3>2, FreshFrame DEF Holds
    <3>3. CASE d = c /\ n \in 1 .. k
      BY <1>5, <2>2, <2>3, <3>3
    <3>4. n \in 1 .. k + 1 /\ d = c => n \in 1 .. k \/ n = k + 1
      BY <1>4
    <3>5. QED  BY <2>2, <3>1, <3>2, <3>3, <3>4
  <2>4. QED  BY <1>1, <2>1, <2>3, LogKept
<1>11. QED
  BY <1>1, <1>2, <1>6, <1>7, <1>8, <1>9, <1>10, LogWord

-----------------------------------------------------------------------------
(* A panic, or the handler of a fatal exception, from one instruction to    *)
(* the next.                                                                *)
LEMMA PanicStep ==
    ASSUME TypeOK, NEW c \in CPU, Step(c), NEW pc \in 1 .. 13, NEW flag \in BOOLEAN,
           Top(c).call = panic, Top(c).pc = pc, Top(c).flag = flag,
           pc # 1 => ~iflag[c] /\ Settled(pc, flag)
    PROVE  /\ ~iflag'[c]
           /\ \E b \in BOOLEAN : Advance(c, b) /\ Settled(pc + 1, b)'
<1>0. /\ locked \in [Lock -> {0, 1}]
      /\ interrupts_enabled \in [Lock -> BOOLEAN]
      /\ iflag \in [CPU -> BOOLEAN]
      /\ "serial" \in Lock /\ "vga" \in Lock
  BY DEF TypeOK, Lock
<1>1. \A op, l : At(c, op, l) => panic[pc] = <<op, l>>
  BY DEF At
<1>2. ASSUME NEW l \in Lock, CliSave(c, l)
      PROVE  ~iflag'[c] /\ \E b \in BOOLEAN : Advance(c, b) /\ Settled(pc + 1, b)'
  <2>1. pc \in {3, 8}
    BY <1>1, <1>2, PanicPlaces DEF CliSave
  <2>2. Advance(c, iflag[c]) /\ iflag[c] = FALSE
    BY <1>0, <1>2, <2>1 DEF CliSave
  <2>3. Settled(pc + 1, FALSE)'
    BY <1>2, <2>1 DEF CliSave, Settled
  <2>4. QED  BY <1>0, <1>2, <2>2, <2>3 DEF CliSave
<1>3. ASSUME NEW l \in Lock, Take(c, l)
      PROVE  ~iflag'[c] /\ \E b \in BOOLEAN : Advance(c, b) /\ Settled(pc + 1, b)'
  <2>1. (pc = 4 /\ l = "serial") \/ (pc = 9 /\ l = "vga")
    BY <1>1, <1>3, PanicPlaces DEF Take
  <2>2. flag = FALSE /\ ~iflag[c]
    BY <2>1 DEF Settled
  <2>3. interrupts_enabled'[l] = FALSE
    BY <1>0, <1>3, <2>2 DEF Take
  <2>4. Settled(pc + 1, FALSE)'
    BY <2>1, <2>3 DEF Settled
  <2>5. Advance(c, FALSE) /\ ~iflag'[c]
    BY <1>3, <2>2 DEF Take
  <2>6. QED  BY ONLY <2>4, <2>5, Zenon
<1>4. ASSUME NEW l \in Lock, WriteDevice(c, l)
      PROVE  ~iflag'[c] /\ \E b \in BOOLEAN : Advance(c, b) /\ Settled(pc + 1, b)'
  <2>1. pc \in {5, 10}
    BY <1>1, <1>4, PanicPlaces DEF WriteDevice
  <2>2. Settled(pc + 1, FALSE)'
    BY <1>4, <2>1 DEF WriteDevice, Settled
  <2>3. Advance(c, FALSE) /\ iflag' = iflag
    BY <1>4, Zenon DEF WriteDevice
  <2>4. ~iflag'[c]
    BY <2>1, <2>3
  <2>5. QED  BY ONLY <2>2, <2>3, <2>4, Zenon
<1>5. ASSUME NEW l \in Lock, Reset(c, l)
      PROVE  ~iflag'[c] /\ \E b \in BOOLEAN : Advance(c, b) /\ Settled(pc + 1, b)'
  <2>1. (pc = 6 /\ l = "serial") \/ (pc = 11 /\ l = "vga")
    BY <1>1, <1>5, PanicPlaces DEF Reset
  <2>2. interrupts_enabled[l] = FALSE
    BY <1>0, <2>1 DEF Settled
  <2>3. Advance(c, FALSE)
    BY <1>5, <2>2 DEF Reset
  <2>4. Settled(pc + 1, FALSE)'
    BY <2>1 DEF Settled
  <2>5. ~iflag'[c]
    BY <1>5, <2>1 DEF Reset
  <2>6. QED  BY ONLY <2>3, <2>4, <2>5, Zenon
<1>6. ASSUME NEW l \in Lock, Unlock(c, l)
      PROVE  ~iflag'[c] /\ \E b \in BOOLEAN : Advance(c, b) /\ Settled(pc + 1, b)'
  <2>1. pc \in {7, 12}
    BY <1>1, <1>6, PanicPlaces DEF Unlock
  <2>2. flag = FALSE /\ ~iflag[c]
    BY <2>1 DEF Settled
  <2>3. ~iflag'[c]
    BY <1>0, <1>6, <2>2 DEF Unlock
  <2>4. Settled(pc + 1, FALSE)'
    BY <2>1 DEF Settled
  <2>5. Advance(c, FALSE)
    BY <1>6 DEF Unlock
  <2>6. QED  BY ONLY <2>3, <2>4, <2>5, Zenon
<1>7. ASSUME Cli(c)
      PROVE  ~iflag'[c] /\ \E b \in BOOLEAN : Advance(c, b) /\ Settled(pc + 1, b)'
  <2>1. pc = 1
    BY <1>1, <1>7, PanicPlaces DEF Cli
  <2>2. Settled(pc + 1, FALSE)'
    BY <2>1 DEF Settled
  <2>3. QED  BY <1>0, <1>7, <2>2 DEF Cli
<1>8. ASSUME ForceUnlock(c)
      PROVE  ~iflag'[c] /\ \E b \in BOOLEAN : Advance(c, b) /\ Settled(pc + 1, b)'
  <2>1. pc = 2
    BY <1>1, <1>8, PanicPlaces DEF ForceUnlock
  <2>2. locked'["serial"] = 0
    BY <1>0, <1>8 DEF ForceUnlock
  <2>3. Settled(pc + 1, FALSE)'
    BY <2>1, <2>2 DEF Settled
  <2>4. Advance(c, FALSE) /\ iflag' = iflag
    BY <1>8, Zenon DEF ForceUnlock
  <2>5. ~iflag'[c]
    <3>1. pc # 1
      BY <2>1
    <3>2. QED  BY <2>4, <3>1
  <2>6. QED  BY ONLY <2>3, <2>4, <2>5, Zenon
<1>9. ~Return(c)
  BY PanicIs DEF Return
<1>10. QED  BY <1>2, <1>3, <1>4, <1>5, <1>6, <1>7, <1>8, <1>9 DEF Step

(* Only cli runs at a cli.                                                  *)
LEMMA CliIs ==
    ASSUME TypeOK, NEW c \in CPU, Step(c), NEW i, Executes(c, i), i = <<"cli", NoLock>>
    PROVE  Cli(c)
<1>1. \A op, l : At(c, op, l) => op = "cli"
  <2>1. SUFFICES ASSUME NEW op, NEW l, At(c, op, l) PROVE op = "cli"
    OBVIOUS
  <2>2. <<op, l>> = <<"cli", NoLock>>
    BY <2>1, Zenon DEF Executes, At
  <2>3. QED  BY ONLY <2>2
<1>2. ASSUME NEW l \in Lock,
             CliSave(c, l) \/ Take(c, l) \/ WriteDevice(c, l) \/ Reset(c, l) \/ Unlock(c, l)
      PROVE  FALSE
  BY <1>1, <1>2 DEF CliSave, Take, WriteDevice, Reset, Unlock
<1>3. ~ForceUnlock(c)
  BY <1>1 DEF ForceUnlock
<1>4. ~Return(c)
  <2>1. Top(c).pc \in Nat /\ Len(Top(c).call) \in Nat
    BY TopIs DEF Frame
  <2>2. QED  BY <2>1 DEF Return, Executes
<1>5. QED  BY <1>2, <1>3, <1>4 DEF Step

(* A step of a CPU changes no other, and fatal code runs while no other CPU *)
(* does; what it does to its own frames is above.                           *)
LEMMA MaskedStep == TypeOK /\ Frames /\ Frames' /\ Masked /\ Next => Masked'
<1>1. SUFFICES ASSUME TypeOK, Frames, Frames', Masked, Next PROVE Masked'
  OBVIOUS
<1>2. PICK c \in CPU :
          /\ c \in online
          /\ \/ Step(c)
             \/ \E code \in Code : Call(c, code)
             \/ \E code \in Code : Enters(c, code) /\ UNCHANGED <<locked, interrupts_enabled>>
  BY <1>1, Kinds
<1>3. StackChange(c) /\ online' = online
  BY <1>1, <1>2, Kinds, StackChanges
<1>4. PICK k \in Nat : k = Len(stack[c]) /\ k >= 1
  BY <1>1, TopIs
<1>5. /\ DOMAIN stack[c] = 1 .. k /\ k \in 1 .. k
      /\ Top(c) = stack[c][k] /\ Top(c) \in Frame
      /\ \A n \in 1 .. k : stack[c][n] \in Frame
  BY <1>1, <1>4, TopIs
<1>6. SUFFICES ASSUME NEW n \in Live(c)', Sealed(stack'[c][n])
               PROVE  /\ n = Len(stack'[c])
                      /\ ~iflag'[c]
                      /\ stack'[c][n].call = panic =>
                             Settled(stack[c][n].pc, stack[c][n].flag)'
  <2>1. ASSUME NEW d \in CPU, NEW n \in Live(d)', Sealed(stack'[d][n]) PROVE d = c
    <3>1. stack'[d][n].call \in Fatal /\ n \in DOMAIN stack'[d]
      BY <2>1 DEF Sealed, Live
    <3>2. Alone(d)'
      BY <1>1, <3>1 DEF Frames
    <3>3. QED  BY <1>2, <1>3, <3>2 DEF Alone
  <2>2. QED  BY <2>1 DEF Masked, Settled
<1>7. PICK g : g = stack'[c][n]
  OBVIOUS
<1>8. /\ g.call \in Fatal /\ Past(g, <<"cli", NoLock>>)
      /\ n \in 1 .. Len(stack'[c])
      /\ \A m \in n + 1 .. Len(stack'[c]) : stack'[c][m].call \notin Fatal
  BY <1>3, <1>6, <1>7 DEF Sealed, Live, StackChange
<1>9. g.pc # 1
  BY <1>8, FreshFrame
(* A frame that was there before and is sealed was the top one.             *)
<1>10. ASSUME n \in 1 .. k, g = stack[c][n],
              \A m \in n + 1 .. k : stack[c][m].call \notin Fatal
       PROVE  n = k /\ ~iflag[c]
  <2>1. n \in Live(c)
    BY <1>4, <1>5, <1>10 DEF Live
  <2>2. Sealed(stack[c][n])
    BY <1>8, <1>10 DEF Sealed
  <2>3. QED  BY <1>1, <1>4, <2>1, <2>2 DEF Masked
<1>11. ASSUME NEW i, Executes(c, i), Step(c)
       PROVE  /\ n = Len(stack'[c])
              /\ ~iflag'[c]
              /\ g.call = panic => Settled(g.pc, g.flag)'
  <2>1. PICK flag \in BOOLEAN : Advance(c, flag)
    BY <1>11 DEF Executes
  <2>2. /\ Len(stack'[c]) = k
        /\ \A m \in 1 .. k : m # k => stack'[c][m] = stack[c][m]
        /\ stack'[c][k].call = Top(c).call /\ stack'[c][k].pc = Top(c).pc + 1
    BY <1>1, <1>4, <1>5, <2>1, AdvanceIs
  <2>3. n = k
    <3>1. SUFFICES ASSUME n # k PROVE FALSE
      OBVIOUS
    <3>2. n \in 1 .. k /\ g = stack[c][n]
      BY <1>7, <1>8, <2>2, <3>1
    <3>3. ASSUME NEW m \in n + 1 .. k PROVE stack[c][m].call \notin Fatal
      <4>1. m \in 1 .. k
        BY <3>2
      <4>2. stack'[c][m].call = stack[c][m].call
        BY <1>5, <2>2, <4>1
      <4>3. QED  BY <1>8, <2>2, <4>2
    <3>4. QED  BY <1>10, <3>1, <3>2, <3>3
  <2>4. PICK code, pc, old : code = Top(c).call /\ pc = Top(c).pc /\ old = Top(c).flag
    OBVIOUS
  <2>5. /\ code = g.call /\ g.pc = pc + 1 /\ code \in Fatal
        /\ pc \in Nat \ {0} /\ pc <= Len(code) /\ old \in BOOLEAN
        /\ code[pc] # <<"halt", "none">>
    BY <1>5, <1>7, <1>8, <1>11, <2>2, <2>3, <2>4 DEF Executes, Frame
  <2>6. Past(Top(c), <<"cli", NoLock>>) =>
            ~iflag[c] /\ (code = panic => Settled(pc, old))
    <3>1. k \in Live(c)
      BY <1>4, <1>5 DEF Live
    <3>2. Top(c) = stack[c][k]
      BY <1>5
    <3>3. Past(Top(c), <<"cli", NoLock>>) => Sealed(stack[c][k])
      BY <2>4, <2>5, <3>2 DEF Sealed
    <3>4. QED  BY <1>1, <2>4, <3>1, <3>2, <3>3 DEF Masked
  <2>7. CASE code = panic
    <3>1. Len(code) = 13 /\ pc \in 1 .. 13
      BY <2>5, <2>7, PanicIs
    <3>2. pc # 1 => Past(Top(c), <<"cli", NoLock>>)
      <4>1. ASSUME pc # 1 PROVE 1 \in 1 .. pc - 1
        BY <3>1, <4>1
      <4>2. code[1] = <<"cli", NoLock>>
        BY <2>7, PanicIs DEF NoLock
      <4>3. QED  BY <2>4, <4>1, <4>2 DEF Past
    <3>3. ~iflag'[c] /\ \E b \in BOOLEAN : Advance(c, b) /\ Settled(pc + 1, b)'
      BY <1>1, <1>11, <2>4, <2>5, <2>6, <2>7, <3>1, <3>2, PanicStep
    <3>4. PICK b \in BOOLEAN : Advance(c, b) /\ Settled(pc + 1, b)'
      BY <3>3
    <3>5. g.flag = b
      BY <1>1, <1>4, <1>7, <2>3, <3>4, AdvanceIs
    <3>6. QED  BY <2>2, <2>3, <2>5, <3>3, <3>4, <3>5
  <2>8. CASE code = log_panic
    <3>1. Len(code) = 16 /\ pc \in 1 .. 16 /\ pc # 16
      BY <2>5, <2>8, LogPanicIs
    <3>2. PICK m \in 1 .. g.pc - 1 : g.call[m] = <<"cli", NoLock>>
      BY <1>8 DEF Past
    <3>3. m \in 1 .. 16 /\ m <= pc
      BY <2>5, <3>1, <3>2
    <3>4. m = 15 /\ pc = 15
      <4>1. m \in 1 .. Len(log_panic) /\ log_panic[m] = <<"cli", "none">>
        BY <2>5, <2>8, <3>1, <3>2, <3>3 DEF NoLock
      <4>2. m = 15
        BY <4>1, LogPlaces
      <4>3. QED  BY <3>1, <3>3, <4>2
    <3>5. Top(c).call[Top(c).pc] = <<"cli", NoLock>>
      BY <2>4, <2>8, <3>4, LogPanicIs DEF NoLock
    <3>6. Cli(c)
      BY <1>1, <1>11, <3>5, CliIs DEF Executes
    <3>7. ~iflag'[c]
      BY <1>1, <3>6 DEF Cli, TypeOK
    <3>8. code # panic
      BY <2>8, CodeIs
    <3>9. QED  BY <2>2, <2>3, <2>5, <3>7, <3>8
  <2>9. QED  BY <2>5, <2>7, <2>8 DEF Fatal
<1>12. CASE Return(c)
  <2>1. /\ Top(c).call \in Fatal => Top(c).pc <= Len(Top(c).call)
        /\ Top(c).pc > Len(Top(c).call)
        /\ Top(c).pc \in Nat /\ Len(Top(c).call) \in Nat
    BY <1>1, <1>5, <1>12 DEF Frames, Return, Frame
  <2>2. Top(c).call \notin Fatal
    BY <2>1
  <2>3. \/ /\ k = 1 /\ Len(stack'[c]) = 1 /\ stack'[c][1].pc = 1
        \/ /\ k > 1 /\ Len(stack'[c]) = k - 1
           /\ \A m \in 1 .. k - 1 : stack'[c][m] = stack[c][m]
    BY <1>1, <1>4, <1>12, ReturnIs
  <2>4. CASE Len(stack'[c]) = 1 /\ stack'[c][1].pc = 1
    BY <1>7, <1>8, <1>9, <2>4
  <2>5. CASE /\ k > 1 /\ Len(stack'[c]) = k - 1
             /\ \A m \in 1 .. k - 1 : stack'[c][m] = stack[c][m]
    <3>1. n \in 1 .. k - 1 /\ n \in 1 .. k /\ g = stack[c][n] /\ n # k
      BY <1>4, <1>7, <1>8, <2>5
    <3>2. ASSUME NEW m \in n + 1 .. k PROVE stack[c][m].call \notin Fatal
      <4>1. CASE m = k
        BY <1>5, <2>2, <4>1
      <4>2. CASE m # k
        <5>1. m \in 1 .. k - 1 /\ m \in n + 1 .. k - 1
          BY <3>1, <4>2
        <5>2. QED  BY <1>8, <2>5, <5>1
      <4>3. QED  BY <4>1, <4>2
    <3>3. QED  BY <1>10, <3>1, <3>2
  <2>6. QED  BY <2>3, <2>4, <2>5
<1>13. ASSUME NEW code \in Code, Call(c, code) PROVE FALSE
  <2>1. stack' = [stack EXCEPT ![c] = <<NewFrame(code, TRUE)>>]
    BY <1>13 DEF Call
  <2>2. Len(stack'[c]) = 1 /\ stack'[c][1].pc = 1
    BY <1>1, <2>1, OneFrameIs
  <2>3. QED  BY <1>7, <1>8, <1>9, <2>2
<1>14. ASSUME NEW code \in Code, Enters(c, code) PROVE FALSE
  <2>1. /\ Len(stack'[c]) = k + 1
        /\ \A m \in 1 .. k : stack'[c][m] = stack[c][m]
        /\ stack'[c][k + 1].call = code /\ stack'[c][k + 1].pc = 1
    BY <1>1, <1>4, <1>5, <1>14, EnterIs DEF Enters
  <2>2. n \in 1 .. k /\ g = stack[c][n]
    <3>1. n # k + 1
      BY <1>7, <1>9, <2>1
    <3>2. n \in 1 .. k
      BY <1>8, <2>1, <3>1
    <3>3. QED  BY <1>7, <2>1, <3>2
  <2>3. code \notin Fatal
    <3>1. k + 1 \in n + 1 .. Len(stack'[c])
      BY <2>1, <2>2
    <3>2. QED  BY <1>8, <2>1, <3>1
  <2>4. ASSUME NEW m \in n + 1 .. k PROVE stack[c][m].call \notin Fatal
    <3>1. m \in 1 .. k /\ m \in n + 1 .. Len(stack'[c])
      BY <2>1, <2>2
    <3>2. QED  BY <1>8, <2>1, <3>1
  <2>5. ~iflag[c]
    BY <1>10, <2>2, <2>4
  <2>6. QED  BY <1>5, <1>8, <1>14, <2>2, <2>3, <2>5 DEF Enters
<1>15. QED
  <2>1. CASE Step(c) /\ ~Return(c)
    <3>1. PICK i : Executes(c, i)
      BY <1>1, <2>1, StepIs
    <3>2. /\ n = Len(stack'[c])
          /\ ~iflag'[c]
          /\ g.call = panic => Settled(g.pc, g.flag)'
      BY <1>11, <2>1, <3>1
    <3>3. QED  BY <1>7, <3>2 DEF Settled
  <2>2. CASE Return(c)
    BY <1>7, <1>12, <2>2
  <2>3. QED  BY <1>2, <1>13, <1>14, <2>1, <2>2

-----------------------------------------------------------------------------
(* Before anything is printed: idle main lines, free locks.                 *)
LEMMA InitialInv == Init => IInv
<1>1. SUFFICES ASSUME Init PROVE IInv
  OBVIOUS
<1>2. MaxFrames \in Nat \ {0}
  BY ConsoleAssumption, Zenon
<1>3. PICK g : g = NewFrame(<<>>, TRUE)
  OBVIOUS
<1>4. /\ g \in Frame /\ g.call = <<>> /\ g.pc = 1
      /\ <<>> \in Code /\ <<>> \notin Fatal /\ Len(<<>>) = 0
  BY <1>3, CodeIs DEF NewFrame, Frame, Code
<1>5. PICK s : s = <<g>>
  OBVIOUS
<1>6. s \in Seq(Frame) /\ Len(s) = 1 /\ DOMAIN s = {1} /\ s[1] = g
  BY <1>4, <1>5
<1>7. \A c \in CPU : stack[c] = s
  BY <1>1, <1>3, <1>5 DEF Init, Idle
<1>8. TypeOK
  <2>1. stack \in [CPU -> Seq(Frame)]
    <3>1. stack = [c \in CPU |-> s]
      BY <1>1, <1>3, <1>5 DEF Init, Idle
    <3>2. QED  BY <1>6, <3>1
  <2>2. \A c \in CPU : Len(stack[c]) \in 1 .. MaxFrames + 1
    <3>1. 1 \in 1 .. MaxFrames + 1
      BY <1>2
    <3>2. QED  BY <1>6, <1>7, <3>1
  <2>3. QED  BY <1>1, <2>1, <2>2 DEF Init, TypeOK
<1>9. \A c \in CPU : \A n \in DOMAIN stack[c] : stack[c][n] = g
  BY <1>6, <1>7
<1>10. Frames
  BY <1>4, <1>9 DEF Frames
<1>11. \A i : ~Past(g, i)
  BY <1>4, FreshFrame
<1>12. LogHeld
  BY <1>9, <1>11 DEF LogHeld, Holds
<1>13. Masked
  BY <1>9, <1>11 DEF Masked, Sealed, Live
<1>14. QED  BY <1>8, <1>10, <1>12, <1>13 DEF IInv

(* The inductive invariant holds in every reachable state.                  *)
THEOREM Invariant == Spec => []IInv
<1>1. IInv /\ [Next]_vars => IInv'
  <2>1. SUFFICES ASSUME IInv, [Next]_vars PROVE IInv'
    OBVIOUS
  <2>2. CASE Next
    <3>1. TypeOK /\ Frames /\ LogHeld /\ Masked
      BY <2>1 DEF IInv
    <3>2. TypeOK' /\ Frames'
      BY <2>2, <3>1, TypesStep, FramesStep
    <3>3. LogHeld' /\ Masked'
      BY <2>2, <3>1, <3>2, LogStep, MaskedStep
    <3>4. QED  BY <3>2, <3>3 DEF IInv
  <2>3. CASE UNCHANGED vars
    BY <2>1, <2>3 DEF vars, IInv, TypeOK, Frames, Alone, LogHeld, Masked, Live, Settled
  <2>4. QED  BY <2>1, <2>2, <2>3
<1>2. QED  BY <1>1, InitialInv, PTL DEF Spec

(* Type correctness: the variables keep their types, and no stack outgrows  *)
(* MaxFrames and one fault.                                                 *)
THEOREM TypeCorrect == Spec => []TypeOK
<1>1. IInv => TypeOK
  BY DEF IInv
<1>2. QED  BY <1>1, Invariant, PTL

(* No two lines are out on the serial port and not yet on the screen: a     *)
(* half-logged line holds the log lock, which excludes.                     *)
THEOREM LogLinesInOrderHolds == Spec => []LogLinesInOrder
<1>1. ASSUME IInv PROVE LogLinesInOrder
  <2>1. TypeOK /\ Frames /\ LogHeld
    BY <1>1 DEF IInv
  <2>2. ASSUME NEW c \in CPU, NEW n \in DOMAIN stack[c], HalfLogged(stack[c][n])
        PROVE  Holds(stack[c][n], "log")
    <3>1. PICK f : f = stack[c][n]
      OBVIOUS
    <3>2. PICK code, pc : code = f.call /\ pc = f.pc
      OBVIOUS
    <3>3. /\ f \in Frame /\ pc \in Nat \ {0} /\ Len(code) \in Nat
          /\ pc <= Len(code) + 1
      BY <2>1, <2>2, <3>1, <3>2, TopIs DEF Frames, Frame
    <3>4. /\ code \in {log_output, log_panic}
          /\ Past(f, <<"write", "serial">>) /\ Ahead(f, <<"write", "vga">>)
      BY <2>2, <3>1, <3>2 DEF HalfLogged
    <3>5. 2 \in 1 .. pc - 1
      <4>1. PICK i \in 1 .. pc - 1 : code[i] = <<"write", "serial">>
        BY <3>2, <3>4 DEF Past
      <4>2. i \in 1 .. Len(code)
        BY <3>3, <4>1
      <4>3. i = 5
        BY <3>4, <4>1, <4>2, LogPlaces
      <4>4. QED  BY <3>3, <4>3
    <3>6. 14 \in pc .. Len(code)
      <4>1. PICK i \in pc .. Len(code) : code[i] = <<"write", "vga">>
        BY <3>2, <3>4 DEF Ahead
      <4>2. i \in 1 .. Len(code)
        BY <3>3, <4>1
      <4>3. i = 10 /\ Len(code) \in {14, 16}
        BY <3>4, <4>1, <4>2, LogPlaces
      <4>4. pc <= 10
        BY <3>3, <4>1, <4>3
      <4>5. 14 <= Len(code)
        <5>1. PICK k : k = Len(code)
          OBVIOUS
        <5>2. k \in {14, 16}
          BY <4>3, <5>1
        <5>3. 14 <= k
          BY <5>2
        <5>4. QED  BY <5>1, <5>3
      <4>6. QED  BY <3>3, <4>4, <4>5
    <3>7. code[2] = <<"take", "log">> /\ code[14] = <<"unlock", "log">>
      BY <3>4, LogPlaces
    <3>8. QED  BY <3>1, <3>2, <3>5, <3>6, <3>7 DEF Holds, Past, Ahead
  <2>3. QED  BY <2>1, <2>2 DEF LogLinesInOrder, LogHeld
<1>2. QED  BY <1>1, Invariant, PTL

(* Code that has forced the serial lock open finds it free: it is a panic   *)
(* past its second instruction and before its fourth, with nothing on top.  *)
THEOREM ForcedLockStaysFreeHolds == Spec => []ForcedLockStaysFree
<1>1. ASSUME IInv PROVE ForcedLockStaysFree
  <2>1. TypeOK /\ Frames /\ Masked
    BY <1>1 DEF IInv
  <2>2. SUFFICES ASSUME NEW c \in CPU, NEW n \in Live(c),
                        Past(stack[c][n], <<"force_unlock", "serial">>),
                        ~Past(stack[c][n], <<"take", "serial">>)
                 PROVE  locked["serial"] = 0
    BY DEF ForcedLockStaysFree
  <2>3. PICK f : f = stack[c][n]
    OBVIOUS
  <2>4. PICK code, pc : code = f.call /\ pc = f.pc
    OBVIOUS
  <2>5. /\ code \in Code /\ pc \in Nat \ {0} /\ Len(code) \in Nat
        /\ pc <= Len(code) + 1
    <3>1. n \in DOMAIN stack[c]
      BY DEF Live
    <3>2. QED  BY <2>1, <2>3, <2>4, <3>1, TopIs DEF Frames, Frame
  <2>6. PICK i \in 1 .. pc - 1 : code[i] = <<"force_unlock", "serial">>
    BY <2>2, <2>3, <2>4 DEF Past
  <2>7. i \in 1 .. Len(code)
    BY <2>5, <2>6
  <2>8. code = panic /\ i = 2
    BY <2>5, <2>6, <2>7, CodeIs
  <2>9. panic[1] = <<"cli", NoLock>> /\ panic[4] = <<"take", "serial">>
    BY PanicIs DEF NoLock, BothOf
  <2>10. Sealed(f)
    <3>1. 1 \in 1 .. pc - 1
      BY <2>5, <2>6, <2>8
    <3>2. QED  BY <2>4, <2>8, <2>9, <3>1 DEF Sealed, Past, Fatal
  <2>11. pc \in {3, 4}
    <3>1. 4 \notin 1 .. pc - 1
      BY <2>2, <2>3, <2>4, <2>8, <2>9 DEF Past
    <3>2. QED  BY <2>5, <2>6, <2>8, <3>1
  <2>12. Settled(pc, f.flag)
    BY <2>1, <2>3, <2>4, <2>8, <2>10 DEF Masked
  <2>13. QED  BY <2>11, <2>12 DEF Settled
<1>2. QED  BY <1>1, Invariant, PTL

(* Fatal code past its cli runs with interrupts off to the end: the flags   *)
(* it saves, stores and reads back are all clear.                           *)
THEOREM FatalStaysMaskedHolds == Spec => []FatalStaysMasked
<1>1. IInv => FatalStaysMasked
  BY DEF IInv, Masked, Sealed, FatalStaysMasked
<1>2. QED  BY <1>1, Invariant, PTL
=============================================================================
