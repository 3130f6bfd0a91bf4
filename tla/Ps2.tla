--------------------------------- MODULE Ps2 ---------------------------------
(***************************************************************************)
(* The keyboard: kernel/src/drivers/ps2.rs, and the terminal input that    *)
(* reads it, TtyStdin of kernel/src/fs/mod.rs.                             *)
(*                                                                         *)
(* Nothing interrupts: a scan code is fetched when somebody polls, turned  *)
(* into a byte and put in two queues, one for the terminal and one for     *)
(* the compositor.  The keyboard (external) has any scan code ready, or    *)
(* none, or a byte of the mouse.                                           *)
(*                                                                         *)
(* A byte in a queue is paired with the number of its key press, counted   *)
(* modulo INPUT_QUEUE + 1, so that equal bytes can be told apart; the code *)
(* has no such number, and nothing here depends on it but the properties.  *)
(***************************************************************************)
EXTENDS Integers, Sequences, FiniteSets

CONSTANTS INPUT_QUEUE,  \* bytes that a queue holds, 32 in the code
          Scancodes,    \* scan codes that the keyboard sends
          LineSize,     \* bytes of the buffer of a read
          MaxTyped      \* bound: bytes that one read takes

VARIABLES keyboard,     \* Keyboard: shift, caps and extended
          tty, events,  \* InputState: the two queues
          presses,      \* the number of the next byte
          reading,      \* a read from the terminal is under way
          line,         \* what it has in its buffer
          typed         \* the bytes that it has taken from the queue

\* What the proofs ask of the constants.  A read into a buffer of no bytes
\* returns at once.
KbdSizes == INPUT_QUEUE \in Nat \ {0} /\ LineSize \in Nat \ {0} /\ MaxTyped \in Nat

kbdVars == <<keyboard, tty, events, presses, reading, line, typed>>

----------------------------------------------------------------------------
(* ByteQueue *)

NoByte == [b |-> -1, no |-> 0]
NewQueue == [buf |-> [i \in 0..(INPUT_QUEUE - 1) |-> NoByte], head |-> 0, len |-> 0]

\* A full queue loses its oldest byte.
Push(q, e) ==
    IF q.len = INPUT_QUEUE
    THEN [q EXCEPT !.buf[q.head] = e, !.head = (@ + 1) % INPUT_QUEUE]
    ELSE [q EXCEPT !.buf[(q.head + q.len) % INPUT_QUEUE] = e, !.len = @ + 1]

Peek(q) == IF q.len = 0 THEN NoByte ELSE q.buf[q.head]

\* The slot is cleared, which the code does not: it is never read before a push.
Pop(q) == IF q.len = 0 THEN q
          ELSE [q EXCEPT !.buf[q.head] = NoByte, !.head = (@ + 1) % INPUT_QUEUE, !.len = @ - 1]

----------------------------------------------------------------------------
(* Keyboard::decode *)

\* translate_set1: the codes 1 to 53, without and with shift; 0 is no byte.
Plain   == <<27, 49, 50, 51, 52, 53, 54, 55, 56, 57, 48, 45, 61, 8, 9,
             113, 119, 101, 114, 116, 121, 117, 105, 111, 112, 91, 93, 10, 0,
             97, 115, 100, 102, 103, 104, 106, 107, 108, 59, 39, 96, 0, 92,
             122, 120, 99, 118, 98, 110, 109, 44, 46, 47>>
Shifted == <<27, 33, 64, 35, 36, 37, 94, 38, 42, 40, 41, 95, 43, 8, 9,
             81, 87, 69, 82, 84, 89, 85, 73, 79, 80, 123, 125, 10, 0,
             65, 83, 68, 70, 71, 72, 74, 75, 76, 58, 34, 126, 0, 124,
             90, 88, 67, 86, 66, 78, 77, 60, 62, 63>>

IsLetter(b) == b \in 97..122

Translate(code, shift, caps) ==
    CASE code \in DOMAIN Plain ->
            IF IF IsLetter(Plain[code]) THEN shift # caps ELSE shift
            THEN Shifted[code] ELSE Plain[code]
      [] code = 57 -> 32
      [] OTHER -> 0

\* The keyboard after the scan code, and the byte that it gives, or 0.
Decode(k, c) ==
    LET released == c >= 128
        code     == c % 128
        Silent(k2) == [k |-> k2, byte |-> 0]
    IN  IF c = 224 THEN Silent([k EXCEPT !.extended = TRUE])
        ELSE IF c = 225 THEN Silent(k)
        ELSE IF code \in {42, 54} THEN Silent([k EXCEPT !.shift = ~released])
        ELSE IF released THEN Silent(k)
        ELSE IF code = 58 THEN Silent([k EXCEPT !.caps = ~@])
        ELSE IF k.extended THEN Silent([k EXCEPT !.extended = FALSE])
        ELSE [k |-> k, byte |-> Translate(code, k.shift, k.caps)]

----------------------------------------------------------------------------
\* poll_input.  It finds a scan code, or nothing for the keyboard (c = -1).
Polled(c) ==
    LET d == Decode(keyboard, c)
        e == [b |-> d.byte, no |-> presses]
    IN  IF c = -1 THEN [k |-> keyboard, t |-> tty, e |-> events, n |-> presses]
        ELSE IF d.byte = 0 THEN [k |-> d.k, t |-> tty, e |-> events, n |-> presses]
        ELSE [k |-> d.k, t |-> Push(tty, e), e |-> Push(events, e),
              n |-> (presses + 1) % (INPUT_QUEUE + 1)]

\* Faulty variant of PollEventByte: the terminal keeps the byte.
PollEventByte_Leaks(c) ==
    LET p == Polled(c)
    IN  /\ ~reading
        /\ keyboard' = p.k /\ presses' = p.n
        /\ events' = Pop(p.e)
        /\ tty' = p.t
        /\ UNCHANGED <<reading, line, typed>>

\* The compositor takes the next byte, and from the terminal's queue as well if
\* an equal one is at its head.
PollEventByte(c) ==
    LET p == Polled(c)
    IN  /\ ~reading
        /\ keyboard' = p.k /\ presses' = p.n
        /\ events' = Pop(p.e)
        /\ tty' = IF p.e.len > 0 /\ p.t.len > 0 /\ Peek(p.t).b = Peek(p.e).b THEN Pop(p.t)
                  ELSE p.t
        /\ UNCHANGED <<reading, line, typed>>

----------------------------------------------------------------------------
(* TtyStdin::read_at *)

Read ==
    /\ ~reading
    /\ reading' = TRUE /\ line' = <<>> /\ typed' = <<>>
    /\ UNCHANGED <<keyboard, tty, events, presses>>

Printable(b) == b \in 32..126 \/ b = 9

\* Faulty variant of Edited: a backspace erases the echo but not the byte.
Edited_KeepsIt(l, b) ==
    CASE b = 10 -> Append(l, b)
      [] Printable(b) -> Append(l, b)
      [] OTHER -> l

Edited(l, b) ==
    CASE b = 10 -> Append(l, b)
      [] b = 8 -> IF l = <<>> THEN l ELSE SubSeq(l, 1, Len(l) - 1)
      [] Printable(b) -> Append(l, b)
      [] OTHER -> l

\* One turn of read_byte_blocking, and what the read does with the byte.  The
\* read returns at the end of the line or when its buffer is full.
ReadByte(c) ==
    LET p == Polled(c)
        b == Peek(p.t).b
    IN  /\ reading
        /\ Len(typed) < MaxTyped
        /\ keyboard' = p.k /\ presses' = p.n
        /\ events' = p.e
        /\ tty' = Pop(p.t)
        /\ IF p.t.len = 0 THEN UNCHANGED <<reading, line, typed>>
           ELSE /\ line' = Edited(line, b)
                /\ typed' = Append(typed, b)
                /\ reading' = (b # 10 /\ Len(line') < LineSize)

----------------------------------------------------------------------------
KbdInit ==
    /\ keyboard = [shift |-> FALSE, caps |-> FALSE, extended |-> FALSE]
    /\ tty = NewQueue /\ events = NewQueue
    /\ presses = 0
    /\ reading = FALSE /\ line = <<>> /\ typed = <<>>

KbdNext == Read \/ \E c \in Scancodes \cup {-1} : PollEventByte(c) \/ ReadByte(c)

KbdSpec == KbdInit /\ [][KbdNext]_kbdVars

----------------------------------------------------------------------------
(* Properties *)

KbdTypeOK ==
    /\ keyboard \in [shift : BOOLEAN, caps : BOOLEAN, extended : BOOLEAN]
    /\ \A q \in {tty, events} : q.head \in 0..(INPUT_QUEUE - 1) /\ q.len \in 0..INPUT_QUEUE
    /\ presses \in 0..INPUT_QUEUE
    /\ reading \in BOOLEAN
    /\ Len(line) <= LineSize /\ Len(typed) <= MaxTyped

\* What a queue holds, the oldest byte first.
Held(q) == [i \in 1..q.len |-> q.buf[(q.head + i - 1) % INPUT_QUEUE]]

\* The terminal's queue is the newer part of the compositor's, key press by key
\* press, however full they are and whoever polls: a key that the compositor has
\* taken is never read by the terminal (Reflection reads keys "without leaking
\* the compositor smoke key into Shore", 0006-moonlit-harbor.md:14).
NoLeak ==
    /\ tty.len <= events.len
    /\ Held(tty) = SubSeq(Held(events), events.len - tty.len + 1, events.len)

Kept(b) == Printable(b) \/ b = 10
Texts(i, j) == Cardinality({k \in i..j : Kept(typed[k])})
Backspaces(i, j) == Cardinality({k \in i..j : typed[k] = 8})

\* A byte that was typed is in the line unless a backspace behind it has taken it
\* away: up to every later byte there were fewer backspaces than bytes to take.
Survives(i) ==
    Kept(typed[i]) /\ \A j \in i..Len(typed) : Backspaces(i, j) < Texts(i, j)

\* A read returns the bytes typed since it began, as the keys for editing leave
\* them, in the order in which they were typed; backspaces on an empty line, keys
\* that are not text and a full buffer included.  It ends with the line or with
\* the buffer.
LineAsEdited ==
    /\ \E left \in [1..Len(line) -> 1..Len(typed)] :
          /\ \A k, m \in 1..Len(line) : k < m => left[k] < left[m]
          /\ {left[k] : k \in 1..Len(line)} = {i \in 1..Len(typed) : Survives(i)}
          /\ \A k \in 1..Len(line) : line[k] = typed[left[k]]
    /\ ~reading /\ line # <<>> => line[Len(line)] = 10 \/ Len(line) = LineSize

=============================================================================
