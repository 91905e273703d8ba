-------------------------------- MODULE SeqBuf --------------------------------
(***************************************************************************)
(* shims/lib/seq_buf.c: text appended to a buffer of fixed size. What does *)
(* not fit sets len past size, the mark of overflow. seq_buf_putmem_hex()  *)
(* appends chunk by chunk, a step each. The buffer is followed in memory   *)
(* by cells that are not its own.                                          *)
(***************************************************************************)
EXTENDS Integers, Sequences

CONSTANTS
  Byte,              \* values of a data byte
  Sizes,             \* buffer sizes
  MAX_MEMHEX_BYTES,  \* bytes of a chunk
  MaxPiece           \* bound: bytes of a string or block that is put

SeqBufAssumption ==
  /\ \A n \in Sizes : n \in Nat
  /\ MAX_MEMHEX_BYTES \in Nat \ {0} /\ MaxPiece \in Nat

VARIABLES
  size, len,   \* struct seq_buf
  memory,      \* the cells of the buffer and Guard cells after it
  todo,        \* the bytes that seq_buf_putmem_hex() has left; <<>> outside it
  ret,         \* the latest result
  text, want   \* ghosts: all that successful calls were to append; the call's text

vars == <<size, len, memory, todo, ret, text, want>>

Guard == 2
Cell(n) == 0..n + Guard - 1
Hex(b) == <<<<b, "hi">>, <<b, "lo">>>>
Piece == UNION {[1..n -> Byte] : n \in 0..MaxPiece}

Init ==
  /\ size \in Sizes /\ len = 0 /\ memory = [i \in Cell(size) |-> "other"]
  /\ todo = <<>> /\ ret = 0 /\ text = <<>> /\ want = <<>>

\* A cell too many.
can_fit_and_one(n) == len + n <= size + 1

seq_buf_can_fit(n) == len + n <= size

seq_buf_set_overflow == len' = size + 1

seq_buf_has_overflowed(l) == l > size

memcpy(at, s) == [i \in Cell(size) |-> IF i \in at..at + Len(s) - 1 THEN s[i - at + 1] ELSE memory[i]]

Succeed(appended) == ret' = 0 /\ text' = text \o appended
Fail == ret' = -1 /\ text' = text

\* Writes of mem, of which the first kept stay.
Put(mem, kept) ==
  IF seq_buf_can_fit(Len(mem))
  THEN memory' = memcpy(len, mem) /\ len' = len + kept
  ELSE seq_buf_set_overflow /\ UNCHANGED memory

Idle == todo = <<>> /\ UNCHANGED <<size, todo, want>>

\* vsnprintf() is a stub that writes nothing and returns 0.
seq_buf_vprintf ==
  /\ Idle
  /\ \/ len < size /\ Succeed(<<>>) /\ UNCHANGED <<len, memory>>
     \/ len >= size /\ seq_buf_set_overflow /\ Fail /\ UNCHANGED memory

\* The terminator is written and not counted.
seq_buf_puts(str) ==
  /\ Idle
  /\ Put(Append(str, "NUL"), Len(str))
  /\ IF seq_buf_can_fit(Len(str) + 1) THEN Succeed(str) ELSE Fail

seq_buf_putc(c) ==
  /\ Idle
  /\ Put(<<c>>, 1)
  /\ IF seq_buf_can_fit(1) THEN Succeed(<<c>>) ELSE Fail

seq_buf_putmem(mem) ==
  /\ Idle
  /\ Put(mem, Len(mem))
  /\ IF seq_buf_can_fit(Len(mem)) THEN Succeed(mem) ELSE Fail

\* Last byte first, two digits each, and a blank.
ChunkText(data) ==
  LET text_[n \in 0..Len(data)] == IF n = 0 THEN <<>> ELSE Hex(data[n]) \o text_[n - 1]
  IN Append(text_[Len(data)], " ")

\* What the call is to append: every MAX_MEMHEX_BYTES bytes as one number in hex, which
\* with its blank takes "wide" cells, the last one fewer if bytes are missing.
WordsInHex(data) ==
  LET words == (Len(data) + MAX_MEMHEX_BYTES - 1) \div MAX_MEMHEX_BYTES
      wide == 2 * MAX_MEMHEX_BYTES + 1
      first(w) == w * MAX_MEMHEX_BYTES
      last(w) == IF first(w + 1) < Len(data) THEN first(w + 1) ELSE Len(data)
      digit(w, o) == <<data[last(w) - (o \div 2)], IF o % 2 = 0 THEN "hi" ELSE "lo">>
      cell(w, o) == IF o = 2 * (last(w) - first(w)) THEN " " ELSE digit(w, o)
  IN [p \in 1..2 * Len(data) + words |-> cell((p - 1) \div wide, (p - 1) % wide)]

\* An empty block is put without a look at the buffer.
seq_buf_putmem_hex(data) ==
  /\ todo = <<>> /\ UNCHANGED <<size, len, memory>>
  /\ todo' = data
  /\ want' = WordsInHex(data)   \* <<>> for <<>>
  /\ IF data = <<>> THEN Succeed(<<>>) ELSE UNCHANGED <<ret, text>>

\* One turn of the loop; up to MAX_MEMHEX_BYTES there is one.
HexChunk ==
  LET start_len == IF Len(todo) < MAX_MEMHEX_BYTES THEN Len(todo) ELSE MAX_MEMHEX_BYTES
      hex == ChunkText(SubSeq(todo, 1, start_len))
  IN /\ todo # <<>>
     /\ Put(hex, Len(hex))
     /\ IF seq_buf_has_overflowed(len')
        THEN todo' = <<>> /\ Fail
        ELSE /\ todo' = SubSeq(todo, start_len + 1, Len(todo))
             /\ IF todo' = <<>> THEN Succeed(want) ELSE UNCHANGED <<ret, text>>
     /\ want' = (IF todo' = <<>> THEN <<>> ELSE want)
     /\ UNCHANGED size

Next ==
  \/ seq_buf_vprintf \/ HexChunk
  \/ \E c \in Byte : seq_buf_putc(c)
  \/ \E s \in Piece : seq_buf_puts(s) \/ seq_buf_putmem(s) \/ seq_buf_putmem_hex(s)

Spec == Init /\ [][Next]_vars /\ WF_vars(HexChunk)
-----------------------------------------------------------------------------
(* The buffer holds, in order and whole, the text of every call that returned 0, *)
(* also after an overflow; until then, between calls, it holds nothing else.     *)
TextExact ==
  /\ \A i \in 1..Len(text) : memory[i - 1] = text[i]
  /\ todo = <<>> /\ ~seq_buf_has_overflowed(len) => len = Len(text)

(* No call, the uncounted terminator included, writes past the buffer.           *)
InBounds == \A i \in Cell(size) : i >= size => memory[i] = "other"

(* A call that failed leaves the overflow mark, and nothing later removes it or  *)
(* writes to the buffer.                                                         *)
OverflowSticks ==
  [][ /\ ret' = -1 => seq_buf_has_overflowed(len')
      /\ seq_buf_has_overflowed(len) => seq_buf_has_overflowed(len') /\ memory' = memory ]_vars
=============================================================================
