-------------------------------- MODULE MCLib --------------------------------
(***************************************************************************)
(* The algorithms of the library shims, with the two of the map shims that *)
(* are no more than an algorithm: the Bloom filter and the loop of         *)
(* longest_prefix_match(). A harness is compiled with one of them, so in a *)
(* behaviour one part moves and the others stay in an initial state.       *)
(***************************************************************************)
EXTENDS BloomFilter

CONSTANTS CPU, Shape,
          BmapCase, BufCase, RateCase   \* the parameters of three parts, by name

VARIABLES
  part,                                                      \* the shim under the harness
  bits, psize, xor, limit, ppc, i, prefixlen, result,        \* PrefixMatch
  map, call, bret,                                           \* Bitmap
  size, len, memory, todo, sret, text, want,                 \* SeqBuf
  interval, burst, inited, begin, rs_n_left, missed, onRelease, lock, jiffies, pc, int, brst,
  rret, calls, sets, age, quota, granted, refused, reported  \* Ratelimit

matchVars == <<bits, psize, xor, limit, ppc, i, prefixlen, result>>
bitsVars == <<map, call, bret>>
bufVars == <<size, len, memory, todo, sret, text, want>>
rateVars == <<interval, burst, inited, begin, rs_n_left, missed, onRelease, lock, jiffies, pc, int,
              brst, rret, calls, sets, age, quota, granted, refused, reported>>

\* Two words, a half word and a byte of one-bit bytes; a word and a half word of two-bit
\* bytes; one byte of eight bits.
MCShape == {<<1, n>> : n \in 1..11} \cup {<<2, n>> : n \in 1..6} \cup {<<8, 1>>}
Match == INSTANCE PrefixMatch WITH size <- psize, pc <- ppc

\* A bitmap of three words of two bits, so that there is a word between the first and the
\* last, and one of two.
MCBmapCase == [Map |-> 1..2, W |-> 2, N |-> <<3, 2>>]
Bmap == INSTANCE Bitmap WITH Map <- BmapCase.Map, W <- BmapCase.W, N <- BmapCase.N, ret <- bret

MCBufCase == [Byte |-> {"x", "y"}, Sizes |-> {0, 1, 4, 9}, MAX_MEMHEX_BYTES |-> 2, MaxPiece |-> 3]
Buf == INSTANCE SeqBuf WITH
  Byte <- BufCase.Byte, Sizes <- BufCase.Sizes, MAX_MEMHEX_BYTES <- BufCase.MAX_MEMHEX_BYTES,
  MaxPiece <- BufCase.MaxPiece, ret <- sret

\* Three calls on two CPUs, and a limit that changes once.
MCRateCase == [Intervals |-> {0, 2}, Bursts |-> 0..1, Wrap |-> 6, MaxCalls |-> 3, MaxSets |-> 1]
Rate == INSTANCE Ratelimit WITH
  Intervals <- RateCase.Intervals, Bursts <- RateCase.Bursts, Wrap <- RateCase.Wrap,
  MaxCalls <- RateCase.MaxCalls, MaxSets <- RateCase.MaxSets, ret <- rret

ASSUME PartsAssumption ==
  /\ Match!ShapeAssumption /\ Bmap!BitmapAssumption /\ Buf!SeqBufAssumption
  /\ Rate!RatelimitAssumption

\* The parts that have many initial states rest in one of them.
BloomRests ==
  /\ jhash = [v \in Value |-> [n \in Index |-> 0]] /\ bitset = [w \in 0..(Words - 1) |-> {}]
  /\ pushed = {} /\ ret = "ok"
MatchRests ==
  /\ bits = 1 /\ psize = 1 /\ xor = [n \in 0..0 |-> [b \in 0..0 |-> 0]] /\ limit = 0
  /\ ppc = "words" /\ i = 0 /\ prefixlen = 0 /\ result = -1

PartsInit ==
  /\ part \in {"bloom", "match", "bits", "buf", "rate"}
  /\ IF part = "bloom" THEN Init ELSE BloomRests
  /\ IF part = "match" THEN Match!Init ELSE MatchRests
  /\ Bmap!Init
  /\ Buf!Init
  /\ part # "buf" => size = CHOOSE n \in BufCase.Sizes : TRUE
  /\ Rate!Init
  /\ part # "rate" => /\ interval = CHOOSE n \in RateCase.Intervals : TRUE
                      /\ burst = CHOOSE n \in RateCase.Bursts : TRUE
                      /\ jiffies = 0 /\ ~onRelease

PartsNext ==
  /\ UNCHANGED part
  /\ \/ part = "bloom" /\ Next /\ UNCHANGED <<matchVars, bitsVars, bufVars, rateVars>>
     \/ part = "match" /\ Match!Next /\ UNCHANGED <<vars, bitsVars, bufVars, rateVars>>
     \/ part = "bits" /\ Bmap!Next /\ UNCHANGED <<vars, matchVars, bufVars, rateVars>>
     \/ part = "buf" /\ Buf!Next /\ UNCHANGED <<vars, matchVars, bitsVars, rateVars>>
     \/ part = "rate" /\ Rate!Next /\ UNCHANGED <<vars, matchVars, bitsVars, bufVars>>

allVars == <<part, vars, matchVars, bitsVars, bufVars, rateVars>>
PartsSpec == PartsInit /\ [][PartsNext]_allVars
-----------------------------------------------------------------------------
(* longest_prefix_match(): the word-wise loop returns the number of leading bits *)
(* in which node and key agree, up to the shorter prefix, for every data size,   *)
(* wherever the limit and the first difference lie in a word.                    *)
MatchIsLongest == part = "match" => Match!MatchIsLongest

(* bitmap.c: whatever earlier calls left past the end of a bitmap, the word      *)
(* loops return and store what the operations on sets of positions say.          *)
ImplementsBitSet == Bmap!ImplementsBitSet

(* seq_buf.c: the buffer holds, in order and whole, the text of every call that  *)
(* returned 0, and until an overflow nothing else; no call, the uncounted        *)
(* terminator included, writes past it; an overflow stays, and the text with it. *)
TextKept ==
  /\ [](part = "buf" => Buf!TextExact /\ Buf!InBounds)
  /\ Buf!OverflowSticks

(* ratelimit.c on the kernel's primitives: the calls granted between two fills   *)
(* are at most the burst, the counter falls below zero by less than the number   *)
(* of CPUs, no refused call is lost or counted twice, and the burst is renewed   *)
(* only when the interval has passed, also across a wrap of jiffies.             *)
RateHeld ==
  /\ [](part = "rate" => Rate!BurstBound /\ Rate!LeftBounded /\ Rate!MissesExact)
  /\ Rate!WindowsApart
=============================================================================
