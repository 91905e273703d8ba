------------------------------ MODULE LibProofs ------------------------------
(***************************************************************************)
(* Theorems about the library shims, for every value of the constants:     *)
(*   - bloom_filter.c: what was pushed is found, and only a collision of   *)
(*     hashes finds anything else;                                         *)
(*   - ratelimit.c: the burst, the counter, the misses and the intervals   *)
(*     under every interleaving of its callers;                            *)
(*   - bitmap.c: the word loops implement the operations on sets;          *)
(*   - seq_buf.c: the buffer holds the text of the calls that succeeded;   *)
(*   - lpm_trie.c: the word-wise match returns the length of the common    *)
(*     prefix.                                                             *)
(***************************************************************************)
EXTENDS MCLib, FiniteSetTheorems, SequenceTheorems, WellFoundedInduction, TLAPS
-----------------------------------------------------------------------------
(* bloom_filter.c *)

\* Masked hashes are bit numbers, and a bit has a word and a position.
LEMMA HashIsBit ==
  ASSUME TypeOK, NEW v \in Value, NEW h \in Index
  PROVE  bloom_hash(v, h) \in 0..(Bits - 1)
<1>1. jhash[v][h] \in Nat
  BY DEF TypeOK
<1>2. Bits \in Nat \ {0}
  BY BloomAssumption DEF Bits
<1> QED  BY <1>1, <1>2 DEF bloom_hash

LEMMA BitSplits ==
  ASSUME NEW bit \in 0..(Bits - 1)
  PROVE  /\ Word(bit) \in 0..(Words - 1)
         /\ Pos(bit) \in 0..(WordBits - 1)
         /\ bit = Word(bit) * WordBits + Pos(bit)
<1> DEFINE q == bit \div WordBits
<1>1. Words \in Nat \ {0} /\ WordBits \in Nat \ {0} /\ bit \in Nat /\ bit < Words * WordBits
  BY BloomAssumption DEF Bits
<1>2. q \in Nat /\ bit % WordBits \in 0..(WordBits - 1) /\ bit = WordBits * q + (bit % WordBits)
  BY <1>1
<1>3. q < Words
  <2> HIDE DEF q
  <2>1. SUFFICES ASSUME q >= Words  PROVE  FALSE
    BY <1>1, <1>2
  <2>2. WordBits * q >= WordBits * Words
    BY <1>1, <1>2, <2>1
  <2>3. WordBits * Words = Words * WordBits /\ WordBits * q \in Nat /\ WordBits * Words \in Nat
    BY <1>1, <1>2
  <2> QED  BY <1>1, <1>2, <2>2, <2>3
<1>4. Word(bit) = q
  BY <1>1, <1>2, <1>3 DEF Word
<1> QED  BY <1>1, <1>2, <1>3, <1>4 DEF Pos

\* Every set bit comes from a pushed value.
BitsPushed ==
  \A w \in 0..(Words - 1) : \A p \in bitset[w] :
    \E u \in pushed, j \in Index : Word(bloom_hash(u, j)) = w /\ Pos(bloom_hash(u, j)) = p

IInv == TypeOK /\ NoFalseNegative /\ BitsPushed

LEMMA IInvInit == Init => IInv
  BY DEF Init, IInv, TypeOK, NoFalseNegative, BitsPushed

LEMMA IInvNext == IInv /\ [Next]_vars => IInv'
<1> SUFFICES ASSUME IInv, [Next]_vars  PROVE  IInv'
  OBVIOUS
<1>1. ASSUME NEW v \in Value, Push(v)  PROVE  IInv'
  <2>1. \A u \in Value, h \in Index : bloom_hash(u, h)' = bloom_hash(u, h)
    BY <1>1 DEF Push, bloom_hash
  <2>2. \A h \in Index : /\ Word(bloom_hash(v, h)) \in 0..(Words - 1)
                         /\ Pos(bloom_hash(v, h)) \in 0..(WordBits - 1)
    BY HashIsBit, BitSplits DEF IInv
  <2>3. TypeOK'
    BY <1>1, <2>2 DEF Push, SetBits, IInv, TypeOK
  <2>4. \A u \in Value, h \in Index :
          Word(bloom_hash(u, h)) \in 0..(Words - 1)
    BY HashIsBit, BitSplits DEF IInv
  <2>5. NoFalseNegative'
    <3> SUFFICES ASSUME NEW u \in pushed', NEW h \in Index
                 PROVE  Pos(bloom_hash(u, h)) \in bitset'[Word(bloom_hash(u, h))]
      BY <2>1, <2>3 DEF NoFalseNegative, Peek, bloom_test_bit, TypeOK
    <3>1. u \in Value
      BY <2>3 DEF TypeOK
    <3>2. CASE u = v
      BY <1>1, <2>4, <3>1, <3>2 DEF Push, SetBits
    <3>3. CASE u \in pushed
      <4>1. Pos(bloom_hash(u, h)) \in bitset[Word(bloom_hash(u, h))]
        BY <3>3 DEF IInv, NoFalseNegative, Peek, bloom_test_bit
      <4> QED  BY <1>1, <2>4, <3>1, <4>1 DEF Push, SetBits
    <3> QED  BY <1>1, <3>2, <3>3 DEF Push
  <2>6. BitsPushed'
    <3> SUFFICES ASSUME NEW w \in 0..(Words - 1), NEW p \in bitset'[w]
                 PROVE  \E u \in pushed', j \in Index :
                          /\ Word(bloom_hash(u, j)) = w
                          /\ Pos(bloom_hash(u, j)) = p
      BY <2>1, <2>3 DEF BitsPushed, TypeOK
    <3>1. CASE p \in bitset[w]
      BY <1>1, <3>1 DEF Push, IInv, BitsPushed
    <3>2. CASE \E j \in Index : Word(bloom_hash(v, j)) = w /\ Pos(bloom_hash(v, j)) = p
      BY <1>1, <3>2 DEF Push
    <3> QED  BY <1>1, <3>1, <3>2 DEF Push, SetBits
  <2> QED  BY <2>3, <2>5, <2>6 DEF IInv
<1>2. CASE UNCHANGED <<jhash, bitset, pushed>> /\ ret' \in {"ok", "EINVAL"}
  BY <1>2 DEF IInv, TypeOK, NoFalseNegative, Peek, bloom_test_bit, bloom_hash, BitsPushed
<1>3. (\E v \in Value : Push(v)) \/ (UNCHANGED <<jhash, bitset, pushed>> /\ ret' \in {"ok", "EINVAL"})
  BY DEF Next, vars, PushInvalid, IInv, TypeOK
<1> QED  BY <1>1, <1>2, <1>3

LEMMA IInvGives == IInv => OnlyCollisions
<1> SUFFICES ASSUME IInv, NEW v \in Value, Peek(v), NEW h \in Index
             PROVE  \E u \in pushed, j \in Index : bloom_hash(u, j) = bloom_hash(v, h)
  BY DEF OnlyCollisions
<1>1. /\ bloom_hash(v, h) \in 0..(Bits - 1)
      /\ Pos(bloom_hash(v, h)) \in bitset[Word(bloom_hash(v, h))]
  BY HashIsBit DEF IInv, Peek, bloom_test_bit
<1>2. PICK u \in pushed, j \in Index :
         /\ Word(bloom_hash(u, j)) = Word(bloom_hash(v, h))
         /\ Pos(bloom_hash(u, j)) = Pos(bloom_hash(v, h))
  BY <1>1, BitSplits DEF IInv, BitsPushed
<1>3. bloom_hash(u, j) \in 0..(Bits - 1)
  BY HashIsBit DEF IInv, TypeOK
<1>4. bloom_hash(u, j) = bloom_hash(v, h)
  BY <1>1, <1>2, <1>3, BitSplits
<1> QED  BY <1>4

\* bloom_map_peek_elem() finds every value bloom_map_push_elem() was given.
THEOREM PushedIsFound == Spec => []NoFalseNegative
<1>1. IInv => NoFalseNegative
  BY DEF IInv
<1> QED  BY <1>1, IInvInit, IInvNext, PTL DEF Spec

\* A false positive of bloom_map_peek_elem() needs a collision of masked hashes.
THEOREM FalsePositiveIsCollision == Spec => []OnlyCollisions
<1> QED  BY IInvInit, IInvNext, IInvGives, PTL DEF Spec
-----------------------------------------------------------------------------
(* Quotient and remainder *)

LEMMA DivModIs ==
  ASSUME NEW w \in Nat \ {0}, NEW x \in Int, NEW q \in Int, NEW r \in 0 .. w - 1,
         x = w * q + r
  PROVE  x \div w = q /\ x % w = r
<1>. DEFINE p == x \div w
            s == x % w
<1>1. p \in Int /\ s \in 0 .. w - 1 /\ x = w * p + s
  OBVIOUS
<1>. HIDE DEF p, s
<1>2. w * p + s = w * q + r
  BY <1>1
<1>3. ASSUME p < q  PROVE  FALSE
  <2>1. w * (p + 1) <= w * q
    BY <1>1, <1>3
  <2>2. w * (p + 1) = w * p + w
    BY <1>1
  <2>. QED
    BY <1>1, <1>2, <2>1, <2>2
<1>4. ASSUME q < p  PROVE  FALSE
  <2>1. w * (q + 1) <= w * p
    BY <1>1, <1>4
  <2>2. w * (q + 1) = w * q + w
    OBVIOUS
  <2>. QED
    BY <1>1, <1>2, <2>1, <2>2
<1>5. p = q
  BY <1>1, <1>3, <1>4
<1>6. s = r
  BY <1>1, <1>2, <1>5
<1>. QED
  BY <1>5, <1>6 DEF p, s

LEMMA DivModFacts ==
  ASSUME NEW w \in Nat \ {0}, NEW x \in Int
  PROVE  /\ x \div w \in Int /\ x % w \in 0 .. w - 1
         /\ x = w * (x \div w) + (x % w)
  OBVIOUS

LEMMA NatDivMod ==
  ASSUME NEW w \in Nat \ {0}, NEW x \in Nat
  PROVE  x \div w \in Nat /\ x % w \in 0 .. w - 1 /\ x = w * (x \div w) + (x % w)
<1>. DEFINE q == x \div w
            r == x % w
<1>1. q \in Int /\ r \in 0 .. w - 1 /\ x = w * q + r
  OBVIOUS
<1>. HIDE DEF q, r
<1>2. ASSUME q < 0  PROVE  FALSE
  <2>1. w * (q + 1) <= w * 0
    BY <1>1, <1>2
  <2>2. w * (q + 1) = w * q + w
    BY <1>1
  <2>. QED
    BY <1>1, <2>1, <2>2
<1>3. q \in Nat /\ r \in 0 .. w - 1 /\ x = w * q + r
  BY <1>1, <1>2
<1>. QED
  BY <1>3 DEF q, r

-----------------------------------------------------------------------------
(* ratelimit.c *)

RateSteps == {"idle", "burst", "off", "clear", "trylock", "first", "fill", "expired", "report",
              "left", "dec", "return"}

RateTyped ==
  /\ interval \in RateCase.Intervals /\ burst \in RateCase.Bursts
  /\ begin \in 0 .. RateCase.Wrap - 1 /\ jiffies \in 0 .. RateCase.Wrap - 1
  /\ rs_n_left \in Int /\ missed \in Nat
  /\ lock \in CPU \cup {"free"}
  /\ pc \in [CPU -> RateSteps]
  /\ int \in [CPU -> RateCase.Intervals \cup {0}] /\ DOMAIN rret = CPU
  /\ age \in 0 .. RateCase.Wrap
  /\ quota \in Nat /\ granted \in Nat /\ refused \in Nat /\ reported \in Nat

\* The lock is held from the try to the return.
RateLocked == \A c \in CPU : pc[c] \in {"clear", "first", "fill", "expired", "report"} => lock = c

\* Once the state is set up, age tells the time since the window began, modulo Wrap.
Synced == age < RateCase.Wrap => (jiffies - begin) % RateCase.Wrap = age
RateSynced == inited \/ (\E c \in CPU : pc[c] \in {"fill", "expired"}) => Synced

\* What was granted and what is left come from one fill.
RateShared == granted <= quota /\ granted + rs_n_left <= quota

\* The callers that saw the counter positive and have not decremented it yet.
Deciding == {c \in CPU : pc[c] = "dec"}
RateLeft == rs_n_left >= 1 - Cardinality(CPU) + Cardinality(Deciding)

RateInv ==
  RateTyped /\ RateLocked /\ RateSynced /\ RateShared /\ RateLeft /\ missed + reported = refused

LEMMA RateConstants ==
  /\ RateCase.Wrap \in Nat \ {0} /\ RateCase.Wrap = 2 * (RateCase.Wrap \div 2)
  /\ RateCase.Wrap \div 2 \in Nat
  /\ \A n \in RateCase.Intervals : n \in Int /\ 2 * n < RateCase.Wrap
  /\ \A n \in RateCase.Bursts : n \in Nat
  /\ "free" \notin CPU
  BY PartsAssumption DEF Rate!RatelimitAssumption

LEMMA RateFinite == IsFiniteSet(CPU) /\ Cardinality(CPU) \in Nat \ {0}
<1>1. Rate!IsFiniteSet(CPU) /\ CPU # {}
  BY PartsAssumption DEF Rate!RatelimitAssumption
<1>2. IsFiniteSet(CPU)
  BY <1>1 DEF Rate!IsFiniteSet, IsFiniteSet
<1>. QED
  BY <1>1, <1>2, FS_CardinalityType, FS_EmptySet

LEMMA RateCounts == \A S : Rate!Cardinality(S) = Cardinality(S)
  BY DEF Rate!Cardinality, Cardinality

\* A set of CPUs is counted, and a CPU that joins or leaves it adds or takes one.
LEMMA CpusCounted ==
  ASSUME NEW S \in SUBSET CPU
  PROVE  /\ Cardinality(S) \in Nat
         /\ \A c \in CPU \ S : Cardinality(S) + 1 <= Cardinality(CPU)
         /\ \A c \in CPU \ S : Cardinality(S \cup {c}) = Cardinality(S) + 1
         /\ \A c \in S : Cardinality(S \ {c}) = Cardinality(S) - 1
<1>1. IsFiniteSet(S) /\ Cardinality(S) \in Nat
  BY RateFinite, FS_Subset, FS_CardinalityType
<1>2. ASSUME NEW c \in CPU \ S
      PROVE  Cardinality(S \cup {c}) = Cardinality(S) + 1
  BY <1>1, FS_AddElement
<1>3. ASSUME NEW c \in CPU \ S
      PROVE  Cardinality(S) + 1 <= Cardinality(CPU)
  <2>1. S \cup {c} \subseteq CPU
    OBVIOUS
  <2>2. Cardinality(S \cup {c}) <= Cardinality(CPU)
    BY <2>1, RateFinite, FS_Subset, Zenon
  <2>. QED
    BY <2>2, <1>2
<1>4. ASSUME NEW c \in S
      PROVE  Cardinality(S \ {c}) = Cardinality(S) - 1
  BY <1>1, FS_RemoveElement
<1>. QED
  BY <1>1, <1>2, <1>3, <1>4

LEMMA RateInitially == Rate!Init => RateInv
<1>. SUFFICES ASSUME Rate!Init  PROVE  RateInv
  OBVIOUS
<1>1. RateTyped
  BY RateConstants DEF Rate!Init, RateTyped, RateSteps
<1>2. Deciding = {}
  BY DEF Rate!Init, Deciding
<1>3. RateLeft
  BY <1>2, RateFinite, FS_EmptySet DEF Rate!Init, RateLeft
<1>. QED
  BY <1>1, <1>3 DEF Rate!Init, RateInv, RateLocked, RateSynced, RateShared

\* A tick takes the clock and the age forward together.
LEMMA TickSyncs ==
  ASSUME RateTyped, Synced, Rate!Tick
  PROVE  Synced'
<1>. DEFINE w == RateCase.Wrap
            d == jiffies - begin
<1>0. w \in Nat \ {0} /\ begin \in 0 .. w - 1 /\ jiffies \in 0 .. w - 1 /\ age \in 0 .. w
  BY RateConstants DEF RateTyped
<1>1. /\ jiffies' = (jiffies + 1) % w /\ begin' = begin
      /\ age' = IF age < w THEN age + 1 ELSE age
  BY DEF Rate!Tick, Rate!shared
<1>. SUFFICES ASSUME age' < w  PROVE  (jiffies' - begin') % w = age'
  BY <1>1 DEF Synced
<1>2. age' = age + 1 /\ age + 1 < w
  BY <1>0, <1>1
<1>3. d % w = age
  BY <1>0, <1>2 DEF Synced
<1>. DEFINE q == d \div w
            j == jiffies + 1
            k == j \div w
<1>4. d \in Int /\ d = jiffies - begin /\ j \in Int /\ j = jiffies + 1 /\ jiffies' = j % w
  BY <1>0, <1>1
<1>. HIDE DEF w, d, j
<1>5. /\ q \in Int /\ d = w * q + age
      /\ k \in Int /\ jiffies' \in 0 .. w - 1 /\ j = w * k + jiffies'
  BY <1>0, <1>3, <1>4, DivModFacts
<1>. HIDE DEF q, k
<1>6. jiffies' - begin = w * (q - k) + (age + 1)
  <2>1. w * (q - k) = w * q - w * k
    BY <1>0, <1>5
  <2>. QED
    BY <1>0, <1>4, <1>5, <2>1
<1>7. q - k \in Int /\ age + 1 \in 0 .. w - 1 /\ jiffies' - begin \in Int
  BY <1>0, <1>2, <1>4, <1>5
<1>8. (jiffies' - begin) % w = age + 1
  BY <1>0, <1>6, <1>7, DivModIs
<1>. QED
  BY <1>1, <1>2, <1>8

\* A window that begins now is in step with the clock.
LEMMA BeginSyncs ==
  ASSUME RateTyped, begin' = jiffies, jiffies' = jiffies, age' = 0
  PROVE  Synced'
<1>1. RateCase.Wrap \in Nat \ {0} /\ jiffies \in Int
  BY RateConstants DEF RateTyped
<1>2. jiffies' - begin' = 0
  BY <1>1
<1>3. 0 % RateCase.Wrap = 0
  BY <1>1
<1>. QED
  BY <1>2, <1>3 DEF Synced

\* The test of Expired() holds only after more than the interval.
LEMMA ExpiredMeans ==
  ASSUME RateTyped, Synced, NEW c \in CPU, Rate!time_is_before_jiffies(begin + int[c])
  PROVE  age > int[c]
<1>. DEFINE w == RateCase.Wrap
            h == w \div 2
            d == jiffies - begin
            x == begin + int[c] - jiffies
<1>0. /\ w \in Nat \ {0} /\ w = 2 * h /\ h \in Nat
      /\ begin \in 0 .. w - 1 /\ jiffies \in 0 .. w - 1 /\ age \in 0 .. w
      /\ int[c] \in Int /\ 2 * int[c] < w
  BY RateConstants DEF RateTyped
<1>1. /\ x % w >= h
      /\ d = jiffies - begin /\ d \in Int /\ x = begin + int[c] - jiffies /\ x \in Int
  BY <1>0 DEF Rate!time_is_before_jiffies
<1>. SUFFICES ASSUME age <= int[c]  PROVE  FALSE
  BY <1>0
<1>2. age < w
  BY <1>0
<1>3. d % w = age
  BY <1>2 DEF Synced
<1>. HIDE DEF w, h, x, d
<1>. DEFINE q == d \div w
<1>4. q \in Int /\ d = w * q + age
  BY <1>0, <1>1, <1>3, DivModFacts
<1>. HIDE DEF q
<1>5. x = w * (0 - q) + (int[c] - age)
  <2>1. w * (0 - q) = 0 - w * q
    BY <1>0, <1>4
  <2>. QED
    BY <1>0, <1>1, <1>4, <2>1
<1>6. 0 - q \in Int /\ int[c] - age \in 0 .. w - 1 /\ int[c] - age < h
  BY <1>0, <1>4
<1>7. x % w = int[c] - age
  <2>. DEFINE p == 0 - q
              r == int[c] - age
  <2>1. p \in Int /\ r \in 0 .. w - 1 /\ x = w * p + r
    BY <1>5, <1>6
  <2>. HIDE DEF p, r
  <2>2. x % w = r
    BY <1>0, <1>1, <2>1, DivModIs
  <2>. QED
    BY <2>2 DEF r
<1>. QED
  BY <1>0, <1>1, <1>6, <1>7

\* What a step leaves alone keeps its part of the invariant.
LEMMA RateFrame ==
  ASSUME RateInv
  PROVE  /\ UNCHANGED <<age, jiffies, begin>> => (Synced' <=> Synced)
         /\ UNCHANGED <<granted, quota, rs_n_left>> => RateShared'
         /\ UNCHANGED <<missed, reported, refused>> => (missed + reported = refused)'
         /\ UNCHANGED pc => Deciding' = Deciding
  BY DEF RateInv, Synced, RateShared, Deciding

\* A caller moves to a step that is neither under the lock nor a decision.
LEMMA CallerMoves ==
  ASSUME RateTyped, NEW c \in CPU, NEW p \in RateSteps, pc' = [pc EXCEPT ![c] = p]
  PROVE  /\ pc' \in [CPU -> RateSteps]
         /\ pc'[c] = p /\ \A d \in CPU \ {c} : pc'[d] = pc[d]
         /\ pc[c] # "dec" /\ p # "dec" => Deciding' = Deciding
         /\ pc[c] # "dec" /\ p = "dec" => Deciding' = Deciding \cup {c} /\ c \notin Deciding
         /\ pc[c] = "dec" /\ p # "dec" => Deciding' = Deciding \ {c} /\ c \in Deciding
<1>1. /\ pc' \in [CPU -> RateSteps]
      /\ pc'[c] = p /\ \A d \in CPU \ {c} : pc'[d] = pc[d]
  BY DEF RateTyped
<1>. QED
  BY <1>1 DEF Deciding

\* A fill while caller c is not deciding.
LEMMA FillKeeps ==
  ASSUME RateInv, RateTyped', NEW c \in CPU, pc[c] # "dec", Deciding' = Deciding,
         rs_n_left' = burst, quota' = burst, granted' = 0
  PROVE  RateShared' /\ RateLeft'
<1>1. burst \in Nat
  BY RateConstants DEF RateInv, RateTyped
<1>2. Deciding \in SUBSET CPU /\ c \in CPU \ Deciding
  BY DEF Deciding
<1>3. Cardinality(Deciding) \in Nat /\ Cardinality(Deciding) + 1 <= Cardinality(CPU)
  BY <1>2, CpusCounted
<1>. QED
  BY <1>1, <1>3, RateFinite DEF RateShared, RateLeft

LEMMA RateStep == RateInv /\ Rate!Next => RateInv'
<1>. SUFFICES ASSUME RateInv, Rate!Next  PROVE  RateInv'
  OBVIOUS
<1>0. RateTyped /\ RateLocked /\ RateSynced /\ RateShared /\ RateLeft /\ missed + reported = refused
  BY DEF RateInv
<1>1. CASE Rate!Tick
  <2>1. jiffies' \in 0 .. RateCase.Wrap - 1 /\ age' \in 0 .. RateCase.Wrap
    BY <1>0, <1>1, RateConstants DEF Rate!Tick, RateTyped
  <2>2. UNCHANGED <<interval, burst, inited, begin, rs_n_left, missed, lock, pc, int, rret,
                    quota, granted, refused, reported>>
    BY <1>1 DEF Rate!Tick, Rate!shared, Rate!local
  <2>3. RateTyped'
    BY <1>0, <2>1, <2>2 DEF RateTyped
  <2>4. RateSynced'
    BY <1>0, <1>1, <2>2, TickSyncs DEF RateSynced
  <2>. QED
    BY <1>0, <2>2, <2>3, <2>4 DEF RateInv, RateLocked, RateShared, RateLeft, Deciding
<1>2. CASE Rate!SetLimits
  <2>1. UNCHANGED <<inited, begin, rs_n_left, missed, lock, jiffies, pc, int, rret, age, quota,
                    granted, refused, reported>>
    BY <1>2 DEF Rate!SetLimits, Rate!local, Rate!ghosts
  <2>2. RateTyped'
    BY <1>0, <1>2, <2>1 DEF RateTyped, Rate!SetLimits
  <2>. QED
    BY <1>0, <2>1, <2>2
       DEF RateInv, RateLocked, RateShared, RateLeft, Deciding, RateSynced, Synced
<1>3. ASSUME NEW c \in CPU, Rate!Enter(c) \/ Rate!ReadBurst(c) \/ Rate!Off(c) \/ Rate!TryLock(c)
      PROVE  RateInv'
  <2>1. PICK p \in {"burst", "off", "clear", "trylock", "return", "expired", "first", "left"} :
          pc' = [pc EXCEPT ![c] = p]
    BY <1>3 DEF Rate!Enter, Rate!ReadBurst, Rate!Off, Rate!TryLock, Rate!GoTo
  <2>2. /\ UNCHANGED <<interval, burst, begin, rs_n_left, missed, jiffies, age, quota, granted,
                       refused, reported>>
        /\ pc[c] \in {"idle", "burst", "off", "trylock"}
        /\ lock' = lock \/ (lock = "free" /\ lock' = c)
        /\ p \in {"clear", "expired", "first"} => lock' = c
        /\ p = "expired" => inited
        /\ int' = int \/ int' = [int EXCEPT ![c] = interval]
        /\ DOMAIN rret' = DOMAIN rret
    BY <1>3, <2>1 DEF Rate!Enter, Rate!ReadBurst, Rate!Off, Rate!TryLock, Rate!GoTo, Rate!shared,
                      Rate!raw_spin_trylock_irqsave, Rate!TrylockFails,
                      Rate!ghosts, RateInv, RateTyped
  <2>3. inited' => inited
    BY <1>3 DEF Rate!Enter, Rate!ReadBurst, Rate!Off, Rate!TryLock, Rate!shared
  <2>4. p \in RateSteps
    BY DEF RateSteps
  <2>5. /\ pc' \in [CPU -> RateSteps]
        /\ pc'[c] = p /\ \A d \in CPU \ {c} : pc'[d] = pc[d]
        /\ Deciding' = Deciding
    BY <1>0, <2>1, <2>2, <2>4, CallerMoves
  <2>6. RateTyped'
    BY <1>0, <2>2, <2>5 DEF RateTyped
  <2>7. RateLocked'
    BY <1>0, <2>2, <2>5, RateConstants DEF RateLocked
  <2>8. RateSynced'
    <3>1. (inited' \/ \E d \in CPU : pc'[d] \in {"fill", "expired"})
             => inited \/ \E d \in CPU : pc[d] \in {"fill", "expired"}
      BY <2>2, <2>3, <2>5
    <3>. QED
      BY <1>0, <2>2, <3>1 DEF RateSynced, Synced
  <2>. QED
    BY <1>0, <2>2, <2>5, <2>6, <2>7, <2>8 DEF RateInv, RateShared, RateLeft
<1>4. ASSUME NEW c \in CPU, Rate!First(c)  PROVE  RateInv'
  <2>1. /\ pc[c] = "first" /\ pc' = [pc EXCEPT ![c] = "fill"]
        /\ begin' = jiffies /\ age' = 0
        /\ UNCHANGED <<interval, burst, rs_n_left, missed, lock, jiffies, int, rret, quota, granted,
                       refused, reported>>
    BY <1>4 DEF Rate!First, Rate!GoTo
  <2>2. /\ pc' \in [CPU -> RateSteps]
        /\ pc'[c] = "fill" /\ \A d \in CPU \ {c} : pc'[d] = pc[d]
        /\ Deciding' = Deciding
    BY <1>0, <2>1, CallerMoves DEF RateSteps
  <2>3. RateTyped'
    BY <1>0, <2>1, <2>2, RateConstants DEF RateTyped
  <2>4. RateSynced'
    BY <1>0, <2>1, BeginSyncs DEF RateSynced
  <2>5. RateLocked'
    BY <1>0, <2>1, <2>2 DEF RateLocked
  <2>. QED
    BY <1>0, <2>1, <2>2, <2>3, <2>4, <2>5 DEF RateInv, RateShared, RateLeft
<1>5. ASSUME NEW c \in CPU, Rate!Fill(c)  PROVE  RateInv'
  <2>1. /\ pc[c] = "fill" /\ pc' = [pc EXCEPT ![c] = "expired"]
        /\ rs_n_left' = burst /\ quota' = burst /\ granted' = 0
        /\ UNCHANGED <<interval, burst, inited, begin, missed, lock, jiffies, int, rret, age, refused,
                       reported>>
    BY <1>5 DEF Rate!Fill, Rate!GoTo, Rate!Refill
  <2>2. /\ pc' \in [CPU -> RateSteps]
        /\ pc'[c] = "expired" /\ \A d \in CPU \ {c} : pc'[d] = pc[d]
        /\ Deciding' = Deciding
    BY <1>0, <2>1, CallerMoves DEF RateSteps
  <2>3. RateTyped'
    BY <1>0, <2>1, <2>2, RateConstants DEF RateTyped
  <2>4. RateShared' /\ RateLeft'
    BY <2>1, <2>2, <2>3, FillKeeps
  <2>5. RateLocked'
    BY <1>0, <2>1, <2>2 DEF RateLocked
  <2>6. RateSynced'
    BY <1>0, <2>1, RateFrame DEF RateSynced
  <2>. QED
    BY <1>0, <2>1, <2>3, <2>4, <2>5, <2>6 DEF RateInv
<1>6. ASSUME NEW c \in CPU, Rate!Expired(c)  PROVE  RateInv'
  <2>1. PICK p \in {"left", "report"} : pc' = [pc EXCEPT ![c] = p]
    BY <1>6 DEF Rate!Expired, Rate!GoTo
  <2>2. /\ pc[c] = "expired"
        /\ UNCHANGED <<interval, burst, inited, missed, lock, jiffies, int, rret, refused, reported>>
        /\ \/ rs_n_left' = burst /\ quota' = burst /\ granted' = 0 /\ begin' = jiffies /\ age' = 0
           \/ UNCHANGED <<rs_n_left, quota, granted, begin, age>>
    BY <1>6 DEF Rate!Expired, Rate!Refill
  <2>3. p \in RateSteps /\ p # "dec"
    BY DEF RateSteps
  <2>4. /\ pc' \in [CPU -> RateSteps]
        /\ pc'[c] = p /\ \A d \in CPU \ {c} : pc'[d] = pc[d]
        /\ Deciding' = Deciding
    BY <1>0, <2>1, <2>2, <2>3, CallerMoves
  <2>5. RateTyped'
    BY <1>0, <2>2, <2>4, RateConstants DEF RateTyped
  <2>6. RateShared' /\ RateLeft'
    <3>1. CASE UNCHANGED <<rs_n_left, quota, granted>>
      BY <1>0, <2>4, <3>1 DEF RateShared, RateLeft
    <3>2. CASE rs_n_left' = burst /\ quota' = burst /\ granted' = 0
      BY <2>2, <2>4, <2>5, <3>2, FillKeeps
    <3>. QED
      BY <2>2, <3>1, <3>2
  <2>7. RateLocked'
    BY <1>0, <2>2, <2>4 DEF RateLocked
  <2>8. Synced'
    <3>1. Synced
      BY <1>0, <2>2 DEF RateSynced
    <3>. QED
      BY <1>0, <2>2, <3>1, RateFrame, BeginSyncs
  <2>. QED
    BY <1>0, <2>2, <2>5, <2>6, <2>7, <2>8 DEF RateInv, RateSynced
<1>7. ASSUME NEW c \in CPU, Rate!Report(c) \/ Rate!Return(c)  PROVE  RateInv'
  <2>1. PICK p \in {"left", "idle"} : pc' = [pc EXCEPT ![c] = p]
    BY <1>7 DEF Rate!Report, Rate!Return, Rate!GoTo
  <2>2. /\ pc[c] \in {"report", "return"}
        /\ UNCHANGED <<interval, burst, inited, begin, rs_n_left, lock, jiffies, int, rret, age, quota,
                       granted>>
        /\ \/ reported' = reported + missed /\ missed' = 0 /\ refused' = refused
           \/ UNCHANGED <<missed, refused, reported>>
           \/ missed' = missed + 1 /\ refused' = refused + 1 /\ reported' = reported
    BY <1>7 DEF Rate!Report, Rate!Return, Rate!atomic_xchg_relaxed
  <2>3. p \in RateSteps /\ p # "dec"
    BY DEF RateSteps
  <2>4. /\ pc' \in [CPU -> RateSteps]
        /\ pc'[c] = p /\ \A d \in CPU \ {c} : pc'[d] = pc[d]
        /\ Deciding' = Deciding
    BY <1>0, <2>1, <2>2, <2>3, CallerMoves
  <2>5. RateTyped' /\ (missed + reported = refused)'
    BY <1>0, <2>2, <2>4 DEF RateTyped
  <2>6. RateLocked'
    BY <1>0, <2>2, <2>4 DEF RateLocked
  <2>7. RateSynced'
    BY <1>0, <2>2, <2>4, RateFrame DEF RateSynced
  <2>. QED
    BY <1>0, <2>2, <2>4, <2>5, <2>6, <2>7 DEF RateInv, RateShared, RateLeft
<1>8. ASSUME NEW c \in CPU, Rate!Left(c)  PROVE  RateInv'
  <2>1. PICK p \in {"dec", "return"} :
          pc' = [pc EXCEPT ![c] = p] /\ (p = "dec" => rs_n_left > 0)
    BY <1>8 DEF Rate!Left, Rate!GoTo
  <2>2. /\ pc[c] = "left"
        /\ UNCHANGED <<interval, burst, inited, begin, rs_n_left, missed, jiffies, int, rret, age, quota,
                       granted, refused, reported>>
        /\ lock' = lock \/ (lock = c /\ lock' = "free")
    BY <1>8 DEF Rate!Left, Rate!Unlock, Rate!raw_spin_unlock_irqrestore, Rate!shared, Rate!ghosts
  <2>3. p \in RateSteps
    BY DEF RateSteps
  <2>4. /\ pc' \in [CPU -> RateSteps]
        /\ pc'[c] = p /\ \A d \in CPU \ {c} : pc'[d] = pc[d]
        /\ p # "dec" => Deciding' = Deciding
        /\ p = "dec" => Deciding' = Deciding \cup {c} /\ c \notin Deciding
    BY <1>0, <2>1, <2>2, <2>3, CallerMoves
  <2>5. RateTyped'
    BY <1>0, <2>2, <2>4 DEF RateTyped
  <2>6. RateLeft'
    <3>1. Deciding \in SUBSET CPU /\ rs_n_left \in Int /\ Cardinality(Deciding) \in Nat
      BY <1>0, CpusCounted DEF Deciding, RateTyped
    <3>2. CASE p = "dec"
      <4>1. /\ Cardinality(Deciding') = Cardinality(Deciding) + 1
            /\ Cardinality(Deciding) + 1 <= Cardinality(CPU)
        BY <2>4, <3>1, <3>2, CpusCounted
      <4>. QED
        BY <2>1, <2>2, <3>1, <3>2, <4>1, RateFinite DEF RateLeft
    <3>3. CASE p # "dec"
      BY <1>0, <2>2, <2>4, <3>3 DEF RateLeft
    <3>. QED
      BY <3>2, <3>3
  <2>7. RateLocked'
    BY <1>0, <2>2, <2>4 DEF RateLocked
  <2>8. RateSynced'
    BY <1>0, <2>2, <2>4, RateFrame DEF RateSynced
  <2>. QED
    BY <1>0, <2>2, <2>4, <2>5, <2>6, <2>7, <2>8 DEF RateInv, RateShared
<1>9. ASSUME NEW c \in CPU, Rate!Dec(c)  PROVE  RateInv'
  <2>1. /\ pc[c] = "dec" /\ pc' = [pc EXCEPT ![c] = "return"]
        /\ UNCHANGED <<interval, burst, inited, begin, missed, jiffies, int, age, quota, refused,
                       reported>>
        /\ lock' = lock \/ (lock = c /\ lock' = "free")
        /\ rs_n_left' = rs_n_left - 1 /\ DOMAIN rret' = DOMAIN rret
        /\ granted' = IF rret'[c] THEN granted + 1 ELSE granted
    BY <1>9 DEF Rate!Dec, Rate!atomic_dec_return, Rate!Unlock, Rate!raw_spin_unlock_irqrestore, Rate!GoTo
  <2>2. rret'[c] => rs_n_left - 1 >= 0
    <3>1. rret' = [rret EXCEPT ![c] = Rate!Grant(rs_n_left')]
      BY <1>9 DEF Rate!Dec
    <3>2. rret'[c] = Rate!Grant(rs_n_left')
      BY <1>0, <3>1 DEF RateTyped
    <3>. QED
      BY <2>1, <3>2 DEF Rate!Grant
  <2>3. /\ pc' \in [CPU -> RateSteps]
        /\ pc'[c] = "return" /\ \A d \in CPU \ {c} : pc'[d] = pc[d]
        /\ Deciding' = Deciding \ {c} /\ c \in Deciding
    BY <1>0, <2>1, CallerMoves DEF RateSteps
  <2>4. granted' \in Nat /\ rs_n_left' \in Int /\ RateShared'
    BY <1>0, <2>1, <2>2 DEF RateTyped, RateShared
  <2>5. RateTyped'
    BY <1>0, <2>1, <2>3, <2>4 DEF RateTyped
  <2>6. RateLeft'
    <3>1. Deciding \in SUBSET CPU /\ rs_n_left \in Int /\ Cardinality(Deciding) \in Nat
      BY <1>0, CpusCounted DEF Deciding, RateTyped
    <3>2. Cardinality(Deciding') = Cardinality(Deciding) - 1
      BY <2>3, <3>1, CpusCounted
    <3>. QED
      BY <1>0, <2>1, <3>1, <3>2, RateFinite DEF RateLeft
  <2>7. RateLocked'
    BY <1>0, <2>1, <2>3 DEF RateLocked
  <2>8. RateSynced'
    BY <1>0, <2>1, <2>3, RateFrame DEF RateSynced
  <2>. QED
    BY <1>0, <2>1, <2>4, <2>5, <2>6, <2>7, <2>8 DEF RateInv
<1>10. ASSUME NEW c \in CPU, Rate!Clear(c)  PROVE  RateInv'
  <2>1. /\ pc[c] = "clear" /\ pc' = [pc EXCEPT ![c] = "return"] /\ ~inited' /\ lock' = "free"
        /\ UNCHANGED <<interval, burst, begin, rs_n_left, missed, jiffies, int, rret, age, quota, granted,
                       refused, reported>>
    BY <1>10 DEF Rate!Clear, Rate!GoTo, Rate!raw_spin_unlock_irqrestore, Rate!ghosts
  <2>2. /\ pc' \in [CPU -> RateSteps]
        /\ pc'[c] = "return" /\ \A d \in CPU \ {c} : pc'[d] = pc[d]
        /\ Deciding' = Deciding
    BY <1>0, <2>1, CallerMoves DEF RateSteps
  <2>3. RateTyped'
    BY <1>0, <2>1, <2>2 DEF RateTyped
  <2>4. RateLocked'
    BY <1>0, <2>1, <2>2 DEF RateLocked
  <2>5. RateSynced'
    BY <1>0, <2>1, <2>2, RateFrame DEF RateSynced
  <2>. QED
    BY <1>0, <2>1, <2>2, <2>3, <2>4, <2>5 DEF RateInv, RateShared, RateLeft
<1>. QED
  BY <1>1, <1>2, <1>3, <1>4, <1>5, <1>6, <1>7, <1>8, <1>9, <1>10 DEF Rate!Next

LEMMA RateKept == RateInv /\ UNCHANGED rateVars => RateInv'
  BY DEF RateInv, RateTyped, RateLocked, RateSynced, Synced, RateShared, RateLeft, Deciding, rateVars

LEMMA RatePartsNext == RateInv /\ [PartsNext]_allVars => RateInv'
<1>1. PartsNext => Rate!Next \/ UNCHANGED rateVars
  BY DEF PartsNext
<1>2. UNCHANGED allVars => UNCHANGED rateVars
  BY DEF allVars
<1>. QED
  BY <1>1, <1>2, RateStep, RateKept

\* A caller that renews the burst does so after its interval.
Apart == \A c \in CPU : pc[c] = "expired" /\ begin' # begin => age > int[c]

LEMMA RenewalsApart == RateInv /\ [PartsNext]_allVars => [Apart]_(Rate!vars)
<1>. SUFFICES ASSUME RateInv, Rate!Next, NEW c \in CPU, pc[c] = "expired", begin' # begin
              PROVE  age > int[c]
  <2>1. PartsNext => Rate!Next \/ UNCHANGED rateVars
    BY DEF PartsNext
  <2>2. UNCHANGED allVars => UNCHANGED rateVars
    BY DEF allVars
  <2>3. UNCHANGED rateVars => UNCHANGED Rate!vars
    BY DEF rateVars, Rate!vars, Rate!shared, Rate!local, Rate!ghosts
  <2>. QED
    BY <2>1, <2>2, <2>3 DEF Apart
<1>1. PICK d \in CPU : Rate!First(d) \/ Rate!Expired(d)
  BY DEF Rate!Next, Rate!Tick, Rate!SetLimits, Rate!Enter, Rate!ReadBurst, Rate!Off, Rate!Clear, Rate!TryLock,
         Rate!Fill, Rate!Report, Rate!Left, Rate!Dec, Rate!Return, Rate!shared
<1>2. d = c
  <2>1. pc[d] \in {"first", "expired"}
    BY <1>1 DEF Rate!First, Rate!Expired
  <2>. QED
    BY <2>1 DEF RateInv, RateLocked
<1>3. Rate!time_is_before_jiffies(begin + int[c])
  BY <1>1, <1>2 DEF Rate!First, Rate!Expired
<1>4. RateTyped /\ Synced
  BY DEF RateInv, RateSynced
<1>. QED
  BY <1>3, <1>4, ExpiredMeans

\* ratelimit.c on the kernel's trylock, atomics and clock, for any number of CPUs (one of
\* them is the target as built), any limits and any width of jiffies: no interleaving of
\* callers gets more out of a window than its burst, runs the counter down by as many as
\* there are CPUs, loses or repeats a miss, or opens a window before the interval is over.
THEOREM RateIsHeld == PartsSpec => RateHeld
<1>1. PartsInit => RateInv
  BY RateInitially DEF PartsInit
<1>2. RateInv => (part = "rate" => Rate!BurstBound /\ Rate!LeftBounded /\ Rate!MissesExact)
  <2>. SUFFICES ASSUME RateInv
                PROVE  Rate!BurstBound /\ Rate!LeftBounded /\ Rate!MissesExact
    OBVIOUS
  <2>1. Deciding \in SUBSET CPU /\ rs_n_left \in Int
    BY DEF Deciding, RateInv, RateTyped
  <2>2. Cardinality(Deciding) \in Nat
    BY <2>1, CpusCounted
  <2>3. Rate!LeftBounded
    BY <2>1, <2>2, RateFinite, RateCounts DEF RateInv, RateLeft, Rate!LeftBounded
  <2>. QED
    BY <2>3 DEF RateInv, RateShared, Rate!BurstBound, Rate!MissesExact
<1>. QED
  BY <1>1, <1>2, RatePartsNext, RenewalsApart, PTL
     DEF PartsSpec, RateHeld, Rate!WindowsApart, Apart
-----------------------------------------------------------------------------
(* bitmap.c: words and positions *)

\* A position lies before the first position of word n iff its word does.
LEMMA WordBefore ==
  ASSUME NEW w \in Nat \ {0}, NEW x \in Nat, NEW n \in Nat
  PROVE  x < w * n <=> x \div w < n
<1>. DEFINE q == x \div w
            r == x % w
<1>1. q \in Nat /\ r \in 0 .. w - 1 /\ x = w * q + r
  BY NatDivMod, Zenon
<1>. HIDE DEF q, r
<1>2. ASSUME q < n  PROVE  x < w * n
  <2>1. w * (q + 1) <= w * n
    BY <1>1, <1>2
  <2>2. w * (q + 1) = w * q + w
    BY <1>1
  <2>3. w * n \in Int /\ w * q \in Int
    BY <1>1
  <2>. QED
    BY <1>1, <2>1, <2>2, <2>3
<1>3. ASSUME q >= n  PROVE  x >= w * n
  <2>1. w * q >= w * n
    BY <1>1, <1>3
  <2>2. w * n \in Int /\ w * q \in Int
    BY <1>1
  <2>. QED
    BY <1>1, <2>1, <2>2
<1>4. w * n \in Int
  OBVIOUS
<1>5. x < w * n <=> q < n
  BY <1>1, <1>2, <1>3, <1>4
<1>. QED
  BY <1>5 DEF q

LEMMA BmapConstants ==
  BmapCase.W \in Nat \ {0} /\ \A m \in BmapCase.Map : BmapCase.N[m] \in Nat
  BY PartsAssumption DEF Bmap!BitmapAssumption

\* The number of words that hold a size.
LEMMA Longs ==
  ASSUME NEW n \in Nat
  PROVE  /\ Bmap!BITS_TO_LONGS(n) \in Nat
         /\ n % BmapCase.W = 0 => Bmap!BITS_TO_LONGS(n) = n \div BmapCase.W
         /\ n % BmapCase.W # 0 => Bmap!BITS_TO_LONGS(n) = (n \div BmapCase.W) + 1
         /\ \A x \in Nat : x < n => x \div BmapCase.W < Bmap!BITS_TO_LONGS(n)
         /\ \A l \in Nat : n <= BmapCase.W * l => Bmap!BITS_TO_LONGS(n) <= l
<1>. DEFINE w == BmapCase.W
            q == n \div w
            r == n % w
            l == Bmap!BITS_TO_LONGS(n)
<1>0. w \in Nat \ {0}
  BY BmapConstants
<1>1. q \in Nat /\ r \in 0 .. w - 1 /\ n = w * q + r
  <2>. HIDE DEF w
  <2>. QED
    BY <1>0, NatDivMod, Zenon
<1>2. l = (n + w - 1) \div w
  BY DEF Bmap!BITS_TO_LONGS
<1>. HIDE DEF w, q, r, l
<1>3. ASSUME r = 0  PROVE  l = q
  <2>. DEFINE x == n + w - 1
              s == w - 1
  <2>1. x \in Int /\ s \in 0 .. w - 1 /\ x = w * q + s /\ q \in Int
    BY <1>0, <1>1, <1>3
  <2>. HIDE DEF x, s
  <2>2. x \div w = q
    BY <1>0, <2>1, DivModIs
  <2>. QED
    BY <1>2, <2>2 DEF x
<1>4. ASSUME r # 0  PROVE  l = q + 1
  <2>. DEFINE x == n + w - 1
              s == r - 1
              p == q + 1
  <2>1. w * (q + 1) = w * q + w
    BY <1>0, <1>1
  <2>2. x \in Int /\ s \in 0 .. w - 1 /\ x = w * p + s /\ p \in Int
    BY <1>0, <1>1, <1>4, <2>1
  <2>. HIDE DEF x, s, p
  <2>3. x \div w = p
    BY <1>0, <2>2, DivModIs
  <2>. QED
    BY <1>2, <2>3 DEF x, p
<1>5. l \in Nat
  BY <1>1, <1>3, <1>4
<1>6. ASSUME NEW x \in Nat, x < n  PROVE  x \div w < l
  <2>1. n <= w * l
    <3>1. CASE r = 0
      BY <1>0, <1>1, <1>3, <3>1
    <3>2. CASE r # 0
      <4>1. w * (q + 1) = w * q + w
        BY <1>0, <1>1
      <4>. QED
        BY <1>0, <1>1, <1>4, <3>2, <4>1
    <3>. QED
      BY <3>1, <3>2
  <2>2. w * l \in Int
    BY <1>0, <1>5
  <2>3. x < w * l
    BY <1>6, <2>1, <2>2
  <2>. QED
    BY <1>0, <1>5, <2>3, WordBefore
<1>7. ASSUME NEW k \in Nat, n <= w * k  PROVE  l <= k
  <2>1. CASE r = 0
    <3>1. ASSUME q > k  PROVE  FALSE
      <4>1. w * (k + 1) <= w * q
        BY <1>0, <1>1, <3>1
      <4>2. w * (k + 1) = w * k + w
        BY <1>0
      <4>. QED
        BY <1>0, <1>1, <1>7, <4>1, <4>2
    <3>. QED
      BY <1>1, <1>3, <2>1, <3>1
  <2>2. CASE r # 0
    <3>1. ASSUME q >= k  PROVE  FALSE
      <4>1. w * k <= w * q
        BY <1>0, <1>1, <3>1
      <4>2. w * k \in Int /\ w * q \in Int
        BY <1>0, <1>1
      <4>. QED
        BY <1>0, <1>1, <1>7, <2>2, <4>1, <4>2
    <3>. QED
      BY <1>1, <1>4, <2>2, <3>1
  <2>. QED
    BY <2>1, <2>2
<1>. QED
  BY <1>3, <1>4, <1>5, <1>6, <1>7 DEF w, q, r, l

\* The positions among the first n that an array of words has.
Positions(words, n) == {x \in 0 .. n - 1 : x % BmapCase.W \in words[x \div BmapCase.W]}

\* An array of words that is long enough for n positions.
Holds(words, n) ==
  \A k \in 0 .. Bmap!BITS_TO_LONGS(n) - 1 : k \in DOMAIN words /\ words[k] \subseteq Bmap!BitIndex

\* The words of the first n positions, of which a call reads no other.
LEMMA MaskedIs ==
  ASSUME NEW n \in Nat, NEW words, Holds(words, n)
  PROVE  /\ DOMAIN Bmap!Masked(words, n) = 0 .. Bmap!BITS_TO_LONGS(n) - 1
         /\ Positions(Bmap!Masked(words, n), n) = Positions(words, n)
         /\ \A k \in 0 .. Bmap!BITS_TO_LONGS(n) - 1 : \A b \in Bmap!Masked(words, n)[k] :
              /\ b \in Bmap!BitIndex /\ b \in words[k]
              /\ BmapCase.W * k + b \in 0 .. n - 1
<1>. DEFINE w == BmapCase.W
            q == n \div w
            r == n % w
            l == Bmap!BITS_TO_LONGS(n)
            mask == Bmap!BITMAP_LAST_WORD_MASK(n)
            M == Bmap!Masked(words, n)
<1>0. w \in Nat \ {0} /\ l \in Nat /\ (r = 0 => l = q) /\ (r # 0 => l = q + 1)
  BY BmapConstants, Longs
<1>1. q \in Nat /\ r \in 0 .. w - 1 /\ n = w * q + r
  <2>. HIDE DEF w
  <2>. QED
    BY <1>0, NatDivMod, Zenon
<1>2. /\ M = [k \in 0 .. l - 1 |-> IF k < q THEN words[k] ELSE words[k] \cap mask]
      /\ r # 0 => mask = 0 .. r - 1
      /\ Bmap!BitIndex = 0 .. w - 1
  BY DEF Bmap!Masked, Bmap!BITMAP_LAST_WORD_MASK, Bmap!BitIndex
<1>3. \A x \in 0 .. n - 1 : /\ x \div w \in 0 .. l - 1 /\ x % w \in 0 .. w - 1
                            /\ x = w * (x \div w) + (x % w)
  <2>. SUFFICES ASSUME NEW x \in 0 .. n - 1
                PROVE  /\ x \div w \in 0 .. l - 1 /\ x % w \in 0 .. w - 1
                       /\ x = w * (x \div w) + (x % w)
    OBVIOUS
  <2>1. x \in Nat /\ x < n
    OBVIOUS
  <2>2. x \div w < l
    BY <2>1, Longs
  <2>. HIDE DEF w, l
  <2>3. x \div w \in Nat /\ x % w \in 0 .. w - 1 /\ x = w * (x \div w) + (x % w)
    BY <1>0, <2>1, NatDivMod, Zenon
  <2>. QED
    BY <1>0, <2>2, <2>3
<1>4. \A k \in 0 .. l - 1 : words[k] \subseteq 0 .. w - 1
  BY <1>2 DEF Holds
<1>5. ASSUME NEW x \in 0 .. n - 1
      PROVE  x % w \in M[x \div w] <=> x % w \in words[x \div w]
  <2>. DEFINE k == x \div w
              b == x % w
  <2>1. k \in 0 .. l - 1 /\ b \in 0 .. w - 1 /\ x = w * k + b
    BY <1>3
  <2>. HIDE DEF k, b, w, q, r, l, mask, M
  <2>2. CASE k < q
    BY <1>2, <2>1, <2>2 DEF k, b
  <2>3. CASE ~ (k < q)
    <3>1. r # 0 /\ k = q
      BY <1>0, <1>1, <2>1, <2>3
    <3>2. b < r
      BY <1>0, <1>1, <2>1, <3>1
    <3>3. b \in mask
      BY <1>1, <1>2, <2>1, <3>1, <3>2
    <3>. QED
      BY <1>2, <2>1, <2>3, <3>3 DEF k, b
  <2>. QED
    BY <2>2, <2>3
<1>6. ASSUME NEW k \in 0 .. l - 1, NEW b \in M[k]
      PROVE  b \in 0 .. w - 1 /\ b \in words[k] /\ w * k + b \in 0 .. n - 1
  <2>. HIDE DEF w, q, r, l, mask, M
  <2>1. b \in words[k]
    BY <1>2, <1>6
  <2>2. b \in 0 .. w - 1 /\ k \in Nat /\ w * k \in Nat
    BY <1>0, <1>4, <2>1
  <2>3. w * k + b < n
    <3>1. CASE k < q
      <4>1. w * (k + 1) <= w * q
        BY <1>0, <1>1, <2>2, <3>1
      <4>2. w * (k + 1) = w * k + w
        BY <1>0, <2>2
      <4>. QED
        BY <1>0, <1>1, <2>2, <4>1, <4>2
    <3>2. CASE ~ (k < q)
      <4>1. r # 0 /\ k = q
        BY <1>0, <1>1, <2>2, <3>2
      <4>2. b < r
        BY <1>1, <1>2, <1>6, <3>2, <4>1
      <4>. QED
        BY <1>0, <1>1, <2>2, <4>1, <4>2
    <3>. QED
      BY <3>1, <3>2
  <2>. QED
    BY <2>1, <2>2, <2>3
<1>7. DOMAIN M = 0 .. l - 1
  BY <1>2
<1>8. Positions(M, n) = Positions(words, n)
  BY <1>5 DEF Positions
<1>. HIDE DEF M
<1>. QED
  BY <1>2, <1>6, <1>7, <1>8 DEF M

LEMMA BitIndexIs == Bmap!BitIndex = 0 .. BmapCase.W - 1
  BY DEF Bmap!BitIndex

\* A position of a size has a word of the size and a bit.
LEMMA PositionSplits ==
  ASSUME NEW n \in Nat, NEW x \in 0 .. n - 1
  PROVE  /\ x \div BmapCase.W \in 0 .. Bmap!BITS_TO_LONGS(n) - 1
         /\ x % BmapCase.W \in Bmap!BitIndex
         /\ x = BmapCase.W * (x \div BmapCase.W) + (x % BmapCase.W)
<1>1. x \in Nat /\ x < n
  OBVIOUS
<1>2. x \div BmapCase.W < Bmap!BITS_TO_LONGS(n) /\ Bmap!BITS_TO_LONGS(n) \in Nat
  BY <1>1, Longs
<1>3. /\ x \div BmapCase.W \in Nat /\ x % BmapCase.W \in 0 .. BmapCase.W - 1
      /\ x = BmapCase.W * (x \div BmapCase.W) + (x % BmapCase.W)
  BY <1>1, BmapConstants, NatDivMod, Zenon
<1>. QED
  BY <1>2, <1>3, BitIndexIs

\* Word and bit of a position that is put together from them.
LEMMA PositionJoins ==
  ASSUME NEW k \in Nat, NEW b \in Bmap!BitIndex
  PROVE  /\ BmapCase.W * k + b \in Nat
         /\ (BmapCase.W * k + b) \div BmapCase.W = k
         /\ (BmapCase.W * k + b) % BmapCase.W = b
<1>. DEFINE w == BmapCase.W
            x == w * k + b
<1>0. w \in Nat \ {0} /\ b \in 0 .. w - 1
  BY BmapConstants, BitIndexIs
<1>1. x = w * k + b /\ x \in Nat /\ x \in Int /\ k \in Int
  BY <1>0
<1>. HIDE DEF w, x
<1>2. x \div w = k /\ x % w = b
  BY <1>0, <1>1, DivModIs
<1>. QED
  BY <1>1, <1>2 DEF w, x

\* The masked words are zero when no position is in them.
LEMMA ZeroIs ==
  ASSUME NEW n \in Nat, NEW words, Holds(words, n)
  PROVE  Bmap!Zero(Bmap!Masked(words, n)) <=> Positions(words, n) = {}
<1>. DEFINE M == Bmap!Masked(words, n)
            l == Bmap!BITS_TO_LONGS(n)
<1>1. /\ DOMAIN M = 0 .. l - 1 /\ Positions(M, n) = Positions(words, n) /\ l \in Nat
      /\ \A k \in 0 .. l - 1 : \A b \in M[k] :
           b \in Bmap!BitIndex /\ BmapCase.W * k + b \in 0 .. n - 1
  BY MaskedIs, Longs
<1>. HIDE DEF M, l
<1>2. ASSUME NEW x \in Positions(M, n)  PROVE  ~ Bmap!Zero(M)
  <2>1. x \in 0 .. n - 1 /\ x % BmapCase.W \in M[x \div BmapCase.W]
    BY DEF Positions
  <2>2. x \div BmapCase.W \in 0 .. l - 1
    BY <2>1, PositionSplits DEF l
  <2>. QED
    BY <1>1, <2>1, <2>2 DEF Bmap!Zero
<1>3. ASSUME ~ Bmap!Zero(M)  PROVE  Positions(M, n) # {}
  <2>1. PICK k \in 0 .. l - 1 : M[k] # {}
    BY <1>1, <1>3 DEF Bmap!Zero
  <2>2. PICK b \in M[k] : TRUE
    BY <2>1
  <2>3. b \in Bmap!BitIndex /\ BmapCase.W * k + b \in 0 .. n - 1 /\ k \in Nat
    BY <1>1
  <2>4. (BmapCase.W * k + b) \div BmapCase.W = k /\ (BmapCase.W * k + b) % BmapCase.W = b
    BY <2>3, PositionJoins
  <2>5. BmapCase.W * k + b \in Positions(M, n)
    BY <2>2, <2>3, <2>4, Zenon DEF Positions
  <2>. QED
    BY <2>5
<1>. QED
  BY <1>1, <1>2, <1>3 DEF M

LEMMA BmapCounts ==
  \A S : Bmap!Cardinality(S) = Cardinality(S) /\ Bmap!Abstract!Cardinality(S) = Cardinality(S)
  BY DEF Bmap!Cardinality, Bmap!Abstract!Cardinality, Cardinality

\* The bits counted word by word are as many as the positions.
LEMMA WeightIs ==
  ASSUME NEW n \in Nat, NEW words, Holds(words, n)
  PROVE  Bmap!hweight(Bmap!Masked(words, n)) = Cardinality(Positions(words, n))
<1>. DEFINE M == Bmap!Masked(words, n)
            l == Bmap!BITS_TO_LONGS(n)
            P == Positions(M, n)
            B == {p \in (DOMAIN M) \X Bmap!BitIndex : p[2] \in M[p[1]]}
            f == [x \in P |-> <<x \div BmapCase.W, x % BmapCase.W>>]
<1>1. /\ DOMAIN M = 0 .. l - 1 /\ Positions(M, n) = Positions(words, n) /\ l \in Nat
      /\ \A k \in 0 .. l - 1 : \A b \in M[k] :
           b \in Bmap!BitIndex /\ BmapCase.W * k + b \in 0 .. n - 1
  BY MaskedIs, Longs
<1>. HIDE DEF M
<1>2. IsFiniteSet(P)
  <2>1. 0 \in Int /\ n - 1 \in Int
    OBVIOUS
  <2>2. IsFiniteSet(0 .. n - 1)
    BY <2>1, FS_Interval, Zenon
  <2>3. P \subseteq 0 .. n - 1
    BY DEF Positions
  <2>. QED
    BY <2>2, <2>3, FS_Subset, Zenon
<1>3. ASSUME NEW x \in P
      PROVE  /\ <<x \div BmapCase.W, x % BmapCase.W>> \in B
             /\ x = BmapCase.W * (x \div BmapCase.W) + (x % BmapCase.W)
  <2>1. x \in 0 .. n - 1 /\ x % BmapCase.W \in M[x \div BmapCase.W]
    BY DEF Positions
  <2>2. /\ x \div BmapCase.W \in 0 .. l - 1 /\ x % BmapCase.W \in Bmap!BitIndex
        /\ x = BmapCase.W * (x \div BmapCase.W) + (x % BmapCase.W)
    BY <2>1, PositionSplits
  <2>. HIDE DEF P, f, l
  <2>. DEFINE k == x \div BmapCase.W
              b == x % BmapCase.W
  <2>3. k \in DOMAIN M /\ b \in Bmap!BitIndex /\ b \in M[k]
    BY <1>1, <2>1, <2>2
  <2>. HIDE DEF k, b
  <2>4. <<k, b>> \in B
    BY <2>3
  <2>. QED
    BY <2>2, <2>4 DEF k, b
<1>4. ASSUME NEW p \in B  PROVE  \E x \in P : f[x] = p
  <2>1. PICK k \in DOMAIN M, b \in Bmap!BitIndex : p = <<k, b>> /\ b \in M[k]
    OBVIOUS
  <2>2. k \in 0 .. l - 1 /\ k \in Nat /\ BmapCase.W * k + b \in 0 .. n - 1
    BY <1>1, <2>1
  <2>3. (BmapCase.W * k + b) \div BmapCase.W = k /\ (BmapCase.W * k + b) % BmapCase.W = b
    BY <2>2, PositionJoins
  <2>4. BmapCase.W * k + b \in P
    BY <2>1, <2>2, <2>3, Zenon DEF Positions
  <2>. HIDE DEF P
  <2>5. f[BmapCase.W * k + b] = <<k, b>>
    BY <2>3, <2>4, Zenon
  <2>. QED
    BY <2>1, <2>4, <2>5
<1>5. f \in Bijection(P, B)
  <2>. HIDE DEF P, B
  <2>1. f \in [P -> B]
    BY <1>3
  <2>2. \A x, y \in P : f[x] = f[y] => x = y
    <3>. SUFFICES ASSUME NEW x \in P, NEW y \in P, f[x] = f[y]  PROVE  x = y
      OBVIOUS
    <3>1. x \div BmapCase.W = y \div BmapCase.W /\ x % BmapCase.W = y % BmapCase.W
      OBVIOUS
    <3>. QED
      BY <1>3, <3>1, Zenon
  <2>. HIDE DEF f
  <2>. QED
    BY <2>1, <2>2, <1>4 DEF Bijection, Injection, Surjection, IsInjective
<1>6. Cardinality(B) = Cardinality(P)
  <2>. HIDE DEF P, B, f
  <2>. QED
    BY <1>2, <1>5, FS_Bijection DEF ExistsBijection
<1>7. Bmap!hweight(M) = Cardinality(B)
  BY BmapCounts DEF Bmap!hweight
<1>. QED
  BY <1>1, <1>6, <1>7 DEF M

\* Word by word is position by position.
LEMMA CombineIs ==
  ASSUME NEW n \in Nat, NEW s, NEW t, Holds(s, n), Holds(t, n)
  PROVE  /\ Holds(Bmap!Combine(Bmap!WAnd, s, t), n)
         /\ Holds(Bmap!Combine(Bmap!WOr, s, t), n)
         /\ Holds(Bmap!Combine(Bmap!WXor, s, t), n)
         /\ Holds(Bmap!Combine(Bmap!WAndNot, s, t), n)
         /\ Positions(Bmap!Combine(Bmap!WAnd, s, t), n) = Positions(s, n) \cap Positions(t, n)
         /\ Positions(Bmap!Combine(Bmap!WOr, s, t), n) = Positions(s, n) \cup Positions(t, n)
         /\ Positions(Bmap!Combine(Bmap!WXor, s, t), n) =
              (Positions(s, n) \ Positions(t, n)) \cup (Positions(t, n) \ Positions(s, n))
         /\ Positions(Bmap!Combine(Bmap!WAndNot, s, t), n) = Positions(s, n) \ Positions(t, n)
<1>. DEFINE D == (DOMAIN s) \cap (DOMAIN t)
            l == Bmap!BITS_TO_LONGS(n)
            cand == Bmap!Combine(Bmap!WAnd, s, t)
            cor == Bmap!Combine(Bmap!WOr, s, t)
            cxor == Bmap!Combine(Bmap!WXor, s, t)
            cnot == Bmap!Combine(Bmap!WAndNot, s, t)
<1>1. /\ cand = [k \in D |-> s[k] \cap t[k]]
      /\ cor = [k \in D |-> s[k] \cup t[k]]
      /\ cxor = [k \in D |-> (s[k] \ t[k]) \cup (t[k] \ s[k])]
      /\ cnot = [k \in D |-> s[k] \ t[k]]
  BY DEF Bmap!Combine, Bmap!WAnd, Bmap!WOr, Bmap!WXor, Bmap!WAndNot
<1>2. \A k \in 0 .. l - 1 : /\ k \in D
                            /\ s[k] \subseteq Bmap!BitIndex /\ t[k] \subseteq Bmap!BitIndex
  BY DEF Holds
<1>3. \A x \in 0 .. n - 1 : x \div BmapCase.W \in 0 .. l - 1
  BY PositionSplits
<1>. HIDE DEF cand, cor, cxor, cnot, D
<1>4. /\ DOMAIN cand = D /\ DOMAIN cor = D /\ DOMAIN cxor = D /\ DOMAIN cnot = D
      /\ \A k \in D : /\ cand[k] = s[k] \cap t[k]
                      /\ cor[k] = s[k] \cup t[k]
                      /\ cxor[k] = (s[k] \ t[k]) \cup (t[k] \ s[k])
                      /\ cnot[k] = s[k] \ t[k]
  BY <1>1
<1>5. Holds(cand, n) /\ Holds(cor, n) /\ Holds(cxor, n) /\ Holds(cnot, n)
  BY <1>2, <1>4 DEF Holds
<1>. HIDE DEF l
<1>6. \A x \in 0 .. n - 1 : x \div BmapCase.W \in D
  BY <1>2, <1>3
<1>7. Positions(cand, n) = Positions(s, n) \cap Positions(t, n)
  BY <1>4, <1>6 DEF Positions
<1>8. Positions(cor, n) = Positions(s, n) \cup Positions(t, n)
  BY <1>4, <1>6 DEF Positions
<1>9. Positions(cxor, n) = (Positions(s, n) \ Positions(t, n)) \cup (Positions(t, n) \ Positions(s, n))
  BY <1>4, <1>6 DEF Positions
<1>10. Positions(cnot, n) = Positions(s, n) \ Positions(t, n)
  BY <1>4, <1>6 DEF Positions
<1>. QED
  BY <1>5, <1>7, <1>8, <1>9, <1>10 DEF cand, cor, cxor, cnot

\* A caller's whole words have the positions of the array they come from.
LEMMA WholeIs ==
  ASSUME NEW n \in Nat, NEW words, Holds(words, n)
  PROVE  /\ DOMAIN Bmap!Whole(words, n) = 0 .. Bmap!BITS_TO_LONGS(n) - 1
         /\ Positions(Bmap!Whole(words, n), n) = Positions(words, n)
         /\ \A k \in 0 .. Bmap!BITS_TO_LONGS(n) - 1 :
              Bmap!Whole(words, n)[k] \subseteq Bmap!BitIndex
<1>1. \A x \in 0 .. n - 1 : x \div BmapCase.W \in 0 .. Bmap!BITS_TO_LONGS(n) - 1
  BY PositionSplits
<1>2. /\ DOMAIN Bmap!Whole(words, n) = 0 .. Bmap!BITS_TO_LONGS(n) - 1
      /\ \A k \in 0 .. Bmap!BITS_TO_LONGS(n) - 1 : Bmap!Whole(words, n)[k] = words[k]
  BY DEF Bmap!Whole
<1>3. Positions(Bmap!Whole(words, n), n) = Positions(words, n)
  BY <1>1, <1>2 DEF Positions
<1>. QED
  BY <1>2, <1>3 DEF Holds

BmapInv ==
  /\ map = [m \in BmapCase.Map |-> map[m]]
  /\ \A m \in BmapCase.Map : map[m] \in [Bmap!Index(m) -> SUBSET Bmap!BitIndex]

\* A bitmap as the abstract specification sees it.
LEMMA SetIs ==
  ASSUME NEW m \in BmapCase.Map
  PROVE  Bmap!Set[m] = Positions(map[m], BmapCase.W * BmapCase.N[m])
  BY DEF Bmap!Set, Positions

LEMMA SetPrimeIs ==
  ASSUME NEW m \in BmapCase.Map
  PROVE  Bmap!Set'[m] = Positions(map'[m], BmapCase.W * BmapCase.N[m])
  BY DEF Bmap!Set, Positions

\* The part of a bitmap that a call of size n is about.
LEMMA BitmapHolds ==
  ASSUME BmapInv, NEW m \in BmapCase.Map, NEW n \in Nat, n <= BmapCase.W * BmapCase.N[m]
  PROVE  Holds(map[m], n) /\ Bmap!Set[m] \cap (0 .. n - 1) = Positions(map[m], n)
<1>1. BmapCase.N[m] \in Nat /\ BmapCase.W * BmapCase.N[m] \in Nat
  BY BmapConstants
<1>2. Bmap!BITS_TO_LONGS(n) \in Nat /\ Bmap!BITS_TO_LONGS(n) <= BmapCase.N[m]
  BY <1>1, Longs
<1>3. map[m] \in [0 .. BmapCase.N[m] - 1 -> SUBSET Bmap!BitIndex]
  BY DEF BmapInv, Bmap!Index
<1>4. Holds(map[m], n)
  BY <1>1, <1>2, <1>3 DEF Holds
<1>5. Bmap!Set[m] \cap (0 .. n - 1) = Positions(map[m], n)
  BY <1>1, SetIs DEF Positions
<1>. QED
  BY <1>4, <1>5

\* A call stores words: the bitmap gets their positions, keeps what lies past them, and no
\* other bitmap changes.
LEMMA StoreIs ==
  ASSUME BmapInv, NEW dst \in BmapCase.Map, NEW n \in Nat, n <= BmapCase.W * BmapCase.N[dst],
         NEW words, DOMAIN words = 0 .. Bmap!BITS_TO_LONGS(n) - 1,
         \A k \in DOMAIN words : words[k] \subseteq Bmap!BitIndex,
         Bmap!Store(dst, words)
  PROVE  /\ BmapInv'
         /\ Bmap!Set'[dst] \cap (0 .. n - 1) = Positions(words, n)
         /\ Bmap!Set'[dst] \ Bmap!Abstract!WholeWords(n) = Bmap!Set[dst] \ Bmap!Abstract!WholeWords(n)
         /\ \A m \in BmapCase.Map \ {dst} : Bmap!Set'[m] = Bmap!Set[m]
<1>. DEFINE w == BmapCase.W
            l == Bmap!BITS_TO_LONGS(n)
            size_ == BmapCase.W * BmapCase.N[dst]
            new == [k \in Bmap!Index(dst) |-> IF k \in DOMAIN words THEN words[k] ELSE map[dst][k]]
<1>0. w \in Nat \ {0} /\ BmapCase.N[dst] \in Nat /\ size_ \in Nat /\ l \in Nat /\ l <= BmapCase.N[dst]
  <2>1. w \in Nat \ {0} /\ BmapCase.N[dst] \in Nat /\ size_ \in Nat
    BY BmapConstants
  <2>2. l \in Nat /\ l <= BmapCase.N[dst]
    BY <2>1, Longs
  <2>. QED
    BY <2>1, <2>2
<1>1. map' = [map EXCEPT ![dst] = new]
  BY DEF Bmap!Store
<1>2. map'[dst] = new /\ \A m \in BmapCase.Map \ {dst} : map'[m] = map[m]
  BY <1>1 DEF BmapInv
<1>3. BmapInv'
  <2>1. new \in [Bmap!Index(dst) -> SUBSET Bmap!BitIndex]
    BY DEF BmapInv
  <2>. HIDE DEF new
  <2>2. DOMAIN map' = BmapCase.Map /\ map' = [m \in BmapCase.Map |-> map'[m]]
    BY <1>1 DEF BmapInv
  <2>3. \A m \in BmapCase.Map : map'[m] \in [Bmap!Index(m) -> SUBSET Bmap!BitIndex]
    BY <1>2, <2>1 DEF BmapInv
  <2>4. \A m : Bmap!Index(m)' = Bmap!Index(m)
    BY DEF Bmap!Index
  <2>. QED
    BY <2>2, <2>3, <2>4 DEF BmapInv
<1>4. \A x \in 0 .. size_ - 1 : x \div w \in Bmap!Index(dst)
  <2>. SUFFICES ASSUME NEW x \in 0 .. size_ - 1  PROVE  x \div w \in Bmap!Index(dst)
    OBVIOUS
  <2>1. x \in Nat /\ x < w * BmapCase.N[dst]
    BY <1>0
  <2>2. x \div w < BmapCase.N[dst] /\ x \div w \in Nat
    BY <1>0, <2>1, WordBefore, NatDivMod
  <2>. QED
    BY <1>0, <2>2 DEF Bmap!Index
<1>5. Bmap!Set'[dst] = Positions(new, size_)
  BY <1>2, SetPrimeIs
<1>6. Bmap!Set'[dst] \cap (0 .. n - 1) = Positions(words, n)
  <2>1. \A x \in 0 .. n - 1 : x \in 0 .. size_ - 1 /\ x \div w \in 0 .. l - 1
    BY <1>0, PositionSplits
  <2>2. \A x \in 0 .. n - 1 : new[x \div w] = words[x \div w]
    BY <1>4, <2>1
  <2>. HIDE DEF new, size_
  <2>. QED
    BY <1>5, <2>1, <2>2 DEF Positions
<1>7. Bmap!Set'[dst] \ Bmap!Abstract!WholeWords(n) = Bmap!Set[dst] \ Bmap!Abstract!WholeWords(n)
  <2>1. Bmap!Abstract!WholeWords(n) = 0 .. w * l - 1 /\ w * l \in Nat
    BY <1>0 DEF Bmap!Abstract!WholeWords, Bmap!BITS_TO_LONGS
  <2>2. ASSUME NEW x \in 0 .. size_ - 1, x \notin 0 .. w * l - 1
        PROVE  new[x \div w] = map[dst][x \div w]
    <3>1. x \in Nat /\ ~ (x < w * l)
      BY <2>1, <2>2
    <3>2. ~ (x \div w < l)
      BY <1>0, <3>1, WordBefore
    <3>. QED
      BY <1>0, <1>4, <3>2
  <2>. HIDE DEF new, size_, l, w
  <2>3. \A x \in 0 .. size_ - 1 : x \notin 0 .. w * l - 1 =>
           (x % w \in new[x \div w] <=> x % w \in map[dst][x \div w])
    BY <2>2
  <2>. QED
    BY <1>5, <2>1, <2>3, SetIs DEF Positions, size_, w
<1>8. \A m \in BmapCase.Map \ {dst} : Bmap!Set'[m] = Bmap!Set[m]
  BY <1>2, SetIs, SetPrimeIs
<1>. QED
  BY <1>3, <1>6, <1>7, <1>8

\* The bits of word k that a range covers, as the loops of set and clear mask them.
LEMMA RangeMaskIs ==
  ASSUME NEW k \in Nat, NEW start \in Nat, NEW n \in Nat, NEW b \in Bmap!BitIndex
  PROVE  /\ Bmap!RangeMask(k, start, n) \subseteq Bmap!BitIndex
         /\ b \in Bmap!RangeMask(k, start, n) <=> BmapCase.W * k + b \in start .. start + n - 1
<1>. DEFINE w == BmapCase.W
            first == start \div w
            s == start % w
            e == start + n
            lead == IF k = first THEN Bmap!BITMAP_FIRST_WORD_MASK(start) ELSE Bmap!BitIndex
            left == IF k = first THEN n ELSE start + n - k * w
            room == IF k = first THEN w - s ELSE w
            mask == Bmap!BITMAP_LAST_WORD_MASK(e)
            M == Bmap!RangeMask(k, start, n)
<1>0. w \in Nat \ {0} /\ b \in 0 .. w - 1 /\ Bmap!BitIndex = 0 .. w - 1 /\ e \in Nat
  BY BmapConstants, BitIndexIs
<1>1. /\ M = IF k < first \/ left <= 0 THEN {} ELSE IF left >= room THEN lead ELSE lead \cap mask
      /\ lead = IF k = first THEN {c \in 0 .. w - 1 : c >= s} ELSE 0 .. w - 1
      /\ mask = IF e % w = 0 THEN 0 .. w - 1 ELSE 0 .. (e % w) - 1
      /\ left = IF k = first THEN n ELSE e - k * w
      /\ room = IF k = first THEN w - s ELSE w
  <2>1. M = IF k < first \/ left <= 0 THEN {} ELSE IF left >= room THEN lead ELSE lead \cap mask
    BY DEF Bmap!RangeMask
  <2>2. lead = IF k = first THEN {c \in 0 .. w - 1 : c >= s} ELSE 0 .. w - 1
    BY DEF Bmap!BITMAP_FIRST_WORD_MASK, Bmap!BitIndex
  <2>3. mask = IF e % w = 0 THEN 0 .. w - 1 ELSE 0 .. (e % w) - 1
    BY DEF Bmap!BITMAP_LAST_WORD_MASK, Bmap!BitIndex
  <2>4. left = (IF k = first THEN n ELSE e - k * w) /\ room = IF k = first THEN w - s ELSE w
    <3>. HIDE DEF first, s, w
    <3>1. k * w \in Int /\ w \in Nat
      BY <1>0
    <3>. QED
      BY <3>1
  <2>. HIDE DEF M, lead, mask, left, room, first, s, e, w
  <2>. QED
    BY <2>1, <2>2, <2>3, <2>4, Zenon
<1>2. first \in Nat /\ s \in 0 .. w - 1 /\ start = w * first + s
  <2>. HIDE DEF w
  <2>. QED
    BY <1>0, NatDivMod, Zenon
<1>3. e = start + n
  OBVIOUS
<1>. HIDE DEF w, first, s, e, lead, left, room, mask, M
<1>8. k * w = w * k /\ w * k \in Nat /\ w * first \in Nat
  BY <1>0, <1>2
<1>4. M \subseteq 0 .. w - 1
  BY <1>1
<1>5. CASE k < first
  <2>1. w * (k + 1) <= w * first
    BY <1>0, <1>2, <1>5
  <2>2. w * (k + 1) = w * k + w
    BY <1>0
  <2>3. w * k + b < start
    BY <1>0, <1>2, <1>3, <1>8, <2>1, <2>2
  <2>4. M = {}
    BY <1>1, <1>5
  <2>5. b \in M <=> w * k + b \in start .. start + n - 1
    BY <1>0, <1>3, <1>8, <2>3, <2>4
  <2>. QED
    BY <1>0, <1>4, <2>5 DEF w, M
<1>6. CASE k = first
  <2>1. /\ left = n /\ room = w - s /\ lead = {c \in 0 .. w - 1 : c >= s}
        /\ w * k = w * first
    BY <1>1, <1>6
  <2>2. b \in M <=> start <= w * k + b /\ w * k + b < e
    <3>1. CASE n = 0
      BY <1>0, <1>1, <1>2, <1>3, <1>8, <2>1, <3>1
    <3>2. CASE n > 0 /\ n >= w - s
      <4>1. b \in M <=> b >= s
        BY <1>0, <1>1, <1>2, <1>6, <2>1, <3>2
      <4>2. w * k + b < e
        BY <1>0, <1>2, <1>3, <1>8, <2>1, <3>2
      <4>. QED
        BY <1>0, <1>2, <1>3, <1>8, <2>1, <4>1, <4>2
    <3>3. CASE n > 0 /\ n < w - s
      <4>. DEFINE r == s + n
      <4>1. r \in 0 .. w - 1 /\ r # 0 /\ e = w * first + r /\ first \in Int /\ e \in Int
        BY <1>0, <1>2, <1>3, <1>8, <3>3
      <4>. HIDE DEF r
      <4>2. e % w = r
        BY <1>0, <4>1, DivModIs
      <4>3. b \in M <=> b >= s /\ b < r
        BY <1>0, <1>1, <1>2, <1>6, <2>1, <3>3, <4>1, <4>2
      <4>. QED
        BY <1>0, <1>2, <1>3, <1>8, <2>1, <4>1, <4>3
    <3>. QED
      BY <1>0, <1>2, <3>1, <3>2, <3>3
  <2>3. b \in M <=> w * k + b \in start .. start + n - 1
    BY <1>0, <1>3, <1>8, <2>2
  <2>. QED
    BY <1>0, <1>4, <2>3 DEF w, M
<1>7. CASE k > first
  <2>1. w * (first + 1) <= w * k
    BY <1>0, <1>2, <1>7
  <2>2. w * (first + 1) = w * first + w
    BY <1>0, <1>2
  <2>3. start <= w * k + b
    BY <1>0, <1>2, <1>3, <1>8, <2>1, <2>2
  <2>0. k # first /\ ~ (k < first)
    BY <1>2, <1>7
  <2>4. left = e - w * k /\ room = w /\ lead = 0 .. w - 1
    BY <1>1, <1>8, <2>0
  <2>5. b \in M <=> w * k + b < e
    <3>1. CASE e - w * k <= 0
      BY <1>0, <1>1, <1>3, <1>8, <2>4, <3>1
    <3>2. CASE e - w * k >= w
      BY <1>0, <1>1, <1>2, <1>3, <1>8, <1>7, <2>4, <3>2
    <3>3. CASE e - w * k > 0 /\ e - w * k < w
      <4>. DEFINE r == e - w * k
      <4>1. r \in 0 .. w - 1 /\ r # 0 /\ e = w * k + r /\ k \in Int /\ e \in Int
        BY <1>0, <1>3, <1>8, <3>3
      <4>. HIDE DEF r
      <4>2. e % w = r
        BY <1>0, <4>1, DivModIs
      <4>3. b \in M <=> b < r
        <5>1. left = r /\ ~ (left <= 0) /\ ~ (left >= room)
          BY <1>0, <1>3, <1>8, <2>4, <4>1
        <5>2. M = lead \cap mask
          BY <1>1, <2>0, <5>1, Zenon
        <5>3. mask = 0 .. r - 1
          BY <1>1, <4>1, <4>2
        <5>. QED
          BY <1>0, <2>4, <4>1, <5>2, <5>3
      <4>. QED
        BY <1>0, <1>3, <1>8, <4>1, <4>3
    <3>. QED
      BY <1>0, <1>3, <1>8, <3>1, <3>2, <3>3
  <2>6. b \in M <=> w * k + b \in start .. start + n - 1
    BY <1>0, <1>3, <1>8, <2>3, <2>5
  <2>. QED
    BY <1>0, <1>4, <2>6 DEF w, M
<1>. QED
  BY <1>2, <1>5, <1>6, <1>7

\* A call stores the union with a range, or the difference.
LEMMA RangeStored ==
  ASSUME BmapInv, NEW k, k \in Bmap!Calls, k.op \in {"set", "clear"},
         Bmap!bitmap_set(k) \/ Bmap!bitmap_clear(k)
  PROVE  BmapInv' /\ Bmap!Abstract!RangeEffect(k)
<1>. DEFINE w == BmapCase.W
            dst == k.dst
            size_ == BmapCase.W * BmapCase.N[dst]
            range == k.start .. k.start + k.len - 1
            new == [i_ \in Bmap!Index(dst) |->
                      IF k.op = "set" THEN map[dst][i_] \cup Bmap!RangeMask(i_, k.start, k.len)
                                      ELSE map[dst][i_] \ Bmap!RangeMask(i_, k.start, k.len)]
<1>0. /\ dst \in BmapCase.Map /\ k.start \in Nat /\ k.len \in Nat
      /\ w \in Nat \ {0} /\ BmapCase.N[dst] \in Nat /\ size_ \in Nat
      /\ k.start + k.len <= size_
  <2>1. dst \in BmapCase.Map /\ k.start \in Bmap!Abstract!Sizes /\ k.len \in Bmap!Abstract!Sizes
        /\ k.start + k.len <= size_
    BY DEF Bmap!Calls, Bmap!Abstract!Calls, Bmap!Abstract!Compute, Bmap!Abstract!Ask
  <2>2. Bmap!Abstract!Sizes \subseteq Nat
    BY BmapConstants DEF Bmap!Abstract!Sizes
  <2>3. w \in Nat \ {0} /\ BmapCase.N[dst] \in Nat
    BY <2>1, BmapConstants
  <2>4. size_ \in Nat
    BY <2>3
  <2>. HIDE DEF size_
  <2>. QED
    BY <2>1, <2>2, <2>3, <2>4
<1>1. map' = [map EXCEPT ![dst] = new] /\ bret' = 0
  BY <1>0 DEF Bmap!bitmap_set, Bmap!bitmap_clear, Bmap!Store
<1>2. map'[dst] = new /\ \A m \in BmapCase.Map \ {dst} : map'[m] = map[m]
  BY <1>0, <1>1 DEF BmapInv
<1>3. \A i_ \in Bmap!Index(dst) : i_ \in Nat
  BY <1>0 DEF Bmap!Index
<1>4. BmapInv'
  <2>1. new \in [Bmap!Index(dst) -> SUBSET Bmap!BitIndex]
    <3>1. \A i_ \in Bmap!Index(dst) : map[dst][i_] \subseteq Bmap!BitIndex
      BY <1>0 DEF BmapInv
    <3>2. 0 \in Bmap!BitIndex
      BY <1>0, BitIndexIs
    <3>3. \A i_ \in Bmap!Index(dst) : Bmap!RangeMask(i_, k.start, k.len) \subseteq Bmap!BitIndex
      BY <1>0, <1>3, <3>2, RangeMaskIs
    <3>. QED
      BY <3>1, <3>3
  <2>. HIDE DEF new
  <2>2. map' = [m \in BmapCase.Map |-> map'[m]]
    BY <1>1 DEF BmapInv
  <2>3. \A m \in BmapCase.Map : map'[m] \in [Bmap!Index(m) -> SUBSET Bmap!BitIndex]
    BY <1>2, <2>1 DEF BmapInv
  <2>4. \A m : Bmap!Index(m)' = Bmap!Index(m)
    BY DEF Bmap!Index
  <2>. QED
    BY <2>2, <2>3, <2>4 DEF BmapInv
<1>5. ASSUME NEW x \in 0 .. size_ - 1
      PROVE  x % w \in new[x \div w] <=> IF k.op = "set" THEN x % w \in map[dst][x \div w] \/ x \in range
                                                     ELSE x % w \in map[dst][x \div w] /\ x \notin range
  <2>. DEFINE j == x \div w
              b == x % w
  <2>1. x \in Nat /\ x < w * BmapCase.N[dst]
    BY <1>0
  <2>2. j \in Nat /\ b \in 0 .. w - 1 /\ x = w * j + b /\ j < BmapCase.N[dst]
    <3>. HIDE DEF w
    <3>. QED
      BY <1>0, <2>1, WordBefore, NatDivMod, Zenon
  <2>. HIDE DEF j, b, size_, range, new
  <2>3. j \in Bmap!Index(dst) /\ b \in Bmap!BitIndex
    BY <1>0, <2>2, BitIndexIs DEF Bmap!Index
  <2>4. b \in Bmap!RangeMask(j, k.start, k.len) <=> x \in range
    BY <1>0, <2>2, <2>3, RangeMaskIs DEF range
  <2>5. b \in new[j] <=> IF k.op = "set" THEN b \in map[dst][j] \/ x \in range
                                         ELSE b \in map[dst][j] /\ x \notin range
    BY <2>3, <2>4 DEF new
  <2>. QED
    BY <2>5 DEF j, b
<1>6. Bmap!Set'[dst] = IF k.op = "set" THEN Bmap!Set[dst] \cup range ELSE Bmap!Set[dst] \ range
  <2>1. Bmap!Set'[dst] = Positions(new, size_) /\ Bmap!Set[dst] = Positions(map[dst], size_)
    BY <1>0, <1>2, SetIs, SetPrimeIs
  <2>2. range \subseteq 0 .. size_ - 1
    BY <1>0
  <2>. HIDE DEF new, range, size_
  <2>. QED
    BY <1>5, <2>1, <2>2 DEF Positions
<1>7. \A m \in BmapCase.Map \ {dst} : Bmap!Set'[m] = Bmap!Set[m]
  BY <1>2, SetIs, SetPrimeIs
<1>8. Bmap!Set' = [Bmap!Set EXCEPT ![dst] = IF k.op = "set" THEN @ \cup range ELSE @ \ range]
  <2>1. Bmap!Set = [m \in BmapCase.Map |-> Bmap!Set[m]] /\ DOMAIN Bmap!Set = BmapCase.Map
    BY DEF Bmap!Set
  <2>2. Bmap!Set' = [m \in BmapCase.Map |-> Bmap!Set'[m]] /\ DOMAIN Bmap!Set' = BmapCase.Map
    BY DEF Bmap!Set
  <2>. HIDE DEF range
  <2>. QED
    BY <1>0, <1>6, <1>7, <2>1, <2>2
<1>. QED
  BY <1>1, <1>4, <1>8 DEF Bmap!Abstract!RangeEffect

\* The arguments of a call that takes a size.
LEMMA SizedCall ==
  ASSUME NEW k, k \in Bmap!Calls, k.op \notin {"set", "clear"}
  PROVE  /\ k.dst \in BmapCase.Map /\ k.a \in BmapCase.Map
         /\ k.b \in BmapCase.Map /\ k.c \in BmapCase.Map
         /\ k.bits \in Nat
         /\ k.bits <= BmapCase.W * BmapCase.N[k.dst] /\ k.bits <= BmapCase.W * BmapCase.N[k.a]
         /\ k.bits <= BmapCase.W * BmapCase.N[k.b] /\ k.bits <= BmapCase.W * BmapCase.N[k.c]
         /\ k.op \in Bmap!Abstract!Compute \cup Bmap!Abstract!Ask
<1>1. Bmap!Abstract!Sizes \subseteq Nat
  BY BmapConstants DEF Bmap!Abstract!Sizes
<1>. QED
  BY <1>1 DEF Bmap!Calls, Bmap!Abstract!Calls

\* The sets that a call of this kind is about.
ArgOf(m, n) == Positions(map[m], n)

LEMMA ArgumentsAre ==
  ASSUME BmapInv, NEW k, k \in Bmap!Calls, k.op \notin {"set", "clear"}
  PROVE  /\ Holds(map[k.a], k.bits) /\ Holds(map[k.b], k.bits) /\ Holds(map[k.c], k.bits)
         /\ Bmap!Set[k.a] \cap Bmap!Abstract!Low(k.bits) = ArgOf(k.a, k.bits)
         /\ Bmap!Set[k.b] \cap Bmap!Abstract!Low(k.bits) = ArgOf(k.b, k.bits)
         /\ Bmap!Set[k.c] \cap Bmap!Abstract!Low(k.bits) = ArgOf(k.c, k.bits)
  BY SizedCall, BitmapHolds DEF ArgOf, Bmap!Abstract!Low

\* A call that only asks.
LEMMA Asked ==
  ASSUME BmapInv, NEW k, k \in Bmap!Calls, k.op \in Bmap!Abstract!Ask, UNCHANGED map,
         bret' = Bmap!Abstract!Result(k.op, ArgOf(k.a, k.bits), ArgOf(k.b, k.bits),
                                      ArgOf(k.c, k.bits), {})
  PROVE  BmapInv' /\ Bmap!Abstract!Effect(k)
<1>1. k.op \notin {"set", "clear"}
  BY DEF Bmap!Abstract!Ask
<1>2. BmapInv'
  BY DEF BmapInv, Bmap!Index, Bmap!BitIndex
<1>3. Bmap!Set' = Bmap!Set
  BY DEF Bmap!Set
<1>. QED
  BY <1>1, <1>2, <1>3, ArgumentsAre DEF Bmap!Abstract!Effect

LEMMA AskStep ==
  ASSUME BmapInv, NEW k, k \in Bmap!Calls,
         \/ Bmap!bitmap_equal(k) \/ Bmap!bitmap_or_equal(k) \/ Bmap!bitmap_intersects(k)
         \/ Bmap!bitmap_subset(k) \/ Bmap!bitmap_weight(k) \/ Bmap!bitmap_weight_and(k)
         \/ Bmap!bitmap_weight_andnot(k)
  PROVE  BmapInv' /\ k.op \notin {"set", "clear"} /\ Bmap!Abstract!Effect(k)
<1>. DEFINE n == k.bits
            s == map[k.a]
            t == map[k.b]
            u == map[k.c]
            x == ArgOf(k.a, k.bits)
            y == ArgOf(k.b, k.bits)
            z == ArgOf(k.c, k.bits)
<1>1. k.op \in Bmap!Abstract!Ask /\ UNCHANGED map /\ k.op \notin {"set", "clear"}
  BY DEF Bmap!bitmap_equal, Bmap!bitmap_or_equal, Bmap!bitmap_intersects, Bmap!bitmap_subset,
         Bmap!bitmap_weight, Bmap!bitmap_weight_and, Bmap!bitmap_weight_andnot, Bmap!Ask,
         Bmap!Abstract!Ask
<1>2. n \in Nat /\ Holds(s, n) /\ Holds(t, n) /\ Holds(u, n)
  BY <1>1, SizedCall, ArgumentsAre
<1>3. x = Positions(s, n) /\ y = Positions(t, n) /\ z = Positions(u, n)
  BY DEF ArgOf
<1>. HIDE DEF n, s, t, u, x, y, z
<1>4. bret' = Bmap!Abstract!Result(k.op, x, y, z, {})
  <2>1. CASE Bmap!bitmap_equal(k)
    <3>1. k.op = "equal" /\ bret' = Bmap!Zero(Bmap!Masked(Bmap!Combine(Bmap!WXor, s, t), n))
      BY <2>1 DEF Bmap!bitmap_equal, Bmap!Ask, s, t, n
    <3>2. Bmap!Zero(Bmap!Masked(Bmap!Combine(Bmap!WXor, s, t), n)) <=> (x \ y) \cup (y \ x) = {}
      BY <1>2, <1>3, CombineIs, ZeroIs
    <3>3. (x \ y) \cup (y \ x) = {} <=> x = y
      OBVIOUS
    <3>4. Bmap!Abstract!Result("equal", x, y, z, {}) = (x = y)
      BY DEF Bmap!Abstract!Result
    <3>. QED
      BY <3>1, <3>2, <3>3, <3>4 DEF Bmap!Zero
  <2>2. CASE Bmap!bitmap_or_equal(k)
    <3>. DEFINE o == Bmap!Combine(Bmap!WOr, s, t)
    <3>1. k.op = "or_equal" /\ bret' = Bmap!Zero(Bmap!Masked(Bmap!Combine(Bmap!WXor, o, u), n))
      BY <2>2 DEF Bmap!bitmap_or_equal, Bmap!Ask, s, t, u, n
    <3>0. Holds(o, n) /\ Positions(o, n) = x \cup y
      BY <1>2, <1>3, CombineIs
    <3>. HIDE DEF o
    <3>2. Bmap!Zero(Bmap!Masked(Bmap!Combine(Bmap!WXor, o, u), n))
            <=> ((x \cup y) \ z) \cup (z \ (x \cup y)) = {}
      BY <1>2, <1>3, <3>0, CombineIs, ZeroIs
    <3>3. ((x \cup y) \ z) \cup (z \ (x \cup y)) = {} <=> x \cup y = z
      OBVIOUS
    <3>4. Bmap!Abstract!Result("or_equal", x, y, z, {}) = (x \cup y = z)
      BY DEF Bmap!Abstract!Result
    <3>. QED
      BY <3>1, <3>2, <3>3, <3>4 DEF Bmap!Zero
  <2>3. CASE Bmap!bitmap_intersects(k)
    <3>1. k.op = "intersects" /\ bret' = ~ Bmap!Zero(Bmap!Masked(Bmap!Combine(Bmap!WAnd, s, t), n))
      BY <2>3 DEF Bmap!bitmap_intersects, Bmap!Ask, s, t, n
    <3>2. Bmap!Zero(Bmap!Masked(Bmap!Combine(Bmap!WAnd, s, t), n)) <=> x \cap y = {}
      BY <1>2, <1>3, CombineIs, ZeroIs
    <3>4. Bmap!Abstract!Result("intersects", x, y, z, {}) = (x \cap y # {})
      BY DEF Bmap!Abstract!Result
    <3>. QED
      BY <3>1, <3>2, <3>4
  <2>4. CASE Bmap!bitmap_subset(k)
    <3>1. k.op = "subset" /\ bret' = Bmap!Zero(Bmap!Masked(Bmap!Combine(Bmap!WAndNot, s, t), n))
      BY <2>4 DEF Bmap!bitmap_subset, Bmap!Ask, s, t, n
    <3>2. Bmap!Zero(Bmap!Masked(Bmap!Combine(Bmap!WAndNot, s, t), n)) <=> x \ y = {}
      BY <1>2, <1>3, CombineIs, ZeroIs
    <3>3. x \ y = {} <=> x \subseteq y
      OBVIOUS
    <3>4. Bmap!Abstract!Result("subset", x, y, z, {}) = (x \subseteq y)
      BY DEF Bmap!Abstract!Result
    <3>. QED
      BY <3>1, <3>2, <3>3, <3>4 DEF Bmap!Zero
  <2>5. CASE Bmap!bitmap_weight(k)
    <3>1. k.op = "weight" /\ bret' = Bmap!hweight(Bmap!Masked(s, n))
      BY <2>5 DEF Bmap!bitmap_weight, Bmap!Ask, s, n
    <3>2. Bmap!hweight(Bmap!Masked(s, n)) = Cardinality(x)
      BY <1>2, <1>3, WeightIs
    <3>3. Bmap!Abstract!Result("weight", x, y, z, {}) = Bmap!Abstract!Cardinality(x)
      BY DEF Bmap!Abstract!Result
    <3>. QED
      BY <3>1, <3>2, <3>3, BmapCounts
  <2>6. CASE Bmap!bitmap_weight_and(k)
    <3>1. k.op = "weight_and" /\ bret' = Bmap!hweight(Bmap!Masked(Bmap!Combine(Bmap!WAnd, s, t), n))
      BY <2>6 DEF Bmap!bitmap_weight_and, Bmap!Ask, s, t, n
    <3>. DEFINE v == Bmap!Combine(Bmap!WAnd, s, t)
    <3>0. Holds(v, n) /\ Positions(v, n) = x \cap y
      BY <1>2, <1>3, CombineIs
    <3>. HIDE DEF v
    <3>2. Bmap!hweight(Bmap!Masked(v, n)) = Cardinality(x \cap y)
      BY <1>2, <3>0, WeightIs
    <3>3. Bmap!Abstract!Result("weight_and", x, y, z, {}) = Bmap!Abstract!Cardinality(x \cap y)
      BY DEF Bmap!Abstract!Result
    <3>. QED
      BY <3>1, <3>2, <3>3, BmapCounts DEF v
  <2>7. CASE Bmap!bitmap_weight_andnot(k)
    <3>1. /\ k.op = "weight_andnot"
          /\ bret' = Bmap!hweight(Bmap!Masked(Bmap!Combine(Bmap!WAndNot, s, t), n))
      BY <2>7 DEF Bmap!bitmap_weight_andnot, Bmap!Ask, s, t, n
    <3>. DEFINE v == Bmap!Combine(Bmap!WAndNot, s, t)
    <3>0. Holds(v, n) /\ Positions(v, n) = x \ y
      BY <1>2, <1>3, CombineIs
    <3>. HIDE DEF v
    <3>2. Bmap!hweight(Bmap!Masked(v, n)) = Cardinality(x \ y)
      BY <1>2, <3>0, WeightIs
    <3>3. Bmap!Abstract!Result("weight_andnot", x, y, z, {}) = Bmap!Abstract!Cardinality(x \ y)
      BY DEF Bmap!Abstract!Result
    <3>. QED
      BY <3>1, <3>2, <3>3, BmapCounts DEF v
  <2>. QED
    BY <2>1, <2>2, <2>3, <2>4, <2>5, <2>6, <2>7
<1>. QED
  BY <1>1, <1>4, Asked DEF x, y, z

\* A call that stores: the words have the positions that the operation makes.
LEMMA Stored ==
  ASSUME BmapInv, NEW k, k \in Bmap!Calls, k.op \in Bmap!Abstract!Compute,
         NEW words, NEW v,
         v = Bmap!Abstract!Computed(k.op, ArgOf(k.a, k.bits), ArgOf(k.b, k.bits),
                                    ArgOf(k.c, k.bits), Bmap!Abstract!Low(k.bits)),
         DOMAIN words = 0 .. Bmap!BITS_TO_LONGS(k.bits) - 1,
         \A j \in DOMAIN words : words[j] \subseteq Bmap!BitIndex,
         Positions(words, k.bits) = v,
         Bmap!Store(k.dst, words),
         bret' = Bmap!Abstract!Result(k.op, ArgOf(k.a, k.bits), ArgOf(k.b, k.bits),
                                      ArgOf(k.c, k.bits), v)
  PROVE  BmapInv' /\ k.op \notin {"set", "clear"} /\ Bmap!Abstract!Effect(k)
<1>1. k.op \notin {"set", "clear"} /\ k.op \notin Bmap!Abstract!Ask
  BY DEF Bmap!Abstract!Compute, Bmap!Abstract!Ask
<1>2. k.dst \in BmapCase.Map /\ k.bits \in Nat /\ k.bits <= BmapCase.W * BmapCase.N[k.dst]
  BY <1>1, SizedCall
<1>3. /\ BmapInv'
      /\ Bmap!Set'[k.dst] \cap (0 .. k.bits - 1) = v
      /\ Bmap!Set'[k.dst] \ Bmap!Abstract!WholeWords(k.bits)
           = Bmap!Set[k.dst] \ Bmap!Abstract!WholeWords(k.bits)
      /\ \A m \in BmapCase.Map \ {k.dst} : Bmap!Set'[m] = Bmap!Set[m]
  BY <1>2, StoreIs
<1>4. Bmap!Abstract!Low(k.bits) = 0 .. k.bits - 1
  BY DEF Bmap!Abstract!Low
<1>5. /\ Bmap!Set[k.a] \cap Bmap!Abstract!Low(k.bits) = ArgOf(k.a, k.bits)
      /\ Bmap!Set[k.b] \cap Bmap!Abstract!Low(k.bits) = ArgOf(k.b, k.bits)
      /\ Bmap!Set[k.c] \cap Bmap!Abstract!Low(k.bits) = ArgOf(k.c, k.bits)
  BY <1>1, ArgumentsAre
<1>. QED
  BY <1>1, <1>3, <1>4, <1>5, Zenon DEF Bmap!Abstract!Effect

\* The words of a complement.
LEMMA ComplementIs ==
  ASSUME BmapInv, NEW m \in BmapCase.Map, NEW n \in Nat, n <= BmapCase.W * BmapCase.N[m],
         NEW words, words = [j \in Bmap!Index(m) |-> Bmap!BitIndex \ map[m][j]]
  PROVE  Holds(words, n) /\ Positions(words, n) = (0 .. n - 1) \ Positions(map[m], n)
<1>1. Holds(map[m], n)
  BY BitmapHolds
<1>2. DOMAIN map[m] = Bmap!Index(m)
  BY DEF BmapInv
<1>3. \A j \in 0 .. Bmap!BITS_TO_LONGS(n) - 1 : j \in Bmap!Index(m)
  BY <1>1, <1>2 DEF Holds
<1>4. Holds(words, n)
  BY <1>3 DEF Holds
<1>5. \A x \in 0 .. n - 1 : x \div BmapCase.W \in Bmap!Index(m) /\ x % BmapCase.W \in Bmap!BitIndex
  BY <1>3, PositionSplits
<1>6. \A x \in 0 .. n - 1 :
        x % BmapCase.W \in words[x \div BmapCase.W] <=> x % BmapCase.W \notin map[m][x \div BmapCase.W]
  BY <1>5
<1>7. Positions(words, n) = (0 .. n - 1) \ Positions(map[m], n)
  BY <1>6 DEF Positions
<1>. QED
  BY <1>4, <1>7

\* Words stored through the mask, with the result that says whether any bit is left.
LEMMA MaskedStored ==
  ASSUME BmapInv, NEW k, k \in Bmap!Calls, k.op \in {"and", "andnot"},
         NEW words, Bmap!StoreMasked(k, words), Holds(words, k.bits),
         Positions(words, k.bits) =
           Bmap!Abstract!Computed(k.op, ArgOf(k.a, k.bits), ArgOf(k.b, k.bits),
                                  ArgOf(k.c, k.bits), Bmap!Abstract!Low(k.bits))
  PROVE  BmapInv' /\ k.op \notin {"set", "clear"} /\ Bmap!Abstract!Effect(k)
<1>. DEFINE n == k.bits
            v == Positions(words, n)
            M == Bmap!Masked(words, n)
<1>1. k.op \in Bmap!Abstract!Compute /\ k.op \notin {"set", "clear"}
  BY DEF Bmap!Abstract!Compute
<1>2. n \in Nat
  BY <1>1, SizedCall
<1>3. /\ DOMAIN M = 0 .. Bmap!BITS_TO_LONGS(n) - 1 /\ Positions(M, n) = v
      /\ \A j \in DOMAIN M : M[j] \subseteq Bmap!BitIndex
  BY <1>2, MaskedIs
<1>4. Bmap!Zero(M) <=> v = {}
  BY <1>2, ZeroIs
<1>5. Bmap!Store(k.dst, M) /\ bret' = ~ Bmap!Zero(M)
  BY DEF Bmap!StoreMasked
<1>6. \A x, y, z : Bmap!Abstract!Result(k.op, x, y, z, v) = (v # {})
  BY DEF Bmap!Abstract!Result
<1>. HIDE DEF M, v
<1>7. bret' = (v # {})
  BY <1>4, <1>5
<1>. QED
  BY <1>1, <1>3, <1>5, <1>6, <1>7, Stored DEF v

\* Words stored whole.
LEMMA WholeStored ==
  ASSUME BmapInv, NEW k, k \in Bmap!Calls, k.op \in Bmap!Abstract!Compute \ {"and", "andnot"},
         NEW words, Bmap!Store(k.dst, Bmap!Whole(words, k.bits)), Holds(words, k.bits),
         Positions(words, k.bits) =
           Bmap!Abstract!Computed(k.op, ArgOf(k.a, k.bits), ArgOf(k.b, k.bits),
                                  ArgOf(k.c, k.bits), Bmap!Abstract!Low(k.bits)),
         bret' = IF k.op \in {"weighted_or", "weighted_xor"}
                 THEN Bmap!hweight(Bmap!Masked(words, k.bits)) ELSE 0
  PROVE  BmapInv' /\ k.op \notin {"set", "clear"} /\ Bmap!Abstract!Effect(k)
<1>. DEFINE n == k.bits
            v == Positions(words, n)
            M == Bmap!Whole(words, n)
<1>1. k.op \in Bmap!Abstract!Compute /\ k.op \notin {"set", "clear"}
  BY DEF Bmap!Abstract!Compute
<1>2. n \in Nat
  BY <1>1, SizedCall
<1>3. /\ DOMAIN M = 0 .. Bmap!BITS_TO_LONGS(n) - 1 /\ Positions(M, n) = v
      /\ \A j \in DOMAIN M : M[j] \subseteq Bmap!BitIndex
  BY <1>2, WholeIs
<1>4. Bmap!hweight(Bmap!Masked(words, n)) = Bmap!Abstract!Cardinality(v)
  BY <1>2, WeightIs, BmapCounts
<1>6. \A x, y, z : Bmap!Abstract!Result(k.op, x, y, z, v) =
                     IF k.op \in {"weighted_or", "weighted_xor"} THEN Bmap!Abstract!Cardinality(v) ELSE 0
  BY DEF Bmap!Abstract!Result, Bmap!Abstract!Compute
<1>5. \A x, y, z : bret' = Bmap!Abstract!Result(k.op, x, y, z, v)
  <2>. HIDE DEF M, v, n
  <2>. QED
    BY <1>4, <1>6, Zenon DEF n
<1>. HIDE DEF M, v
<1>. QED
  BY <1>1, <1>3, <1>5, Stored DEF v, M

LEMMA ComputeStep ==
  ASSUME BmapInv, NEW k, k \in Bmap!Calls,
         \/ Bmap!bitmap_complement(k) \/ Bmap!bitmap_and(k) \/ Bmap!bitmap_andnot(k)
         \/ Bmap!bitmap_or(k) \/ Bmap!bitmap_xor(k) \/ Bmap!bitmap_weighted_or(k)
         \/ Bmap!bitmap_weighted_xor(k) \/ Bmap!bitmap_replace(k)
  PROVE  BmapInv' /\ k.op \notin {"set", "clear"} /\ Bmap!Abstract!Effect(k)
<1>. DEFINE n == k.bits
            s == map[k.a]
            t == map[k.b]
            u == map[k.c]
            x == ArgOf(k.a, k.bits)
            y == ArgOf(k.b, k.bits)
            z == ArgOf(k.c, k.bits)
            low == Bmap!Abstract!Low(k.bits)
<1>1. k.op \notin {"set", "clear"}
  BY DEF Bmap!bitmap_complement, Bmap!bitmap_and, Bmap!bitmap_andnot, Bmap!bitmap_or,
         Bmap!bitmap_xor, Bmap!bitmap_weighted_or, Bmap!bitmap_weighted_xor, Bmap!bitmap_replace
<1>2. n \in Nat /\ Holds(s, n) /\ Holds(t, n) /\ Holds(u, n)
  BY <1>1, SizedCall, ArgumentsAre
<1>3. x = Positions(s, n) /\ y = Positions(t, n) /\ z = Positions(u, n)
  BY DEF ArgOf
<1>. HIDE DEF n, s, t, u, x, y, z, low
<1>4. CASE Bmap!bitmap_complement(k)
  <2>. DEFINE words == [j \in Bmap!Index(k.a) |-> Bmap!BitIndex \ map[k.a][j]]
  <2>1. k.op = "complement" /\ bret' = 0 /\ Bmap!Store(k.dst, Bmap!Whole(words, k.bits))
    BY <1>4 DEF Bmap!bitmap_complement
  <2>2. Holds(words, n) /\ Positions(words, n) = (0 .. n - 1) \ x
    BY <1>1, <1>2, <1>3, SizedCall, ComplementIs DEF n, s
  <2>. HIDE DEF words
  <2>3. Bmap!Abstract!Computed("complement", x, y, z, low) = (0 .. n - 1) \ x
    BY DEF Bmap!Abstract!Computed, Bmap!Abstract!Low, low, n
  <2>. QED
    BY <2>1, <2>2, <2>3, WholeStored DEF Bmap!Abstract!Compute, n, x, y, z, low
<1>5. CASE Bmap!bitmap_and(k)
  <2>. DEFINE words == Bmap!Combine(Bmap!WAnd, s, t)
  <2>1. k.op = "and" /\ Bmap!StoreMasked(k, words)
    BY <1>5 DEF Bmap!bitmap_and, s, t
  <2>2. Holds(words, n) /\ Positions(words, n) = x \cap y
    BY <1>2, <1>3, CombineIs
  <2>. HIDE DEF words
  <2>3. Bmap!Abstract!Computed("and", x, y, z, low) = x \cap y
    BY DEF Bmap!Abstract!Computed
  <2>. QED
    BY <2>1, <2>2, <2>3, MaskedStored DEF n, x, y, z, low
<1>6. CASE Bmap!bitmap_andnot(k)
  <2>. DEFINE words == Bmap!Combine(Bmap!WAndNot, s, t)
  <2>1. k.op = "andnot" /\ Bmap!StoreMasked(k, words)
    BY <1>6 DEF Bmap!bitmap_andnot, s, t
  <2>2. Holds(words, n) /\ Positions(words, n) = x \ y
    BY <1>2, <1>3, CombineIs
  <2>. HIDE DEF words
  <2>3. Bmap!Abstract!Computed("andnot", x, y, z, low) = x \ y
    BY DEF Bmap!Abstract!Computed
  <2>. QED
    BY <2>1, <2>2, <2>3, MaskedStored DEF n, x, y, z, low
<1>7. CASE Bmap!bitmap_or(k) \/ Bmap!bitmap_weighted_or(k)
  <2>. DEFINE words == Bmap!Combine(Bmap!WOr, s, t)
  <2>1. /\ k.op \in {"or", "weighted_or"} /\ Bmap!Store(k.dst, Bmap!Whole(words, k.bits))
        /\ bret' = IF k.op \in {"weighted_or", "weighted_xor"}
                   THEN Bmap!hweight(Bmap!Masked(words, k.bits)) ELSE 0
    BY <1>7 DEF Bmap!bitmap_or, Bmap!bitmap_weighted_or, Bmap!StoreWeighted, s, t
  <2>2. Holds(words, n) /\ Positions(words, n) = x \cup y
    BY <1>2, <1>3, CombineIs
  <2>. HIDE DEF words
  <2>3. \A op \in {"or", "weighted_or"} : Bmap!Abstract!Computed(op, x, y, z, low) = x \cup y
    BY DEF Bmap!Abstract!Computed
  <2>. QED
    BY <2>1, <2>2, <2>3, WholeStored DEF Bmap!Abstract!Compute, n, x, y, z, low
<1>8. CASE Bmap!bitmap_xor(k) \/ Bmap!bitmap_weighted_xor(k)
  <2>. DEFINE words == Bmap!Combine(Bmap!WXor, s, t)
  <2>1. /\ k.op \in {"xor", "weighted_xor"} /\ Bmap!Store(k.dst, Bmap!Whole(words, k.bits))
        /\ bret' = IF k.op \in {"weighted_or", "weighted_xor"}
                   THEN Bmap!hweight(Bmap!Masked(words, k.bits)) ELSE 0
    BY <1>8 DEF Bmap!bitmap_xor, Bmap!bitmap_weighted_xor, Bmap!StoreWeighted, s, t
  <2>2. Holds(words, n) /\ Positions(words, n) = (x \ y) \cup (y \ x)
    BY <1>2, <1>3, CombineIs
  <2>. HIDE DEF words
  <2>3. \A op \in {"xor", "weighted_xor"} :
          Bmap!Abstract!Computed(op, x, y, z, low) = (x \ y) \cup (y \ x)
    BY DEF Bmap!Abstract!Computed, Bmap!Abstract!Xor
  <2>. QED
    BY <2>1, <2>2, <2>3, WholeStored DEF Bmap!Abstract!Compute, n, x, y, z, low
<1>9. CASE Bmap!bitmap_replace(k)
  <2>. DEFINE old == Bmap!Combine(Bmap!WAndNot, s, u)
              fresh == Bmap!Combine(Bmap!WAnd, t, u)
              words == Bmap!Combine(Bmap!WOr, old, fresh)
  <2>1. k.op = "replace" /\ bret' = 0 /\ Bmap!Store(k.dst, Bmap!Whole(words, k.bits))
    BY <1>9 DEF Bmap!bitmap_replace, s, t, u
  <2>2. Holds(old, n) /\ Positions(old, n) = x \ z
    BY <1>2, <1>3, CombineIs
  <2>3. Holds(fresh, n) /\ Positions(fresh, n) = y \cap z
    BY <1>2, <1>3, CombineIs
  <2>. HIDE DEF old, fresh
  <2>4. Holds(words, n) /\ Positions(words, n) = (x \ z) \cup (y \cap z)
    BY <1>2, <2>2, <2>3, CombineIs
  <2>. HIDE DEF words
  <2>5. Bmap!Abstract!Computed("replace", x, y, z, low) = (x \ z) \cup (y \cap z)
    BY DEF Bmap!Abstract!Computed
  <2>. QED
    BY <2>1, <2>4, <2>5, WholeStored DEF Bmap!Abstract!Compute, n, x, y, z, low
<1>. QED
  BY <1>4, <1>5, <1>6, <1>7, <1>8, <1>9

\* Every call of the shim is the abstract call.
LEMMA BmapStep ==
  ASSUME BmapInv, Bmap!Next
  PROVE  BmapInv' /\ Bmap!Abstract!Next
<1>1. CASE Bmap!Return
  <2>1. BmapInv' /\ Bmap!Set' = Bmap!Set
    BY <1>1 DEF Bmap!Return, BmapInv, Bmap!Index, Bmap!BitIndex, Bmap!Set
  <2>. QED
    BY <1>1, <2>1 DEF Bmap!Return, Bmap!NoCall, Bmap!Abstract!Next, Bmap!Abstract!Return
<1>2. ASSUME ~ Bmap!Return  PROVE  BmapInv' /\ Bmap!Abstract!Next
  <2>1. call = Bmap!NoCall
    BY <1>2 DEF Bmap!Next
  <2>. DEFINE Asks(k) ==
                \/ Bmap!bitmap_equal(k) \/ Bmap!bitmap_or_equal(k) \/ Bmap!bitmap_intersects(k)
                \/ Bmap!bitmap_subset(k) \/ Bmap!bitmap_weight(k) \/ Bmap!bitmap_weight_and(k)
                \/ Bmap!bitmap_weight_andnot(k)
              Computes(k) ==
                \/ Bmap!bitmap_complement(k) \/ Bmap!bitmap_and(k) \/ Bmap!bitmap_andnot(k)
                \/ Bmap!bitmap_or(k) \/ Bmap!bitmap_xor(k) \/ Bmap!bitmap_weighted_or(k)
                \/ Bmap!bitmap_weighted_xor(k) \/ Bmap!bitmap_replace(k)
              Ranges(k) == Bmap!bitmap_set(k) \/ Bmap!bitmap_clear(k)
  <2>2. PICK k \in Bmap!Calls : Asks(k) \/ Computes(k) \/ Ranges(k)
    BY <1>2 DEF Bmap!Next
  <2>3. call' = k
    BY <2>2 DEF Bmap!bitmap_equal, Bmap!bitmap_or_equal, Bmap!bitmap_intersects,
         Bmap!bitmap_subset, Bmap!bitmap_weight, Bmap!bitmap_weight_and, Bmap!bitmap_weight_andnot,
         Bmap!Ask, Bmap!Begin, Bmap!bitmap_complement, Bmap!bitmap_and, Bmap!bitmap_andnot,
         Bmap!bitmap_or, Bmap!bitmap_xor, Bmap!bitmap_weighted_or, Bmap!bitmap_weighted_xor,
         Bmap!bitmap_replace, Bmap!StoreMasked, Bmap!StoreWeighted, Bmap!bitmap_set,
         Bmap!bitmap_clear
  <2>4. ASSUME Ranges(k)
        PROVE  BmapInv' /\ k.op \in {"set", "clear"} /\ Bmap!Abstract!RangeEffect(k)
    <3>1. k.op \in {"set", "clear"}
      BY <2>4 DEF Bmap!bitmap_set, Bmap!bitmap_clear
    <3>. QED
      BY <2>4, <3>1, RangeStored
  <2>5. ASSUME Asks(k)
        PROVE  BmapInv' /\ k.op \notin {"set", "clear"} /\ Bmap!Abstract!Effect(k)
    BY <2>5, AskStep
  <2>6. ASSUME Computes(k)
        PROVE  BmapInv' /\ k.op \notin {"set", "clear"} /\ Bmap!Abstract!Effect(k)
    BY <2>6, ComputeStep
  <2>. HIDE DEF Asks, Computes, Ranges
  <2>7. Bmap!Abstract!Perform
    BY <2>1, <2>2, <2>3, <2>4, <2>5, <2>6 DEF Bmap!Abstract!Perform, Bmap!Calls, Bmap!NoCall
  <2>. QED
    BY <2>2, <2>4, <2>5, <2>6, <2>7 DEF Bmap!Abstract!Next
<1>. QED
  BY <1>1, <1>2

LEMMA BmapKept ==
  ASSUME BmapInv, UNCHANGED bitsVars
  PROVE  BmapInv' /\ UNCHANGED <<Bmap!Set, call, bret>>
  BY DEF bitsVars, BmapInv, Bmap!Index, Bmap!BitIndex, Bmap!Set

LEMMA BmapInitially == Bmap!Init => BmapInv /\ Bmap!Abstract!Init
<1>. SUFFICES ASSUME Bmap!Init  PROVE  BmapInv /\ Bmap!Abstract!Init
  OBVIOUS
<1>1. map = [m \in BmapCase.Map |-> [j \in Bmap!Index(m) |-> {}]]
  BY DEF Bmap!Init
<1>2. BmapInv
  BY <1>1 DEF BmapInv
<1>3. ASSUME NEW m \in BmapCase.Map  PROVE  Bmap!Set[m] = {}
  <2>. DEFINE n == BmapCase.W * BmapCase.N[m]
  <2>1. n \in Nat /\ n <= BmapCase.W * BmapCase.N[m]
    BY BmapConstants
  <2>2. Bmap!Set[m] = Positions(map[m], n)
    BY SetIs
  <2>. HIDE DEF n
  <2>3. Holds(map[m], n)
    BY <1>2, <2>1, BitmapHolds
  <2>4. \A x \in 0 .. n - 1 : x \div BmapCase.W \in DOMAIN map[m]
    BY <2>1, <2>3, PositionSplits DEF Holds
  <2>5. \A j \in DOMAIN map[m] : map[m][j] = {}
    BY <1>1
  <2>. QED
    BY <2>2, <2>4, <2>5 DEF Positions
<1>4. Bmap!Set = [m \in BmapCase.Map |-> {}]
  BY <1>3 DEF Bmap!Set
<1>. QED
  BY <1>2, <1>4 DEF Bmap!Init, Bmap!NoCall, Bmap!Abstract!Init

\* bitmap.c, for any number of bitmaps of any sizes, any width of a word and any calls: each
\* function does to the sets of positions what BitSet says, whatever lies past the end.
THEOREM BitmapsAreSets == PartsSpec => ImplementsBitSet
<1>1. PartsInit => BmapInv /\ Bmap!Abstract!Init
  BY BmapInitially DEF PartsInit
<1>2. BmapInv /\ [PartsNext]_allVars
        => BmapInv' /\ [Bmap!Abstract!Next]_<<Bmap!Set, call, bret>>
  <2>1. PartsNext => Bmap!Next \/ UNCHANGED bitsVars
    BY DEF PartsNext
  <2>2. UNCHANGED allVars => UNCHANGED bitsVars
    BY DEF allVars
  <2>. QED
    BY <2>1, <2>2, BmapStep, BmapKept
<1>. QED
  BY <1>1, <1>2, PTL
     DEF PartsSpec, ImplementsBitSet, Bmap!ImplementsBitSet, Bmap!Abstract!Spec
-----------------------------------------------------------------------------
(* seq_buf.c: the text of a block in hex *)

Less == OpToRel(<, Nat)

LEMMA LessIsLess == \A x, y \in Nat : <<x, y>> \in Less <=> x < y
  BY DEF Less, OpToRel

\* Every nonempty set of naturals has a least element.
LEMMA LeastNatural ==
  ASSUME NEW T, T \subseteq Nat, T # {}
  PROVE  \E x \in T : \A y \in T : x <= y
<1>1. IsWellFoundedOn(Less, Nat)
  BY NatLessThanWellFounded DEF Less
<1>2. PICK x \in T : \A y \in T : ~(<<y, x>> \in Less)
  BY <1>1, WFMin
<1>3. ASSUME NEW y \in T  PROVE  x <= y
  <2>1. x \in Nat /\ y \in Nat
    OBVIOUS
  <2>2. ~(y < x)
    BY <2>1, <1>2, LessIsLess
  <2>. QED
    BY <2>1, <2>2
<1>. QED
  BY <1>3

LEMMA BufConstants ==
  /\ \A n \in BufCase.Sizes : n \in Nat
  /\ BufCase.MAX_MEMHEX_BYTES \in Nat \ {0} /\ BufCase.MaxPiece \in Nat
  BY PartsAssumption DEF Buf!SeqBufAssumption

\* Digit o of the bytes up to the last one.
Digit(data, last, o) == <<data[last - (o \div 2)], IF o % 2 = 0 THEN "hi" ELSE "lo">>

Digits == BufCase.Byte \X {"hi", "lo"}
Glyph == BufCase.Byte \cup Digits \cup {" ", "NUL"}

LEMMA Halves ==
  ASSUME NEW o \in Nat
  PROVE  /\ o \div 2 \in Nat /\ o % 2 \in 0 .. 1 /\ o = 2 * (o \div 2) + (o % 2)
         /\ (o + 2) \div 2 = (o \div 2) + 1 /\ (o + 2) % 2 = o % 2
  OBVIOUS

LEMMA FunctionIsSequence ==
  ASSUME NEW S, NEW m \in Nat, NEW f \in [1 .. m -> S]
  PROVE  f \in Seq(S) /\ Len(f) = m
  OBVIOUS

LEMMA ConcatIs ==
  ASSUME NEW S, NEW s \in Seq(S), NEW t \in Seq(S), NEW a, a = Len(s), NEW m, m = Len(s) + Len(t)
  PROVE  /\ s \o t \in Seq(S) /\ Len(s \o t) = m
         /\ \A c \in 1 .. m : (s \o t)[c] = IF c <= a THEN s[c] ELSE t[c - a]
  BY ConcatProperties

LEMMA AppendIs ==
  ASSUME NEW S, NEW s \in Seq(S), NEW x, NEW m \in Nat, m = Len(s)
  PROVE  Append(s, x) = [c \in 1 .. m + 1 |-> IF c = m + 1 THEN x ELSE s[c]]
<1>. DEFINE T == S \cup {x}
            a == Append(s, x)
<1>1. s \in Seq(T) /\ x \in T
  OBVIOUS
<1>. HIDE DEF T
<1>2. a \in Seq(T) /\ Len(a) = m + 1 /\ (\A c \in 1 .. m : a[c] = s[c]) /\ a[m + 1] = x
  BY <1>1, AppendProperties
<1>. HIDE DEF a
<1>3. a = [c \in 1 .. m + 1 |-> a[c]]
  BY <1>2
<1>4. \A c \in 1 .. m + 1 : a[c] = IF c = m + 1 THEN x ELSE s[c]
  BY <1>2
<1>. QED
  BY <1>3, <1>4 DEF a

\* The digits of the first k bytes of a block.
LEMMA DigitIs ==
  ASSUME NEW data \in Seq(BufCase.Byte), NEW k \in 0 .. Len(data), NEW o \in 0 .. 2 * k - 1
  PROVE  Digit(data, k, o) \in Digits
<1>1. o \div 2 \in Nat /\ o \div 2 < k
  BY Halves
<1>2. k - (o \div 2) \in 1 .. Len(data)
  BY <1>1
<1>3. data[k - (o \div 2)] \in BufCase.Byte
  BY <1>2
<1>. QED
  BY <1>3 DEF Digit, Digits

\* The loop of a chunk, unrolled.
LEMMA ChunkIs ==
  ASSUME NEW data \in Seq(BufCase.Byte)
  PROVE  Buf!ChunkText(data) =
           [c \in 1 .. 2 * Len(data) + 1 |->
              IF c = 2 * Len(data) + 1 THEN " " ELSE Digit(data, Len(data), c - 1)]
<1>. DEFINE n == Len(data)
            Body(f) == [k \in 0 .. n |-> IF k = 0 THEN <<>> ELSE Buf!Hex(data[k]) \o f[k - 1]]
            row(k) == [c \in 1 .. 2 * k |-> Digit(data, k, c - 1)]
            g == [k \in 0 .. n |-> row(k)]
            loop == CHOOSE f : f = Body(f)
<1>0. n \in Nat
  OBVIOUS
<1>1. Buf!ChunkText(data) = Append(loop[n], " ")
  BY DEF Buf!ChunkText
<1>2. ASSUME NEW k \in 0 .. n
      PROVE  row(k) \in Seq(Digits) /\ Len(row(k)) = 2 * k
  <2>1. 2 * k \in Nat /\ \A c \in 1 .. 2 * k : c - 1 \in 0 .. 2 * k - 1
    OBVIOUS
  <2>2. row(k) \in [1 .. 2 * k -> Digits]
    BY <2>1, DigitIs
  <2>. HIDE DEF row
  <2>. QED
    BY <2>1, <2>2, FunctionIsSequence
<1>3. ASSUME NEW k \in 1 .. n  PROVE  row(k) = Buf!Hex(data[k]) \o row(k - 1)
  <2>. DEFINE s == row(k - 1)
              h == Buf!Hex(data[k])
  <2>0. k \in 0 .. n /\ k - 1 \in 0 .. n /\ k \in Nat /\ k >= 1
    OBVIOUS
  <2>1. s \in Seq(Digits) /\ Len(s) = 2 * (k - 1)
    BY <1>2, <2>0
  <2>2. h = <<<<data[k], "hi">>, <<data[k], "lo">>>>
    BY DEF Buf!Hex
  <2>3. h \in Seq(Digits) /\ Len(h) = 2
    BY <2>2 DEF Digits
  <2>4. \A c \in 1 .. 2 * k : row(k)[c] = Digit(data, k, c - 1)
    OBVIOUS
  <2>5. \A c \in 1 .. 2 * (k - 1) : s[c] = Digit(data, k - 1, c - 1)
    OBVIOUS
  <2>6. row(k) \in Seq(Digits) /\ Len(row(k)) = 2 * k
    BY <1>2, <2>0
  <2>. HIDE DEF row, s, h
  <2>7. /\ h \o s \in Seq(Digits) /\ Len(h \o s) = 2 * k
        /\ \A c \in 1 .. 2 * k : (h \o s)[c] = IF c <= 2 THEN h[c] ELSE s[c - 2]
    <3>. DEFINE a == 2
                m == 2 * k
    <3>1. a = Len(h) /\ m = Len(h) + Len(s)
      BY <2>0, <2>1, <2>3
    <3>0. h \in Seq(Digits) /\ s \in Seq(Digits)
      BY <2>1, <2>3
    <3>. HIDE DEF a, m
    <3>2. /\ h \o s \in Seq(Digits) /\ Len(h \o s) = m
          /\ \A c \in 1 .. m : (h \o s)[c] = IF c <= a THEN h[c] ELSE s[c - a]
      <4>1. h \o s \in Seq(Digits)
        BY <2>1, <2>3
      <4>2. Len(h \o s) = m
        BY <3>0, <3>1
      <4>3. \A c \in 1 .. m : (h \o s)[c] = IF c <= a THEN h[c] ELSE s[c - a]
        BY <3>0, <3>1
      <4>. QED
        BY <4>1, <4>2, <4>3
    <3>. QED
      BY <3>2 DEF a, m
  <2>8. ASSUME NEW c \in 1 .. 2 * k  PROVE  row(k)[c] = (h \o s)[c]
    <3>1. CASE c = 1
      BY <2>2, <2>4, <2>7, <3>1 DEF Digit
    <3>2. CASE c = 2
      BY <2>2, <2>4, <2>7, <3>2 DEF Digit
    <3>3. CASE c > 2
      <4>a. c - 2 \in 1 .. 2 * (k - 1) /\ ~ (c <= 2)
        BY <2>0, <3>3
      <4>b. (h \o s)[c] = IF c <= 2 THEN h[c] ELSE s[c - 2]
        BY <2>7, Zenon
      <4>1. c - 2 \in 1 .. 2 * (k - 1) /\ (h \o s)[c] = s[c - 2]
        BY <4>a, <4>b, Zenon
      <4>2. s[c - 2] = Digit(data, k - 1, c - 3)
        BY <2>5, <4>1
      <4>3. c - 3 \in Nat /\ (c - 3) + 2 = c - 1
        BY <3>3
      <4>4. (c - 1) \div 2 = ((c - 3) \div 2) + 1 /\ (c - 1) % 2 = (c - 3) % 2 /\ (c - 3) \div 2 \in Nat
        BY <4>3, Halves
      <4>5. k - ((c - 1) \div 2) = (k - 1) - ((c - 3) \div 2)
        BY <4>4
      <4>6. Digit(data, k, c - 1) = Digit(data, k - 1, c - 3)
        BY <4>4, <4>5 DEF Digit
      <4>. QED
        BY <2>4, <4>1, <4>2, <4>6
    <3>. QED
      <4>1. c = 1 \/ c = 2 \/ c > 2
        BY <2>0
      <4>. QED
        BY <3>1, <3>2, <3>3, <4>1, Zenon
  <2>9. row(k) = h \o s
    BY <2>6, <2>7, <2>8, SeqEqual
  <2>. QED
    BY <2>9 DEF h, s
<1>4. row(0) = <<>>
  OBVIOUS
<1>. HIDE DEF row, n
<1>5. g = Body(g)
  <2>1. \A k \in 0 .. n : k # 0 => k \in 1 .. n /\ k - 1 \in 0 .. n
    BY <1>0 DEF n
  <2>2. \A k \in 0 .. n : row(k) = IF k = 0 THEN <<>> ELSE Buf!Hex(data[k]) \o row(k - 1)
    BY <1>3, <1>4, <2>1
  <2>3. \A k \in 0 .. n : k # 0 => g[k - 1] = row(k - 1)
    BY <2>1
  <2>4. \A k \in 0 .. n : row(k) = IF k = 0 THEN <<>> ELSE Buf!Hex(data[k]) \o g[k - 1]
    BY <2>2, <2>3, Zenon
  <2>. QED
    BY <2>4, Zenon
<1>6. loop = Body(loop)
  <2>. HIDE DEF Body, g
  <2>. QED
    BY <1>5, Zenon
<1>7. /\ loop[0] = <<>>
      /\ \A k \in 1 .. n : loop[k] = Buf!Hex(data[k]) \o loop[k - 1]
  <2>. HIDE DEF loop
  <2>1. \A k \in 0 .. n : loop[k] = IF k = 0 THEN <<>> ELSE Buf!Hex(data[k]) \o loop[k - 1]
    BY <1>6, Zenon
  <2>2. 0 \in 0 .. n /\ \A k \in 1 .. n : k \in 0 .. n /\ k # 0
    BY <1>0 DEF n
  <2>. QED
    BY <2>1, <2>2, Zenon
<1>. HIDE DEF loop, Body, g
<1>8. loop[n] = row(n)
  <2>. DEFINE T == {k \in 0 .. n : loop[k] # row(k)}
  <2>. SUFFICES ASSUME T # {}  PROVE  FALSE
    BY <1>0
  <2>1. PICK k \in T : \A y \in T : k <= y
    <3>1. T \subseteq Nat
      BY <1>0
    <3>. HIDE DEF T
    <3>. QED
      BY <3>1, LeastNatural
  <2>2. CASE k = 0
    BY <1>4, <1>7, <2>2
  <2>3. CASE k # 0
    <3>1. k \in 1 .. n /\ k - 1 \in 0 .. n /\ k - 1 \notin T
      BY <1>0, <2>1, <2>3
    <3>2. loop[k - 1] = row(k - 1)
      BY <3>1
    <3>3. loop[k] = row(k)
      BY <1>3, <1>7, <3>1, <3>2, Zenon
    <3>. QED
      BY <3>3
  <2>. QED
    BY <2>2, <2>3
<1>9. /\ row(n) \in Seq(Digits) /\ Len(row(n)) = 2 * n
      /\ \A c \in 1 .. 2 * n : row(n)[c] = Digit(data, n, c - 1)
  BY <1>0, <1>2 DEF row, n
<1>10. Append(row(n), " ") = [c \in 1 .. 2 * n + 1 |-> IF c = 2 * n + 1 THEN " " ELSE Digit(data, n, c - 1)]
  <2>. DEFINE m == 2 * n
              r == row(n)
              x == " "
  <2>1. m \in Nat /\ m = Len(r) /\ r \in Seq(Digits)
    BY <1>0, <1>9
  <2>. HIDE DEF m, r, x
  <2>2. Append(r, x) = [c \in 1 .. m + 1 |-> IF c = m + 1 THEN x ELSE r[c]]
    BY <2>1, AppendIs
  <2>3. \A c \in 1 .. 2 * n + 1 : c # 2 * n + 1 => c \in 1 .. 2 * n
    BY <1>0
  <2>. QED
    BY <1>9, <2>2, <2>3, Zenon DEF m, r, x
<1>. QED
  BY <1>1, <1>8, <1>10 DEF n

MaxHex == BufCase.MAX_MEMHEX_BYTES
Wide == 2 * MaxHex + 1

HexWords(n) == (n + MaxHex - 1) \div MaxHex
HexLen(n) == 2 * n + HexWords(n)
HexFirst(w) == w * MaxHex
HexLast(n, w) == IF HexFirst(w + 1) < n THEN HexFirst(w + 1) ELSE n
HexCell(data, w, o) ==
  IF o = 2 * (HexLast(Len(data), w) - HexFirst(w)) THEN " " ELSE Digit(data, HexLast(Len(data), w), o)

LEMMA WordsInHexIs ==
  ASSUME NEW data
  PROVE  Buf!WordsInHex(data) =
           [p \in 1 .. HexLen(Len(data)) |-> HexCell(data, (p - 1) \div Wide, (p - 1) % Wide)]
  BY DEF Buf!WordsInHex, HexLen, HexWords, HexCell, HexFirst, HexLast, Digit, Wide, MaxHex

LEMMA HexConstants == MaxHex \in Nat \ {0} /\ Wide \in Nat \ {0} /\ Wide = 2 * MaxHex + 1
  BY BufConstants DEF MaxHex, Wide

\* The quotient rounded up.
LEMMA HexWordsIs ==
  ASSUME NEW n \in Nat
  PROVE  /\ HexWords(n) \in Nat
         /\ n <= MaxHex * HexWords(n) /\ MaxHex * HexWords(n) <= n + MaxHex - 1
<1>. DEFINE l == HexWords(n)
            x == n + MaxHex - 1
            s == x % MaxHex
<1>1. MaxHex \in Nat \ {0} /\ x \in Nat /\ l = x \div MaxHex
  BY HexConstants DEF HexWords
<1>. HIDE DEF x, l
<1>2. l \in Nat /\ s \in 0 .. MaxHex - 1 /\ x = MaxHex * l + s
  BY <1>1, NatDivMod, Zenon
<1>. HIDE DEF s
<1>3. MaxHex * l \in Nat
  BY <1>1, <1>2
<1>4. l \in Nat /\ n <= MaxHex * l /\ MaxHex * l <= n + MaxHex - 1
  BY <1>1, <1>2, <1>3 DEF x
<1>. QED
  BY <1>4 DEF l

\* A number larger by the divisor has the next quotient and the same remainder.
LEMMA DivModShift ==
  ASSUME NEW w \in Nat \ {0}, NEW x \in Nat
  PROVE  (x + w) \div w = (x \div w) + 1 /\ (x + w) % w = x % w
<1>. DEFINE q == x \div w
            r == x % w
            y == x + w
            p == q + 1
<1>1. q \in Nat /\ r \in 0 .. w - 1 /\ x = w * q + r
  BY NatDivMod, Zenon
<1>. HIDE DEF q, r
<1>2. w * (q + 1) = w * q + w /\ w * q \in Nat
  BY <1>1
<1>3. y \in Int /\ p \in Int /\ y = w * p + r
  BY <1>1, <1>2
<1>. HIDE DEF y, p
<1>4. y \div w = p /\ y % w = r
  BY <1>1, <1>3, DivModIs
<1>. QED
  BY <1>4 DEF y, p, q, r

\* A number below the divisor is its own remainder.
LEMMA DivModSmall ==
  ASSUME NEW w \in Nat \ {0}, NEW x \in 0 .. w - 1
  PROVE  x \div w = 0 /\ x % w = x
<1>1. x \in Int /\ 0 \in Int /\ x = w * 0 + x
  OBVIOUS
<1>. QED
  BY <1>1, DivModIs

\* Where a cell of the text lies: in a word that has bytes, and not behind its blank.
LEMMA HexPlace ==
  ASSUME NEW n \in Nat, NEW p \in 1 .. HexLen(n)
  PROVE  LET w == (p - 1) \div Wide
             o == (p - 1) % Wide
         IN  /\ w \in Nat /\ o \in Nat /\ p - 1 = Wide * w + o
             /\ HexFirst(w) \in Nat /\ HexFirst(w) < n
             /\ HexLast(n, w) \in HexFirst(w) + 1 .. n
             /\ o <= 2 * (HexLast(n, w) - HexFirst(w))
<1>. DEFINE pp == p - 1
            w == pp \div Wide
            o == pp % Wide
            l == HexWords(n)
            x == MaxHex * w
            y == MaxHex * l
<1>0. MaxHex \in Nat \ {0} /\ Wide \in Nat \ {0} /\ Wide = 2 * MaxHex + 1
  BY HexConstants
<1>1. l \in Nat /\ n <= y /\ y <= n + MaxHex - 1
  BY HexWordsIs
<1>2. pp \in Nat /\ pp < 2 * n + l
  BY <1>1 DEF HexLen
<1>. HIDE DEF pp, l
<1>3. w \in Nat /\ o \in 0 .. Wide - 1 /\ pp = Wide * w + o
  BY <1>0, <1>2, NatDivMod, Zenon
<1>. HIDE DEF w, o
<1>4. x \in Nat /\ y \in Nat /\ HexFirst(w) = x /\ HexFirst(w + 1) = x + MaxHex
  BY <1>0, <1>1, <1>3 DEF HexFirst
<1>5. Wide * w = 2 * x + w
  BY <1>0, <1>3
<1>6. ASSUME w < l  PROVE  x + MaxHex <= y
  <2>1. MaxHex * (w + 1) <= MaxHex * l
    BY <1>0, <1>1, <1>3, <1>6
  <2>2. MaxHex * (w + 1) = x + MaxHex
    BY <1>0, <1>3
  <2>. QED
    BY <2>1, <2>2
<1>7. ASSUME w + 1 < l  PROVE  x + MaxHex + MaxHex <= y
  <2>1. MaxHex * (w + 2) <= MaxHex * l
    BY <1>0, <1>1, <1>3, <1>7
  <2>2. MaxHex * (w + 2) = x + MaxHex + MaxHex
    BY <1>0, <1>3
  <2>. QED
    BY <2>1, <2>2
<1>. HIDE DEF x, y
<1>8. 2 * x + w + o < 2 * n + l
  BY <1>2, <1>3, <1>5
<1>9. x < n
  BY <1>0, <1>1, <1>3, <1>4, <1>6, <1>8
<1>10. CASE x + MaxHex < n
  <2>1. HexLast(n, w) = x + MaxHex
    BY <1>4, <1>10 DEF HexLast
  <2>. QED
    BY <1>0, <1>3, <1>4, <1>9, <1>10, <2>1 DEF pp, w, o
<1>11. CASE ~ (x + MaxHex < n)
  <2>1. HexLast(n, w) = n
    BY <1>4, <1>11 DEF HexLast
  <2>2. l <= w + 1
    BY <1>0, <1>1, <1>3, <1>4, <1>7, <1>11
  <2>3. o <= 2 * (n - x)
    BY <1>1, <1>3, <1>4, <1>8, <2>2
  <2>. QED
    BY <1>0, <1>3, <1>4, <1>9, <2>1, <2>3 DEF pp, w, o
<1>. QED
  BY <1>10, <1>11

\* The first part of a block, and the rest.
LEMMA PartsAre ==
  ASSUME NEW S, NEW data \in Seq(S), NEW c \in 1 .. Len(data)
  PROVE  /\ SubSeq(data, 1, c) \in Seq(S) /\ Len(SubSeq(data, 1, c)) = c
         /\ \A k \in 1 .. c : SubSeq(data, 1, c)[k] = data[k]
         /\ SubSeq(data, c + 1, Len(data)) \in Seq(S)
         /\ Len(SubSeq(data, c + 1, Len(data))) = Len(data) - c
         /\ \A k \in 1 .. Len(data) - c : SubSeq(data, c + 1, Len(data))[k] = data[c + k]
<1>. DEFINE n == Len(data)
            head == SubSeq(data, 1, c)
            rest == SubSeq(data, c + 1, n)
<1>1. n \in Nat /\ c \in Nat
  OBVIOUS
<1>2. /\ head \in Seq(S) /\ Len(head) = c
      /\ \A k \in 1 .. c : head[k] = data[k]
  BY <1>1, SubSeqProperties
<1>3. rest \in Seq(S) /\ Len(rest) = n - c
  BY <1>1, SubSeqProperties
<1>4. \A k \in 1 .. n - c : rest[k] = data[c + k]
  BY <1>1, SubSeqProperties
<1>. QED
  BY <1>2, <1>3, <1>4

\* What one turn of the loop does with the bytes left.
FirstPart(data) == IF Len(data) < MaxHex THEN Len(data) ELSE MaxHex
ChunkOf(data) == Buf!ChunkText(SubSeq(data, 1, FirstPart(data)))
RestOf(data) == SubSeq(data, FirstPart(data) + 1, Len(data))

\* The text of a block is the text of its first chunk, then that of the rest.
LEMMA HexSplits ==
  ASSUME NEW data \in Seq(BufCase.Byte), Len(data) > 0
  PROVE  LET n == Len(data)
             c == FirstPart(data)
             H == ChunkOf(data)
             W == Buf!WordsInHex(data)
             R == Buf!WordsInHex(RestOf(data))
         IN  /\ c \in 1 .. n /\ RestOf(data) \in Seq(BufCase.Byte) /\ Len(RestOf(data)) = n - c
             /\ H \in Seq(Glyph) /\ Len(H) = 2 * c + 1
             /\ HexLen(n) = 2 * c + 1 + HexLen(n - c)
             /\ \A p \in 1 .. 2 * c + 1 : W[p] = H[p]
             /\ \A p \in 1 .. HexLen(n - c) : W[2 * c + 1 + p] = R[p]
<1>. DEFINE n == Len(data)
            c == FirstPart(data)
            m == n - c
            H == ChunkOf(data)
            W == Buf!WordsInHex(data)
            rest == RestOf(data)
            R == Buf!WordsInHex(rest)
            head == SubSeq(data, 1, c)
<1>0. MaxHex \in Nat \ {0} /\ Wide \in Nat \ {0} /\ Wide = 2 * MaxHex + 1
  BY HexConstants
<1>1. /\ n \in Nat /\ n > 0 /\ c \in 1 .. n /\ c \in Nat /\ c <= MaxHex
      /\ (c = n \/ c = MaxHex) /\ m \in Nat /\ m = n - c
  BY <1>0 DEF FirstPart
<1>3. H = Buf!ChunkText(head) /\ W = Buf!WordsInHex(data) /\ R = Buf!WordsInHex(rest) /\ n = Len(data)
  BY DEF RestOf, ChunkOf
<1>d. c \in 1 .. n
  BY <1>1
<1>. HIDE DEF n, c, m, H, W, rest, R, head
<1>2. /\ head \in Seq(BufCase.Byte) /\ Len(head) = c
      /\ \A k \in 1 .. c : head[k] = data[k]
      /\ rest \in Seq(BufCase.Byte) /\ Len(rest) = m
      /\ \A k \in 1 .. m : rest[k] = data[c + k]
  <2>. HIDE DEF MaxHex
  <2>1. /\ head \in Seq(BufCase.Byte) /\ Len(head) = c
        /\ \A k \in 1 .. c : head[k] = data[k]
        /\ rest \in Seq(BufCase.Byte) /\ Len(rest) = n - c
        /\ \A k \in 1 .. n - c : rest[k] = data[c + k]
    <3>. DEFINE S == BufCase.Byte
    <3>1. data \in Seq(S) /\ c \in 1 .. Len(data)
      BY <1>d DEF n
    <3>2. rest = SubSeq(data, c + 1, Len(data))
      BY DEF rest, RestOf, c
    <3>. HIDE DEF S
    <3>3. /\ SubSeq(data, 1, c) \in Seq(S) /\ Len(SubSeq(data, 1, c)) = c
          /\ \A k \in 1 .. c : SubSeq(data, 1, c)[k] = data[k]
          /\ SubSeq(data, c + 1, Len(data)) \in Seq(S)
          /\ Len(SubSeq(data, c + 1, Len(data))) = Len(data) - c
          /\ \A k \in 1 .. Len(data) - c : SubSeq(data, c + 1, Len(data))[k] = data[c + k]
      BY <3>1, PartsAre, Zenon
    <3>. QED
      BY <3>2, <3>3, Zenon DEF n, head, S
  <2>2. m = n - c
    BY <1>1
  <2>. QED
    BY <2>1, <2>2, Zenon
<1>4. H = [p \in 1 .. 2 * c + 1 |-> IF p = 2 * c + 1 THEN " " ELSE Digit(head, c, p - 1)]
  BY <1>2, <1>3, ChunkIs
<1>5. ASSUME NEW p \in 1 .. 2 * c
      PROVE  Digit(head, c, p - 1) \in Digits /\ Digit(head, c, p - 1) = Digit(data, c, p - 1)
  <2>1. c \in 0 .. Len(head) /\ c \in 0 .. Len(data) /\ p - 1 \in 0 .. 2 * c - 1 /\ p - 1 \in Nat
    BY <1>1, <1>2, <1>3
  <2>2. c - ((p - 1) \div 2) \in 1 .. c
    <3>. DEFINE h == (p - 1) \div 2
    <3>1. h \in Nat /\ p - 1 = 2 * h + ((p - 1) % 2) /\ (p - 1) % 2 \in 0 .. 1
      BY <2>1, Halves
    <3>. HIDE DEF h
    <3>2. c - h \in 1 .. c
      BY <1>1, <2>1, <3>1
    <3>. QED
      BY <3>2 DEF h
  <2>3. Digit(head, c, p - 1) \in Digits /\ Digit(data, c, p - 1) \in Digits
    BY <1>2, <2>1, DigitIs
  <2>4. head[c - ((p - 1) \div 2)] = data[c - ((p - 1) \div 2)]
    BY <1>2, <2>2
  <2>5. Digit(head, c, p - 1) = Digit(data, c, p - 1)
    BY <2>4 DEF Digit
  <2>. QED
    BY <2>3, <2>5
<1>6. H \in Seq(Glyph) /\ Len(H) = 2 * c + 1
  <2>1. \A p \in 1 .. 2 * c + 1 : p = 2 * c + 1 \/ p \in 1 .. 2 * c
    BY <1>1
  <2>2. H \in [1 .. 2 * c + 1 -> Glyph]
    BY <1>4, <1>5, <2>1 DEF Glyph
  <2>3. 2 * c + 1 \in Nat
    BY <1>1
  <2>. HIDE DEF Glyph
  <2>. QED
    BY <2>2, <2>3, FunctionIsSequence
<1>7. /\ W = [p \in 1 .. HexLen(n) |-> HexCell(data, (p - 1) \div Wide, (p - 1) % Wide)]
      /\ R = [p \in 1 .. HexLen(m) |-> HexCell(rest, (p - 1) \div Wide, (p - 1) % Wide)]
  BY <1>2, <1>3, WordsInHexIs
<1>8. HexFirst(0) = 0 /\ HexFirst(0 + 1) = MaxHex /\ HexLast(n, 0) = c
  BY <1>0, <1>1 DEF HexFirst, HexLast
<1>9. HexLen(n) = 2 * c + 1 + HexLen(m) /\ HexLen(n) \in Nat /\ HexLen(m) \in Nat
  <2>1. HexWords(n) = 1 + HexWords(m) /\ HexWords(n) \in Nat /\ HexWords(m) \in Nat
    <3>0. HexWords(n) \in Nat /\ HexWords(m) \in Nat
      BY <1>1, HexWordsIs
    <3>1. CASE m = 0
      <4>. DEFINE x == n - 1
      <4>1. MaxHex - 1 \in 0 .. MaxHex - 1 /\ x \in 0 .. MaxHex - 1 /\ x \in Nat
        BY <1>0, <1>1, <3>1
      <4>2. m + MaxHex - 1 = MaxHex - 1 /\ n + MaxHex - 1 = x + MaxHex
        BY <1>0, <1>1, <3>1
      <4>. HIDE DEF x
      <4>3. HexWords(m) = 0
        BY <1>0, <4>1, <4>2, DivModSmall DEF HexWords
      <4>4. x \div MaxHex = 0 /\ (x + MaxHex) \div MaxHex = (x \div MaxHex) + 1
        BY <1>0, <4>1, DivModSmall, DivModShift
      <4>5. HexWords(n) = 1
        BY <4>2, <4>4 DEF HexWords
      <4>. QED
        BY <3>0, <4>3, <4>5
    <3>2. CASE m # 0
      <4>. DEFINE x == m + MaxHex - 1
      <4>1. x \in Nat /\ n + MaxHex - 1 = x + MaxHex
        BY <1>0, <1>1, <3>2
      <4>2. HexWords(m) = x \div MaxHex /\ HexWords(n) = (x + MaxHex) \div MaxHex
        BY <4>1 DEF HexWords
      <4>. HIDE DEF x
      <4>3. (x + MaxHex) \div MaxHex = (x \div MaxHex) + 1
        BY <1>0, <4>1, DivModShift
      <4>. QED
        BY <3>0, <4>2, <4>3
    <3>. QED
      BY <3>1, <3>2
  <2>. QED
    BY <1>1, <2>1 DEF HexLen
<1>10. ASSUME NEW p \in 1 .. 2 * c + 1  PROVE  W[p] = H[p]
  <2>1. p - 1 \in 0 .. Wide - 1 /\ p \in 1 .. HexLen(n) /\ p \in 1 .. 2 * c + 1
    BY <1>0, <1>1, <1>9
  <2>2. (p - 1) \div Wide = 0 /\ (p - 1) % Wide = p - 1
    BY <1>0, <2>1, DivModSmall
  <2>3. W[p] = HexCell(data, 0, p - 1)
    BY <1>7, <2>1, <2>2
  <2>4. W[p] = IF p - 1 = 2 * (c - 0) THEN " " ELSE Digit(data, c, p - 1)
    BY <1>8, <1>3, <2>3 DEF HexCell
  <2>5. H[p] = IF p = 2 * c + 1 THEN " " ELSE Digit(head, c, p - 1)
    BY <1>4, <2>1
  <2>6. CASE p = 2 * c + 1
    <3>1. p - 1 = 2 * (c - 0)
      BY <1>1, <2>6
    <3>. QED
      BY <2>4, <2>5, <2>6, <3>1, Zenon
  <2>7. CASE p # 2 * c + 1
    <3>1. p \in 1 .. 2 * c /\ p - 1 # 2 * (c - 0)
      BY <1>1, <2>7
    <3>2. Digit(head, c, p - 1) = Digit(data, c, p - 1)
      BY <1>5, <3>1
    <3>. QED
      BY <2>4, <2>5, <2>7, <3>1, <3>2
  <2>. QED
    BY <2>6, <2>7
<1>11. ASSUME NEW p \in 1 .. HexLen(m)  PROVE  W[2 * c + 1 + p] = R[p]
  <2>. DEFINE q == 2 * c + 1 + p
              pp == p - 1
              w == pp \div Wide
              o == pp % Wide
              f == HexFirst(w)
              e == HexLast(m, w)
  <2>1. /\ w \in Nat /\ o \in Nat /\ f \in Nat /\ f < m
        /\ e \in f + 1 .. m /\ o <= 2 * (e - f)
    BY <1>1, HexPlace
  <2>. HIDE DEF w, o, f, e
  <2>2. m > 0 /\ c = MaxHex /\ n = m + MaxHex
    BY <1>1, <2>1
  <2>3. q \in 1 .. HexLen(n) /\ pp \in Nat /\ q - 1 = pp + Wide
    BY <1>0, <1>1, <1>9, <2>2
  <2>. HIDE DEF pp, q
  <2>4. (q - 1) \div Wide = w + 1 /\ (q - 1) % Wide = o
    BY <1>0, <2>3, DivModShift DEF w, o
  <2>5. W[q] = HexCell(data, w + 1, o)
    BY <1>7, <2>3, <2>4
  <2>6. R[p] = HexCell(rest, w, o)
    BY <1>7 DEF w, o, pp
  <2>7. HexFirst(w + 1) = f + MaxHex /\ HexFirst(w + 2) = f + MaxHex + MaxHex
    BY <1>0, <2>1 DEF HexFirst, f
  <2>8. HexLast(n, w + 1) = e + MaxHex
    <3>1. (w + 1) + 1 = w + 2
      BY <2>1
    <3>2. e = IF f + MaxHex < m THEN f + MaxHex ELSE m
      BY <2>7 DEF e, HexLast
    <3>3. HexLast(n, w + 1) = IF f + MaxHex + MaxHex < n THEN f + MaxHex + MaxHex ELSE n
      BY <2>7, <3>1 DEF HexLast
    <3>. QED
      BY <1>0, <1>1, <2>1, <2>2, <3>2, <3>3
  <2>9. W[q] = IF o = 2 * ((e + MaxHex) - (f + MaxHex)) THEN " " ELSE Digit(data, e + MaxHex, o)
    BY <1>3, <2>5, <2>7, <2>8 DEF HexCell
  <2>10. R[p] = IF o = 2 * (e - f) THEN " " ELSE Digit(rest, e, o)
    BY <1>2, <2>6 DEF HexCell, e, f
  <2>11. 2 * ((e + MaxHex) - (f + MaxHex)) = 2 * (e - f)
    BY <1>0, <1>1, <2>1
  <2>12. CASE o = 2 * (e - f)
    BY <2>9, <2>10, <2>11, <2>12, Zenon DEF q
  <2>13. CASE o # 2 * (e - f)
    <3>. DEFINE h == o \div 2
    <3>1. h \in Nat /\ o = 2 * h + (o % 2) /\ o % 2 \in 0 .. 1
      BY <2>1, Halves
    <3>. HIDE DEF h
    <3>2. e - h \in 1 .. m /\ c + (e - h) = (e + MaxHex) - h
      BY <1>0, <1>1, <2>1, <2>2, <2>13, <3>1
    <3>3. rest[e - h] = data[(e + MaxHex) - h]
      BY <1>2, <3>2
    <3>4. Digit(rest, e, o) = Digit(data, e + MaxHex, o)
      BY <3>3 DEF Digit, h
    <3>. QED
      BY <2>9, <2>10, <2>11, <2>13, <3>4, Zenon DEF q
  <2>. QED
    BY <2>12, <2>13
<1>. QED
  BY <1>1, <1>2, <1>6, <1>9, <1>10, <1>11 DEF n, c, m, H, W, rest, R

\* The text of a block is text.
LEMMA HexIsText ==
  ASSUME NEW data \in Seq(BufCase.Byte)
  PROVE  /\ Buf!WordsInHex(data) \in Seq(Glyph) /\ Len(Buf!WordsInHex(data)) = HexLen(Len(data))
         /\ HexLen(Len(data)) \in Nat
<1>. DEFINE n == Len(data)
            W == Buf!WordsInHex(data)
<1>1. n \in Nat
  OBVIOUS
<1>2. HexLen(n) \in Nat
  BY <1>1, HexWordsIs DEF HexLen
<1>3. ASSUME NEW p \in 1 .. HexLen(n)
      PROVE  HexCell(data, (p - 1) \div Wide, (p - 1) % Wide) \in Glyph
  <2>. DEFINE w == (p - 1) \div Wide
              o == (p - 1) % Wide
              f == HexFirst(w)
              e == HexLast(n, w)
  <2>1. o \in Nat /\ f \in Nat /\ e \in f + 1 .. n /\ o <= 2 * (e - f)
    BY <1>1, HexPlace
  <2>2. HexCell(data, w, o) = IF o = 2 * (e - f) THEN " " ELSE Digit(data, e, o)
    BY DEF HexCell
  <2>. HIDE DEF w, o, f, e
  <2>3. o # 2 * (e - f) => o \in 0 .. 2 * e - 1 /\ e \in 0 .. n
    BY <1>1, <2>1
  <2>4. o # 2 * (e - f) => Digit(data, e, o) \in Digits
    BY <2>3, DigitIs DEF n
  <2>5. HexCell(data, w, o) \in Glyph
    BY <2>2, <2>4, Zenon DEF Glyph
  <2>. QED
    BY <2>5 DEF w, o
<1>4. W \in [1 .. HexLen(n) -> Glyph]
  BY <1>3, WordsInHexIs, Zenon DEF n
<1>5. W \in Seq(Glyph) /\ Len(W) = HexLen(n)
  <2>. HIDE DEF W, n, Glyph
  <2>. QED
    BY <1>2, <1>4, FunctionIsSequence
<1>. QED
  BY <1>2, <1>5 DEF n, W

LEMMA HexLenZero == HexLen(0) = 0
<1>1. MaxHex \in Nat \ {0} /\ MaxHex - 1 \in 0 .. MaxHex - 1 /\ 0 + MaxHex - 1 = MaxHex - 1
  BY HexConstants
<1>2. (MaxHex - 1) \div MaxHex = 0
  BY <1>1, DivModSmall
<1>. QED
  BY <1>1, <1>2 DEF HexLen, HexWords

\* A byte of the buffer, of the cells behind it, and what those hold.
Other == "other"
Store == Glyph \cup {Other}

\* What a copy into the buffer leaves and what it writes.
Copied(old, z, at, s) ==
  [k \in 0 .. z + 1 |-> IF k \in at .. at + Len(s) - 1 THEN s[k - at + 1] ELSE old[k]]

LEMMA CopyIs ==
  ASSUME NEW z \in Nat, NEW at \in Nat, NEW s \in Seq(Glyph),
         at + Len(s) <= z, NEW old \in [0 .. z + 1 -> Store],
         \A k \in 0 .. z + 1 : k >= z => old[k] = Other
  PROVE  /\ Copied(old, z, at, s) \in [0 .. z + 1 -> Store]
         /\ \A k \in 0 .. z + 1 : k >= z => Copied(old, z, at, s)[k] = Other
         /\ \A k \in 0 .. at - 1 : Copied(old, z, at, s)[k] = old[k]
         /\ \A k \in 1 .. Len(s) : Copied(old, z, at, s)[at + k - 1] = s[k]
<1>. DEFINE n == Len(s)
            new == Copied(old, z, at, s)
<1>1. n \in Nat /\ at + n <= z
  OBVIOUS
<1>2. \A k \in 1 .. n : s[k] \in Glyph
  OBVIOUS
<1>3. new = [k \in 0 .. z + 1 |-> IF k \in at .. at + n - 1 THEN s[k - at + 1] ELSE old[k]]
  BY DEF Copied
<1>0. Glyph \subseteq Store
  BY DEF Store
<1>. HIDE DEF n, new
<1>4. \A k \in at .. at + n - 1 : k - at + 1 \in 1 .. n
  BY <1>1
<1>5. new \in [0 .. z + 1 -> Store]
  BY <1>0, <1>2, <1>3, <1>4
<1>6. \A k \in 0 .. z + 1 : k >= z => new[k] = Other
  BY <1>1, <1>3
<1>7. \A k \in 0 .. at - 1 : new[k] = old[k]
  BY <1>1, <1>3
<1>8. \A k \in 1 .. n : new[at + k - 1] = s[k]
  <2>. TAKE k \in 1 .. n
  <2>1. at + k - 1 \in at .. at + n - 1 /\ at + k - 1 \in 0 .. z + 1 /\ (at + k - 1) - at + 1 = k
    BY <1>1
  <2>. QED
    BY <1>3, <2>1
<1>. QED
  BY <1>5, <1>6, <1>7, <1>8 DEF n, new

(* The types, and the buffer next to the cells behind it. *)
BufTypes ==
  /\ size \in BufCase.Sizes /\ len \in 0 .. size + 1
  /\ memory \in [0 .. size + 1 -> Store]
  /\ todo \in Seq(BufCase.Byte) /\ text \in Seq(Glyph) /\ want \in Seq(Glyph)
  /\ \A k \in 0 .. size + 1 : k >= size => memory[k] = Other
  /\ sret = -1 => len > size

(* The text of the calls that succeeded lies at the front. *)
BufText ==
  /\ Len(text) <= size
  /\ \A k \in 1 .. Len(text) : memory[k - 1] = text[k]
  /\ len <= size => Len(text) <= len /\ (todo = <<>> => len = Len(text))

(* Within seq_buf_putmem_hex(): behind it lies the first part of the text the    *)
(* call is to append, and the text of the bytes left is the second part.         *)
BufHex ==
  todo # <<>> /\ len <= size =>
    /\ Len(want) = (len - Len(text)) + HexLen(Len(todo))
    /\ \A k \in 1 .. len - Len(text) : memory[Len(text) + k - 1] = want[k]
    /\ \A k \in 1 .. HexLen(Len(todo)) : want[(len - Len(text)) + k] = Buf!WordsInHex(todo)[k]

BufInv == BufTypes /\ BufText /\ BufHex

LEMMA BufInitially == Buf!Init => BufInv
<1>. SUFFICES ASSUME Buf!Init  PROVE  BufInv
  OBVIOUS
<1>1. size \in BufCase.Sizes /\ len = 0 /\ memory = [k \in 0 .. size + 1 |-> Other]
      /\ todo = <<>> /\ sret = 0 /\ text = <<>> /\ want = <<>>
  <2>1. memory = [k \in 0 .. size + 2 - 1 |-> Other]
    BY DEF Buf!Init, Buf!Cell, Buf!Guard, Other
  <2>2. size \in Nat
    BY BufConstants DEF Buf!Init
  <2>3. size + 2 - 1 = size + 1
    BY <2>2
  <2>. QED
    BY <2>1, <2>3 DEF Buf!Init
<1>2. size \in Nat
  BY <1>1, BufConstants
<1>3. memory \in [0 .. size + 1 -> Store]
  BY <1>1 DEF Store
<1>4. BufTypes
  <2>1. todo \in Seq(BufCase.Byte) /\ text \in Seq(Glyph) /\ want \in Seq(Glyph)
    BY <1>1
  <2>2. \A k \in 0 .. size + 1 : k >= size => memory[k] = Other
    BY <1>1
  <2>3. len \in 0 .. size + 1 /\ (sret = -1 => len > size)
    BY <1>1, <1>2
  <2>. QED
    BY <1>1, <1>3, <2>1, <2>2, <2>3 DEF BufTypes
<1>5. BufText
  BY <1>1, <1>2 DEF BufText
<1>6. BufHex
  BY <1>1 DEF BufHex
<1>. QED
  BY <1>4, <1>5, <1>6 DEF BufInv

LEMMA BufSizes == BufInv => size \in Nat /\ len \in Nat /\ Len(text) \in Nat
  BY BufConstants DEF BufInv, BufTypes

\* A write that fits, and one that does not.
LEMMA PutIs ==
  ASSUME BufInv, NEW mem \in Seq(Glyph), NEW kept, Buf!Put(mem, kept)
  PROVE  \/ /\ len + Len(mem) <= size /\ len' = len + kept
            /\ memory' \in [0 .. size + 1 -> Store]
            /\ \A k \in 0 .. size + 1 : k >= size => memory'[k] = Other
            /\ \A k \in 0 .. len - 1 : memory'[k] = memory[k]
            /\ \A k \in 1 .. Len(mem) : memory'[len + k - 1] = mem[k]
         \/ len + Len(mem) > size /\ len' = size + 1 /\ memory' = memory
<1>1. size \in Nat /\ len \in Nat /\ Len(mem) \in Nat
  BY BufSizes
<1>2. CASE len + Len(mem) <= size
  <2>1. len' = len + kept /\ memory' = Buf!memcpy(len, mem)
    BY <1>2 DEF Buf!Put, Buf!seq_buf_can_fit
  <2>2. size + 2 - 1 = size + 1
    BY <1>1
  <2>3. memory' = Copied(memory, size, len, mem)
    BY <2>1, <2>2, Zenon DEF Buf!memcpy, Buf!Cell, Buf!Guard, Copied
  <2>4. /\ memory \in [0 .. size + 1 -> Store] /\ \A k \in 0 .. size + 1 : k >= size => memory[k] = Other
    BY DEF BufInv, BufTypes
  <2>5. /\ Copied(memory, size, len, mem) \in [0 .. size + 1 -> Store]
        /\ \A k \in 0 .. size + 1 : k >= size => Copied(memory, size, len, mem)[k] = Other
        /\ \A k \in 0 .. len - 1 : Copied(memory, size, len, mem)[k] = memory[k]
        /\ \A k \in 1 .. Len(mem) : Copied(memory, size, len, mem)[len + k - 1] = mem[k]
    BY <1>1, <1>2, <2>4, CopyIs, ZenonT(60)
  <2>. QED
    BY <1>2, <2>1, <2>3, <2>5, Zenon
<1>3. CASE ~ (len + Len(mem) <= size)
  <2>1. len' = size + 1 /\ memory' = memory
    BY <1>3 DEF Buf!Put, Buf!seq_buf_can_fit, Buf!seq_buf_set_overflow
  <2>. QED
    BY <1>1, <1>3, <2>1
<1>. QED
  BY <1>2, <1>3

\* A failure keeps the text and marks the overflow.
LEMMA FailKeeps ==
  ASSUME BufInv, len' = size + 1, memory' = memory, Buf!Fail,
         UNCHANGED size, todo' \in Seq(BufCase.Byte), want' \in Seq(Glyph)
  PROVE  BufInv'
<1>1. size \in Nat /\ ~ (size + 1 <= size) /\ size + 1 > size /\ size + 1 \in 0 .. size + 1
  BY BufSizes
<1>2. sret' = -1 /\ text' = text
  BY DEF Buf!Fail
<1>3. BufTypes'
  BY <1>1, <1>2 DEF BufInv, BufTypes
<1>4. BufText'
  BY <1>1, <1>2 DEF BufInv, BufText
<1>5. BufHex'
  BY <1>1 DEF BufHex
<1>. QED
  BY <1>3, <1>4, <1>5 DEF BufInv

\* A call of one step that succeeds: what is kept of the write is what is appended.
LEMMA SucceedKeeps ==
  ASSUME BufInv, todo = <<>>, UNCHANGED <<size, todo, want>>,
         NEW t \in Seq(Glyph), Buf!Succeed(t),
         len + Len(t) <= size, len' = len + Len(t), memory' \in [0 .. size + 1 -> Store],
         \A k \in 0 .. size + 1 : k >= size => memory'[k] = Other,
         \A k \in 0 .. len - 1 : memory'[k] = memory[k],
         \A k \in 1 .. Len(t) : memory'[len + k - 1] = t[k]
  PROVE  BufInv'
<1>. DEFINE m == Len(text)
            u == text \o t
            e == Len(text) + Len(t)
<1>1. size \in Nat /\ len \in Nat /\ m \in Nat /\ Len(t) \in Nat /\ text \in Seq(Glyph)
  BY BufSizes DEF BufInv, BufTypes
<1>2. sret' = 0 /\ text' = u
  BY DEF Buf!Succeed
<1>3. len = m
  BY <1>1 DEF BufInv, BufText
<1>4. /\ u \in Seq(Glyph) /\ Len(u) = e
      /\ \A k \in 1 .. e : u[k] = IF k <= m THEN text[k] ELSE t[k - m]
  BY <1>1, ConcatIs
<1>5. \A k \in 1 .. m : memory[k - 1] = text[k]
  BY DEF BufInv, BufText
<1>6. e \in Nat /\ e = m + Len(t)
  BY <1>1
<1>. HIDE DEF m, u, e
<1>7. \A k \in 1 .. e : memory'[k - 1] = u[k]
  <2>. TAKE k \in 1 .. e
  <2>1. CASE k <= m
    <3>1. k - 1 \in 0 .. len - 1 /\ k \in 1 .. m
      BY <1>1, <1>3, <1>6, <2>1
    <3>2. u[k] = text[k]
      BY <1>4, <2>1
    <3>. QED
      BY <1>5, <3>1, <3>2
  <2>2. CASE ~ (k <= m)
    <3>. DEFINE j == k - m
    <3>1. j \in 1 .. Len(t) /\ len + j - 1 = k - 1
      BY <1>1, <1>3, <1>6, <2>2
    <3>2. u[k] = t[j]
      BY <1>4, <2>2
    <3>. HIDE DEF j
    <3>3. memory'[len + j - 1] = t[j]
      BY <3>1
    <3>. QED
      BY <3>1, <3>2, <3>3
  <2>. QED
    BY <2>1, <2>2
<1>8. BufTypes'
  <2>1. size' = size /\ todo' = todo /\ want' = want
    OBVIOUS
  <2>2. /\ size \in BufCase.Sizes /\ todo \in Seq(BufCase.Byte) /\ want \in Seq(Glyph)
    BY DEF BufInv, BufTypes
  <2>3. len' \in 0 .. size' + 1 /\ (sret' = -1 => len' > size')
    BY <1>1, <1>2, <2>1
  <2>. QED
    BY <1>2, <1>4, <2>1, <2>2, <2>3 DEF BufTypes
<1>9. BufText'
  <2>1. Len(text') = e /\ e <= size' /\ len' = e
    BY <1>1, <1>2, <1>3, <1>4, <1>6
  <2>2. Len(text') <= len'
    BY <1>6, <2>1
  <2>3. \A k \in 1 .. Len(text') : memory'[k - 1] = text'[k]
    BY <1>2, <1>7, <2>1
  <2>. QED
    BY <2>1, <2>2, <2>3 DEF BufText
<1>10. BufHex'
  BY DEF BufHex
<1>. QED
  BY <1>8, <1>9, <1>10 DEF BufInv

\* seq_buf_vprintf(), puts(), putc() and putmem().
LEMMA SimpleKeeps ==
  ASSUME BufInv, Buf!Idle, NEW mem \in Seq(Glyph), NEW t \in Seq(Glyph), Len(t) <= Len(mem),
         \A k \in 1 .. Len(t) : mem[k] = t[k], Buf!Put(mem, Len(t)),
         IF len + Len(mem) <= size THEN Buf!Succeed(t) ELSE Buf!Fail
  PROVE  BufInv'
<1>1. size \in Nat /\ len \in Nat /\ Len(mem) \in Nat /\ Len(t) \in Nat
  BY BufSizes
<1>2. todo = <<>> /\ UNCHANGED <<size, todo, want>>
  BY DEF Buf!Idle
<1>3. CASE len + Len(mem) <= size
  <2>1. Buf!Succeed(t)
    BY <1>3
  <2>2. /\ len' = len + Len(t)
        /\ memory' \in [0 .. size + 1 -> Store]
        /\ \A k \in 0 .. size + 1 : k >= size => memory'[k] = Other
        /\ \A k \in 0 .. len - 1 : memory'[k] = memory[k]
        /\ \A k \in 1 .. Len(mem) : memory'[len + k - 1] = mem[k]
    <3>1. ~ (len + Len(mem) > size)
      BY <1>1, <1>3
    <3>. QED
      BY <3>1, PutIs, Zenon
  <2>3. len + Len(t) <= size
    BY <1>1, <1>3
  <2>4. \A k \in 1 .. Len(t) : memory'[len + k - 1] = t[k]
    <3>1. \A k \in 1 .. Len(t) : k \in 1 .. Len(mem)
      BY <1>1
    <3>. QED
      BY <2>2, <3>1
  <2>. QED
    BY <1>2, <2>1, <2>2, <2>3, <2>4, SucceedKeeps, Zenon
<1>4. CASE ~ (len + Len(mem) <= size)
  <2>1. Buf!Fail
    BY <1>4
  <2>2. len' = size + 1 /\ memory' = memory
    BY <1>4, PutIs, Zenon
  <2>3. todo' \in Seq(BufCase.Byte) /\ want' \in Seq(Glyph) /\ size' = size
    BY <1>2 DEF BufInv, BufTypes
  <2>. QED
    BY <2>1, <2>2, <2>3, FailKeeps, Zenon
<1>. QED
  BY <1>3, <1>4

\* A string or block is a sequence of bytes, and bytes are text.
LEMMA PieceIs ==
  ASSUME NEW s \in Buf!Piece
  PROVE  s \in Seq(BufCase.Byte) /\ s \in Seq(Glyph) /\ Len(s) \in Nat
<1>1. PICK n \in 0 .. BufCase.MaxPiece : s \in [1 .. n -> BufCase.Byte]
  BY DEF Buf!Piece
<1>2. n \in Nat
  BY BufConstants
<1>. DEFINE S == BufCase.Byte
            G == Glyph
<1>3. s \in [1 .. n -> S] /\ S \subseteq G
  BY <1>1 DEF Glyph
<1>. HIDE DEF S, G
<1>4. s \in Seq(S) /\ s \in Seq(G) /\ Len(s) \in Nat
  BY <1>2, <1>3, FunctionIsSequence
<1>. QED
  BY <1>4 DEF S, G

LEMMA VprintfKeeps == BufInv /\ Buf!seq_buf_vprintf => BufInv'
<1>. SUFFICES ASSUME BufInv, Buf!seq_buf_vprintf  PROVE  BufInv'
  OBVIOUS
<1>1. Buf!Idle /\ todo = <<>> /\ UNCHANGED <<size, todo, want>>
  BY DEF Buf!seq_buf_vprintf, Buf!Idle
<1>2. size \in Nat /\ len \in Nat
  BY BufSizes
<1>3. CASE len < size /\ Buf!Succeed(<<>>) /\ UNCHANGED <<len, memory>>
  <2>. DEFINE t == << >>
  <2>1. t \in Seq(Glyph) /\ Len(t) = 0 /\ Buf!Succeed(t)
    BY <1>3
  <2>. HIDE DEF t
  <2>2. len + Len(t) <= size /\ len' = len + Len(t) /\ memory' = memory
    BY <1>2, <1>3, <2>1
  <2>3. /\ memory' \in [0 .. size + 1 -> Store]
        /\ \A k \in 0 .. size + 1 : k >= size => memory'[k] = Other
        /\ \A k \in 0 .. len - 1 : memory'[k] = memory[k]
    BY <2>2 DEF BufInv, BufTypes
  <2>4. \A k \in 1 .. Len(t) : memory'[len + k - 1] = t[k]
    BY <2>1
  <2>. QED
    BY <1>1, <2>1, <2>2, <2>3, <2>4, SucceedKeeps, Zenon
<1>4. CASE len >= size /\ Buf!seq_buf_set_overflow /\ Buf!Fail /\ UNCHANGED memory
  <2>1. len' = size + 1 /\ memory' = memory /\ Buf!Fail
    BY <1>4 DEF Buf!seq_buf_set_overflow
  <2>2. todo' \in Seq(BufCase.Byte) /\ want' \in Seq(Glyph) /\ size' = size
    BY <1>1 DEF BufInv, BufTypes
  <2>. QED
    BY <2>1, <2>2, FailKeeps, Zenon
<1>. QED
  BY <1>3, <1>4, Zenon DEF Buf!seq_buf_vprintf

LEMMA PutsKeeps ==
  ASSUME BufInv, NEW s \in Buf!Piece, Buf!seq_buf_puts(s)
  PROVE  BufInv'
<1>. DEFINE nul == "NUL"
            mem == Append(s, nul)
            n == Len(s)
            G == Glyph
<1>1. s \in Seq(G) /\ n \in Nat /\ nul \in G
  BY PieceIs DEF Glyph
<1>2. /\ Buf!Idle /\ Buf!Put(mem, n)
      /\ IF len + (n + 1) <= size THEN Buf!Succeed(s) ELSE Buf!Fail
  BY Zenon DEF Buf!seq_buf_puts, Buf!seq_buf_can_fit
<1>. HIDE DEF nul, G
<1>3. mem \in Seq(G) /\ Len(mem) = n + 1 /\ \A k \in 1 .. n : mem[k] = s[k]
  BY <1>1, AppendProperties
<1>. HIDE DEF mem, n
<1>4. IF len + Len(mem) <= size THEN Buf!Succeed(s) ELSE Buf!Fail
  BY <1>2, <1>3, Zenon
<1>5. Len(s) <= Len(mem) /\ \A k \in 1 .. Len(s) : mem[k] = s[k]
  BY <1>1, <1>3 DEF n
<1>6. mem \in Seq(Glyph) /\ s \in Seq(Glyph) /\ Buf!Put(mem, Len(s))
  BY <1>1, <1>2, <1>3 DEF G, n
<1>. QED
  BY <1>2, <1>4, <1>5, <1>6, SimpleKeeps, Zenon

LEMMA PutcKeeps ==
  ASSUME BufInv, NEW b \in BufCase.Byte, Buf!seq_buf_putc(b)
  PROVE  BufInv'
<1>. DEFINE mem == <<b>>
            G == Glyph
<1>1. b \in G
  BY DEF Glyph
<1>2. /\ Buf!Idle /\ Buf!Put(mem, 1)
      /\ IF len + 1 <= size THEN Buf!Succeed(mem) ELSE Buf!Fail
  BY Zenon DEF Buf!seq_buf_putc, Buf!seq_buf_can_fit
<1>. HIDE DEF G
<1>3. mem \in Seq(G) /\ Len(mem) = 1
  BY <1>1
<1>. HIDE DEF mem
<1>4. /\ IF len + Len(mem) <= size THEN Buf!Succeed(mem) ELSE Buf!Fail
      /\ Buf!Put(mem, Len(mem)) /\ mem \in Seq(Glyph)
  BY <1>2, <1>3, Zenon DEF G
<1>5. Len(mem) <= Len(mem) /\ \A k \in 1 .. Len(mem) : mem[k] = mem[k]
  BY <1>3
<1>. QED
  BY <1>2, <1>4, <1>5, SimpleKeeps, Zenon

LEMMA PutmemKeeps ==
  ASSUME BufInv, NEW s \in Buf!Piece, Buf!seq_buf_putmem(s)
  PROVE  BufInv'
<1>1. s \in Seq(Glyph) /\ Len(s) \in Nat
  BY PieceIs
<1>2. /\ Buf!Idle /\ Buf!Put(s, Len(s))
      /\ IF len + Len(s) <= size THEN Buf!Succeed(s) ELSE Buf!Fail
  BY Zenon DEF Buf!seq_buf_putmem, Buf!seq_buf_can_fit
<1>3. Len(s) <= Len(s) /\ \A k \in 1 .. Len(s) : s[k] = s[k]
  BY <1>1
<1>. QED
  BY <1>1, <1>2, <1>3, SimpleKeeps, Zenon

LEMMA HexBegins ==
  ASSUME BufInv, NEW s \in Buf!Piece, Buf!seq_buf_putmem_hex(s)
  PROVE  BufInv'
<1>1. s \in Seq(BufCase.Byte) /\ Len(s) \in Nat
  BY PieceIs
<1>2. /\ todo = <<>> /\ size' = size /\ len' = len /\ memory' = memory
      /\ todo' = s /\ want' = Buf!WordsInHex(s)
  BY DEF Buf!seq_buf_putmem_hex
<1>3. /\ Buf!WordsInHex(s) \in Seq(Glyph) /\ Len(Buf!WordsInHex(s)) = HexLen(Len(s))
      /\ HexLen(Len(s)) \in Nat
  BY <1>1, HexIsText
<1>4. size \in Nat /\ len \in Nat /\ Len(text) \in Nat /\ text \in Seq(Glyph)
  BY BufSizes DEF BufInv, BufTypes
<1>5. text' = text /\ (sret' = sret \/ sret' = 0)
  <2>1. CASE s = <<>>
    <3>1. sret' = 0 /\ text' = text \o <<>>
      BY <2>1 DEF Buf!seq_buf_putmem_hex, Buf!Succeed
    <3>. QED
      BY <1>4, <3>1, ConcatEmptySeq
  <2>2. CASE s # <<>>
    BY <2>2 DEF Buf!seq_buf_putmem_hex
  <2>. QED
    BY <2>1, <2>2
<1>6. BufTypes'
  BY <1>1, <1>2, <1>3, <1>5 DEF BufInv, BufTypes
<1>7. BufText'
  BY <1>2, <1>4, <1>5 DEF BufInv, BufText
<1>8. BufHex'
  <2>. SUFFICES ASSUME len <= size
                PROVE  /\ Len(want') = (len - Len(text)) + HexLen(Len(s))
                       /\ \A k \in 1 .. len - Len(text) : memory[Len(text) + k - 1] = want'[k]
                       /\ \A k \in 1 .. HexLen(Len(s)) : want'[(len - Len(text)) + k] = Buf!WordsInHex(s)[k]
    BY <1>2, <1>5, Zenon DEF BufHex
  <2>1. len - Len(text) = 0
    BY <1>2, <1>4 DEF BufInv, BufText
  <2>2. Len(want') = (len - Len(text)) + HexLen(Len(s))
    BY <1>2, <1>3, <2>1
  <2>3. \A k \in 1 .. HexLen(Len(s)) : (len - Len(text)) + k = k
    BY <2>1
  <2>4. \A k \in 1 .. HexLen(Len(s)) : want'[(len - Len(text)) + k] = Buf!WordsInHex(s)[k]
    BY <1>2, <2>3, Zenon
  <2>5. \A k \in 1 .. len - Len(text) : memory[Len(text) + k - 1] = want'[k]
    BY <2>1
  <2>. QED
    BY <2>2, <2>4, <2>5
<1>. QED
  BY <1>6, <1>7, <1>8 DEF BufInv

\* One turn of the loop.
LEMMA TurnIs ==
  ASSUME Buf!HexChunk
  PROVE  /\ todo # <<>> /\ size' = size
         /\ Buf!Put(ChunkOf(todo), Len(ChunkOf(todo)))
         /\ len' > size => todo' = <<>> /\ Buf!Fail
         /\ ~ (len' > size) =>
              /\ todo' = RestOf(todo)
              /\ IF todo' = <<>> THEN Buf!Succeed(want) ELSE UNCHANGED <<sret, text>>
         /\ want' = IF todo' = <<>> THEN <<>> ELSE want
<1>1. FirstPart(todo) = IF Len(todo) < BufCase.MAX_MEMHEX_BYTES THEN Len(todo) ELSE BufCase.MAX_MEMHEX_BYTES
  BY DEF FirstPart, MaxHex
<1>. QED
  BY <1>1, Zenon DEF Buf!HexChunk, ChunkOf, RestOf, Buf!seq_buf_has_overflowed

LEMMA TurnKeeps == BufInv /\ Buf!HexChunk => BufInv'
<1>. SUFFICES ASSUME BufInv, Buf!HexChunk  PROVE  BufInv'
  OBVIOUS
<1>. DEFINE H == ChunkOf(todo)
            R == RestOf(todo)
            h == Len(H)
            m == Len(text)
            d == len - m
            a == HexLen(Len(todo))
            b == HexLen(Len(R))
            W == Buf!WordsInHex(todo)
            V == Buf!WordsInHex(R)
<1>1. /\ todo # <<>> /\ size' = size /\ Buf!Put(H, h)
      /\ len' > size => todo' = <<>> /\ Buf!Fail
      /\ ~ (len' > size) =>
           /\ todo' = R
           /\ IF todo' = <<>> THEN Buf!Succeed(want) ELSE UNCHANGED <<sret, text>>
      /\ want' = IF todo' = <<>> THEN <<>> ELSE want
  BY TurnIs, Zenon
<1>2. /\ size \in Nat /\ len \in Nat /\ m \in Nat /\ text \in Seq(Glyph) /\ want \in Seq(Glyph)
      /\ todo \in Seq(BufCase.Byte) /\ size \in BufCase.Sizes
  BY BufSizes DEF BufInv, BufTypes
<1>3. Len(todo) > 0 /\ Len(todo) \in Nat
  BY <1>1, <1>2
<1>4. /\ R \in Seq(BufCase.Byte) /\ H \in Seq(Glyph) /\ h \in Nat /\ h > 0
      /\ a = h + b
      /\ \A k \in 1 .. h : W[k] = H[k]
      /\ \A k \in 1 .. b : W[h + k] = V[k]
  <2>. DEFINE c == FirstPart(todo)
  <2>1. /\ c \in 1 .. Len(todo) /\ R \in Seq(BufCase.Byte) /\ Len(R) = Len(todo) - c
        /\ H \in Seq(Glyph) /\ h = 2 * c + 1
        /\ a = 2 * c + 1 + HexLen(Len(todo) - c)
        /\ \A p \in 1 .. 2 * c + 1 : W[p] = H[p]
        /\ \A p \in 1 .. HexLen(Len(todo) - c) : W[2 * c + 1 + p] = V[p]
    BY <1>2, <1>3, HexSplits, Zenon
  <2>2. h \in Nat /\ h > 0
    BY <1>3, <2>1
  <2>3. a = h + b
    BY <2>1, Zenon
  <2>4. \A k \in 1 .. h : W[k] = H[k]
    BY <2>1, Zenon
  <2>5. \A k \in 1 .. b : W[h + k] = V[k]
    BY <2>1, Zenon
  <2>. QED
    BY <2>1, <2>2, <2>3, <2>4, <2>5
<1>5. b \in Nat /\ (R = <<>> => b = 0)
  <2>1. b \in Nat
    BY <1>4, HexIsText
  <2>2. R = <<>> => Len(R) = 0
    OBVIOUS
  <2>. QED
    BY <2>1, <2>2, HexLenZero
<1>6. len <= size => /\ m <= len /\ m <= size /\ Len(want) = d + a
                     /\ \A k \in 1 .. m : memory[k - 1] = text[k]
                     /\ \A k \in 1 .. d : memory[m + k - 1] = want[k]
                     /\ \A k \in 1 .. a : want[d + k] = W[k]
  BY <1>1, Zenon DEF BufInv, BufText, BufHex
<1>. HIDE DEF H, R, h, m, a, b, W, V
<1>7. CASE len + h > size /\ len' = size + 1 /\ memory' = memory
  <2>1. len' > size
    BY <1>2, <1>7
  <2>2. Buf!Fail /\ todo' = <<>> /\ want' = <<>>
    BY <1>1, <2>1, Zenon
  <2>3. todo' \in Seq(BufCase.Byte) /\ want' \in Seq(Glyph) /\ size' = size
    BY <1>1, <2>2
  <2>. QED
    BY <1>7, <2>2, <2>3, FailKeeps, Zenon
<1>8. CASE /\ len + h <= size /\ len' = len + h
           /\ memory' \in [0 .. size + 1 -> Store]
           /\ \A k \in 0 .. size + 1 : k >= size => memory'[k] = Other
           /\ \A k \in 0 .. len - 1 : memory'[k] = memory[k]
           /\ \A k \in 1 .. h : memory'[len + k - 1] = H[k]
  <2>1. len <= size /\ ~ (len' > size) /\ len' \in 0 .. size + 1 /\ len' \in Nat
    BY <1>2, <1>4, <1>8
  <2>2. todo' = R /\ IF todo' = <<>> THEN Buf!Succeed(want) ELSE UNCHANGED <<sret, text>>
    BY <1>1, <2>1, Zenon
  <2>3. /\ m <= len /\ m <= size /\ Len(want) = d + a /\ d \in Nat /\ len = m + d
        /\ \A k \in 1 .. m : memory[k - 1] = text[k]
        /\ \A k \in 1 .. d : memory[m + k - 1] = want[k]
        /\ \A k \in 1 .. a : want[d + k] = W[k]
    BY <1>2, <1>6, <2>1
  <2>. HIDE DEF d
  <2>a. /\ m \in Nat /\ d \in Nat /\ h \in Nat /\ h > 0 /\ b \in Nat /\ len \in Nat
        /\ len = m + d /\ a = h + b
    BY <1>2, <1>4, <1>5, <2>3
  <2>4. \A k \in 1 .. m : memory'[k - 1] = text[k]
    <3>1. \A k \in 1 .. m : k - 1 \in 0 .. len - 1
      BY <2>a
    <3>. QED
      BY <1>8, <2>3, <3>1
  <2>5. \A k \in 1 .. d + h : memory'[m + k - 1] = want[k]
    <3>. TAKE k \in 1 .. d + h
    <3>1. CASE k <= d
      <4>1. k \in 1 .. d /\ m + k - 1 \in 0 .. len - 1
        BY <2>a, <3>1
      <4>. QED
        BY <1>8, <2>3, <4>1
    <3>2. CASE ~ (k <= d)
      <4>. DEFINE j == k - d
      <4>1. j \in 1 .. h /\ j \in 1 .. a /\ d + j = k /\ len + j - 1 = m + k - 1
        BY <2>a, <3>2
      <4>. HIDE DEF j
      <4>2. want[k] = W[j]
        BY <2>3, <4>1
      <4>3. memory'[m + k - 1] = H[j]
        BY <1>8, <4>1
      <4>4. W[j] = H[j]
        BY <1>4, <4>1
      <4>. QED
        BY <4>2, <4>3, <4>4
    <3>. QED
      BY <3>1, <3>2
  <2>6. CASE R # <<>>
    <3>1. todo' = R /\ sret' = sret /\ text' = text /\ want' = want
      BY <1>1, <2>2, <2>6, Zenon
    <3>2. sret' # -1
      <4>1. ~ (len > size)
        BY <1>2, <2>1
      <4>. QED
        BY <3>1, <4>1 DEF BufInv, BufTypes
    <3>3. BufTypes'
      BY <1>1, <1>2, <1>4, <1>8, <2>1, <3>1, <3>2 DEF BufTypes
    <3>4. BufText'
      <4>1. Len(text') = m /\ m <= size' /\ m <= len'
        BY <1>1, <1>2, <1>4, <1>8, <2>3, <3>1 DEF m
      <4>2. \A k \in 1 .. Len(text') : memory'[k - 1] = text'[k]
        BY <2>4, <3>1, <4>1
      <4>. QED
        BY <2>6, <3>1, <4>1, <4>2 DEF BufText
    <3>5. BufHex'
      <4>1. len' - m = d + h
        BY <1>8, <2>a
      <4>2. Len(want) = (d + h) + b
        BY <2>3, <2>a
      <4>3. \A k \in 1 .. b : want[(d + h) + k] = V[k]
        <5>. TAKE k \in 1 .. b
        <5>1. h + k \in 1 .. a /\ d + (h + k) = (d + h) + k
          BY <2>a
        <5>2. want[d + (h + k)] = W[h + k]
          BY <2>3, <5>1
        <5>. QED
          BY <1>4, <5>1, <5>2
      <4>4. /\ Len(want) = (len' - m) + b
            /\ \A k \in 1 .. len' - m : memory'[m + k - 1] = want[k]
            /\ \A k \in 1 .. b : want[(len' - m) + k] = V[k]
        BY <2>5, <4>1, <4>2, <4>3
      <4>5. m = Len(text') /\ b = HexLen(Len(todo')) /\ V = Buf!WordsInHex(todo')
        BY <3>1 DEF m, b, V
      <4>. QED
        BY <3>1, <4>4, <4>5, Zenon DEF BufHex
    <3>. QED
      BY <3>3, <3>4, <3>5 DEF BufInv
  <2>7. CASE R = <<>>
    <3>. DEFINE u == text \o want
                e == m + Len(want)
    <3>1. todo' = <<>> /\ sret' = 0 /\ text' = u /\ want' = <<>>
      BY <1>1, <2>2, <2>7, Zenon DEF Buf!Succeed
    <3>2. /\ u \in Seq(Glyph) /\ Len(u) = e
          /\ \A k \in 1 .. e : u[k] = IF k <= m THEN text[k] ELSE want[k - m]
      BY <1>2, ConcatIs DEF m
    <3>3. Len(want) = d + h /\ e \in Nat /\ e = len'
      BY <1>2, <1>4, <1>5, <1>8, <2>3, <2>7
    <3>. HIDE DEF u
    <3>4. \A k \in 1 .. e : memory'[k - 1] = u[k]
      <4>. TAKE k \in 1 .. e
      <4>1. CASE k <= m
        <5>1. k \in 1 .. m /\ u[k] = text[k]
          BY <1>2, <3>2, <3>3, <4>1
        <5>. QED
          BY <2>4, <5>1
      <4>2. CASE ~ (k <= m)
        <5>. DEFINE j == k - m
        <5>1. j \in 1 .. d + h /\ m + j - 1 = k - 1
          BY <2>a, <3>3, <4>2
        <5>2. u[k] = want[j]
          BY <3>2, <4>2
        <5>. HIDE DEF j
        <5>3. memory'[m + j - 1] = want[j]
          BY <2>5, <5>1
        <5>. QED
          BY <5>1, <5>2, <5>3
      <4>. QED
        BY <4>1, <4>2
    <3>. HIDE DEF e
    <3>5. BufTypes'
      <4>1. todo' \in Seq(BufCase.Byte) /\ want' \in Seq(Glyph) /\ text' \in Seq(Glyph) /\ sret' # -1
        BY <3>1, <3>2
      <4>. QED
        BY <1>1, <1>2, <1>8, <2>1, <4>1 DEF BufTypes
    <3>6. BufText'
      <4>1. Len(text') = e /\ e <= size' /\ e = len' /\ e \in Nat
        BY <1>1, <1>8, <3>1, <3>2, <3>3
      <4>2. \A k \in 1 .. Len(text') : memory'[k - 1] = text'[k]
        BY <3>1, <3>4, <4>1
      <4>3. Len(text') <= size' /\ Len(text') <= len' /\ len' = Len(text')
        BY <4>1
      <4>. QED
        BY <4>2, <4>3 DEF BufText
    <3>7. BufHex'
      BY <3>1 DEF BufHex
    <3>. QED
      BY <3>5, <3>6, <3>7 DEF BufInv
  <2>. QED
    BY <2>6, <2>7
<1>9. \/ len + h > size /\ len' = size + 1 /\ memory' = memory
      \/ /\ len + h <= size /\ len' = len + h
         /\ memory' \in [0 .. size + 1 -> Store]
         /\ \A k \in 0 .. size + 1 : k >= size => memory'[k] = Other
         /\ \A k \in 0 .. len - 1 : memory'[k] = memory[k]
         /\ \A k \in 1 .. h : memory'[len + k - 1] = H[k]
  BY <1>1, <1>4, PutIs, Zenon DEF h
<1>. QED
  BY <1>7, <1>8, <1>9, Zenon

LEMMA BufStep == BufInv /\ Buf!Next => BufInv'
<1>. SUFFICES ASSUME BufInv, Buf!Next  PROVE  BufInv'
  OBVIOUS
<1>1. CASE Buf!seq_buf_vprintf
  BY <1>1, VprintfKeeps, Zenon
<1>2. CASE Buf!HexChunk
  BY <1>2, TurnKeeps, Zenon
<1>3. CASE \E c \in BufCase.Byte : Buf!seq_buf_putc(c)
  BY <1>3, PutcKeeps, Zenon
<1>4. CASE \E s \in Buf!Piece : Buf!seq_buf_puts(s) \/ Buf!seq_buf_putmem(s) \/ Buf!seq_buf_putmem_hex(s)
  BY <1>4, PutsKeeps, PutmemKeeps, HexBegins, Zenon
<1>. QED
  BY <1>1, <1>2, <1>3, <1>4, Zenon DEF Buf!Next

LEMMA BufKept == BufInv /\ UNCHANGED bufVars => BufInv'
  BY DEF BufInv, BufTypes, BufText, BufHex, bufVars

\* Once the mark is set no write fits.
LEMMA PutSticks ==
  ASSUME BufInv, len > size, NEW mem \in Seq(Glyph), NEW kept, Buf!Put(mem, kept)
  PROVE  len' = size + 1 /\ memory' = memory
<1>1. ~ (len + Len(mem) <= size)
  BY BufSizes
<1>. QED
  BY <1>1, PutIs, Zenon

LEMMA MarkStays ==
  BufInv /\ len > size /\ Buf!Next =>
    (memory' = memory /\ len' = size + 1) \/ UNCHANGED <<len, memory>>
<1>. SUFFICES ASSUME BufInv, len > size, Buf!Next
              PROVE  (memory' = memory /\ len' = size + 1) \/ UNCHANGED <<len, memory>>
  OBVIOUS
<1>1. CASE Buf!seq_buf_vprintf
  BY <1>1 DEF Buf!seq_buf_vprintf, Buf!seq_buf_set_overflow
<1>2. CASE Buf!HexChunk
  <2>1. todo \in Seq(BufCase.Byte) /\ Buf!Put(ChunkOf(todo), Len(ChunkOf(todo))) /\ todo # <<>>
    BY <1>2, TurnIs, Zenon DEF BufInv, BufTypes
  <2>2. Len(todo) > 0
    BY <2>1
  <2>3. ChunkOf(todo) \in Seq(Glyph)
    BY <2>1, <2>2, HexSplits, Zenon
  <2>. QED
    BY <2>1, <2>3, PutSticks, Zenon
<1>3. ASSUME NEW b \in BufCase.Byte, Buf!seq_buf_putc(b)
      PROVE  memory' = memory /\ len' = size + 1
  <2>. DEFINE mem == <<b>>
  <2>1. Buf!Put(mem, 1)
    BY <1>3, Zenon DEF Buf!seq_buf_putc
  <2>2. mem \in Seq(Glyph)
    <3>1. b \in Glyph
      BY DEF Glyph
    <3>. QED
      BY <3>1
  <2>. HIDE DEF mem
  <2>. QED
    BY <2>1, <2>2, PutSticks, Zenon
<1>4. ASSUME NEW s \in Buf!Piece, Buf!seq_buf_puts(s)
      PROVE  memory' = memory /\ len' = size + 1
  <2>. DEFINE mem == Append(s, "NUL")
  <2>1. Buf!Put(mem, Len(s))
    BY <1>4, Zenon DEF Buf!seq_buf_puts
  <2>2. mem \in Seq(Glyph)
    <3>1. "NUL" \in Glyph /\ s \in Seq(Glyph)
      BY PieceIs DEF Glyph
    <3>. QED
      BY <3>1, AppendProperties
  <2>. HIDE DEF mem
  <2>. QED
    BY <2>1, <2>2, PutSticks, Zenon
<1>5. ASSUME NEW s \in Buf!Piece, Buf!seq_buf_putmem(s)
      PROVE  memory' = memory /\ len' = size + 1
  <2>1. Buf!Put(s, Len(s))
    BY <1>5, Zenon DEF Buf!seq_buf_putmem
  <2>2. s \in Seq(Glyph)
    BY PieceIs
  <2>. QED
    BY <2>1, <2>2, PutSticks, Zenon
<1>6. ASSUME NEW s \in Buf!Piece, Buf!seq_buf_putmem_hex(s)
      PROVE  UNCHANGED <<len, memory>>
  BY <1>6 DEF Buf!seq_buf_putmem_hex
<1>. QED
  BY <1>1, <1>2, <1>3, <1>4, <1>5, <1>6, Zenon DEF Buf!Next

\* A failed call leaves the mark, which stays, and with it what is in the buffer.
Sticks ==
  /\ sret' = -1 => len' > size
  /\ len > size => len' > size /\ memory' = memory

LEMMA OverflowStays == BufInv /\ BufInv' /\ [PartsNext]_allVars => [Sticks]_(Buf!vars)
<1>. SUFFICES ASSUME BufInv, BufInv', Buf!Next  PROVE  Sticks
  <2>1. PartsNext => Buf!Next \/ UNCHANGED bufVars
    BY DEF PartsNext
  <2>2. UNCHANGED allVars => UNCHANGED bufVars
    BY DEF allVars
  <2>3. UNCHANGED bufVars => UNCHANGED Buf!vars
    BY DEF bufVars, Buf!vars
  <2>. QED
    BY <2>1, <2>2, <2>3
<1>1. size' = size
  BY DEF Buf!Next, Buf!seq_buf_vprintf, Buf!HexChunk, Buf!seq_buf_putc, Buf!seq_buf_puts, Buf!seq_buf_putmem,
         Buf!seq_buf_putmem_hex, Buf!Idle
<1>2. sret' = -1 => len' > size
  BY <1>1 DEF BufInv, BufTypes
<1>3. size \in Nat /\ size + 1 > size
  BY BufSizes
<1>4. len > size => len' > size /\ memory' = memory
  BY <1>3, MarkStays
<1>. QED
  BY <1>2, <1>4 DEF Sticks

\* seq_buf.c, for any sizes, bytes and length of chunk: the buffer holds the text of the calls
\* that succeeded, a hex dump of many chunks included, and no cell behind it is written; a
\* call that fails leaves the mark of overflow, and after it nothing changes any more.
THEOREM TextIsKept == PartsSpec => TextKept
<1>1. PartsInit => BufInv
  BY BufInitially DEF PartsInit
<1>2. BufInv /\ [PartsNext]_allVars => BufInv'
  <2>1. PartsNext => Buf!Next \/ UNCHANGED bufVars
    BY DEF PartsNext
  <2>2. UNCHANGED allVars => UNCHANGED bufVars
    BY DEF allVars
  <2>. QED
    BY <2>1, <2>2, BufStep, BufKept, Zenon
<1>3. BufInv => (part = "buf" => Buf!TextExact /\ Buf!InBounds)
  <2>. SUFFICES ASSUME BufInv  PROVE  Buf!TextExact /\ Buf!InBounds
    OBVIOUS
  <2>1. size \in Nat /\ len \in Nat
    BY BufSizes
  <2>2. Buf!TextExact
    BY <2>1 DEF BufInv, BufText, Buf!TextExact, Buf!seq_buf_has_overflowed
  <2>3. size + 2 - 1 = size + 1
    BY <2>1
  <2>4. Buf!InBounds
    BY <2>3, Zenon DEF BufInv, BufTypes, Buf!InBounds, Buf!Cell, Buf!Guard, Other
  <2>. QED
    BY <2>2, <2>4
<1>. QED
  BY <1>1, <1>2, <1>3, OverflowStays, PTL
     DEF PartsSpec, TextKept, Buf!OverflowSticks, Buf!seq_buf_has_overflowed, Sticks
-----------------------------------------------------------------------------
(* lpm_trie.c: the word-wise match *)

MatchVar == <<bits, psize, xor, limit>>

\* The shape of the data: bytes of bits, and a limit within them.
MatchTyped ==
  /\ bits \in Nat \ {0} /\ psize \in Nat \ {0}
  /\ xor \in [0..(psize - 1) -> [0..(bits - 1) -> 0..1]]
  /\ limit \in Nat /\ limit <= bits * psize

\* Node and key agree in their first n bits.
Equal(n) == \A j \in 0..(n - 1) : Match!DiffBit(j) = 0

\* The first n bits agree, and n is the limit or the next bit differs.
Longest(n) == n \in Nat /\ n <= limit /\ Equal(n) /\ (n = limit \/ Match!DiffBit(n) = 1)

\* While the loop runs, all of the first i bytes agree and do not reach the limit.
Matching ==
  /\ i \in Nat /\ i <= psize /\ prefixlen = bits * i
  /\ Equal(prefixlen) /\ (i # 0 => prefixlen < limit)

MatchInv ==
  /\ MatchTyped /\ ppc \in {"words", "half", "byte", "done"}
  /\ ppc # "done" => Matching
  /\ ppc = "half" => psize < i + 4
  /\ ppc = "byte" => psize < i + 2
  /\ ppc = "done" => Longest(result)

\* Max returns the greatest element of a set that has one.
LEMMA MatchMax ==
  ASSUME NEW S, S \subseteq Int, NEW x \in S, \A y \in S : x >= y
  PROVE  Match!Max(S) = x
<1>1. x \in S /\ \A y \in S : x >= y
  OBVIOUS
<1>2. Match!Max(S) \in S /\ \A y \in S : Match!Max(S) >= y
  BY <1>1 DEF Match!Max
<1>. DEFINE z == Match!Max(S)
<1>3. z \in S /\ x >= z /\ z >= x
  BY <1>1, <1>2
<1>. HIDE DEF z
<1>4. z = x
  BY <1>3
<1>. QED
  BY <1>4 DEF z

\* A nonempty bounded set of naturals has a greatest element.
LEMMA MatchGreatest ==
  ASSUME NEW n \in Nat, NEW T, T \subseteq 0..n, T # {}
  PROVE  \E x \in T : \A y \in T : x >= y
<1>. DEFINE U == {n - x : x \in T}
<1>0. \A x \in T : x \in Nat /\ n - x \in Nat
  OBVIOUS
<1>1. U \subseteq Nat /\ U # {}
  BY <1>0
<1>2. PICK z \in U : \A y \in U : z <= y
  <2>. HIDE DEF U
  <2>. QED
    BY <1>1, LeastNatural
<1>3. PICK x \in T : z = n - x
  BY <1>2
<1>4. \A y \in T : x >= y
  <2>. TAKE y \in T
  <2>1. n - y \in U
    OBVIOUS
  <2>2. n - x <= n - y
    BY <1>2, <1>3, <2>1
  <2>. QED
    BY <1>0, <2>2
<1>. QED
  BY <1>4

\* fls() of a word of m bits.
LEMMA FlsIs ==
  ASSUME NEW m \in Nat, NEW x \in [0..(m - 1) -> 0..1]
  PROVE  /\ Match!fls(x) \in 0..m
         /\ \A b \in 0..(m - 1) : b >= Match!fls(x) => x[b] = 0
         /\ Match!fls(x) # 0 => x[Match!fls(x) - 1] = 1
         /\ Match!Zero(x) <=> Match!fls(x) = 0
<1>. DEFINE T == {0} \cup {b + 1 : b \in {c \in DOMAIN x : x[c] = 1}}
            f == Match!fls(x)
<1>1. T \subseteq 0..m /\ 0 \in T
  OBVIOUS
<1>2. PICK y \in T : \A z \in T : y >= z
  <2>. HIDE DEF T
  <2>. QED
    BY <1>1, MatchGreatest
<1>3. f = y
  <2>1. f = Match!Max(T)
    BY DEF Match!fls
  <2>2. T \subseteq Int
    BY <1>1
  <2>. HIDE DEF T, f
  <2>. QED
    BY <1>2, <2>1, <2>2, MatchMax
<1>4. \A b \in 0..(m - 1) : x[b] = 1 => b + 1 <= y
  <2>. TAKE b \in 0..(m - 1)
  <2>. HAVE x[b] = 1
  <2>1. b + 1 \in T
    OBVIOUS
  <2>. HIDE DEF T
  <2>. QED
    BY <1>2, <2>1
<1>5. y # 0 => y - 1 \in 0..(m - 1) /\ x[y - 1] = 1
  OBVIOUS
<1>6. y \in 0..m
  <2>. HIDE DEF T
  <2>. QED
    BY <1>1
<1>. HIDE DEF T, f
<1>7. \A b \in 0..(m - 1) : b >= y => x[b] = 0
  <2>. TAKE b \in 0..(m - 1)
  <2>. HAVE b >= y
  <2>1. x[b] \in 0..1
    OBVIOUS
  <2>2. x[b] # 1
    BY <1>4, <1>6
  <2>. QED
    BY <2>1, <2>2
<1>8. Match!Zero(x) <=> \A b \in 0..(m - 1) : x[b] = 0
  BY DEF Match!Zero
<1>9. (\A b \in 0..(m - 1) : x[b] = 0) <=> y = 0
  BY <1>5, <1>6, <1>7
<1>. QED
  BY <1>3, <1>5, <1>6, <1>7, <1>8, <1>9 DEF f

\* Bit b of the n bytes at i, swapped, is the bit that many places before their end.
LEMMA SwappedIs ==
  ASSUME MatchTyped, i \in Nat, NEW n \in Nat \ {0}, i + n <= psize
  PROVE  LET diff == Match!be_to_cpu(Match!Load(n), n)
             m == bits * n
         IN  /\ m \in Nat /\ diff \in [0..(m - 1) -> 0..1]
             /\ \A b \in 0..(m - 1) : diff[b] = Match!DiffBit(bits * i + m - 1 - b)
<1>. DEFINE m == bits * n
            load == Match!Load(n)
            diff == Match!be_to_cpu(load, n)
<1>0. m \in Nat /\ bits \in Nat \ {0} /\ psize \in Nat
  BY DEF MatchTyped
<1>1. ASSUME NEW b \in 0..(m - 1)
      PROVE  diff[b] \in 0..1 /\ diff[b] = Match!DiffBit(bits * i + m - 1 - b)
  <2>. DEFINE q == b \div bits
              r == b % bits
  <2>0. b \in Nat /\ b < m
    BY <1>0
  <2>1. q \in Nat /\ r \in 0..(bits - 1) /\ b = bits * q + r
    BY <1>0, <2>0, NatDivMod
  <2>2. diff[b] = load[bits * (n - 1 - q) + r]
    BY DEF Match!be_to_cpu
  <2>. HIDE DEF q, r
  <2>3. q < n
    <3>1. ASSUME n <= q  PROVE  FALSE
      <4>1. bits * n <= bits * q
        BY <1>0, <2>1, <3>1
      <4>. QED
        BY <1>0, <2>0, <2>1, <4>1
    <3>. QED
      BY <2>1, <3>1
  <2>. DEFINE k == n - 1 - q
              s == bits * k + r
              t == bits * (i + k) + (bits - 1 - r)
  <2>4. k \in Nat /\ k < n /\ i + k \in 0..(psize - 1)
    BY <1>0, <2>1, <2>3
  <2>5. s \in 0..(m - 1)
    <3>1. bits * (k + 1) <= bits * n
      BY <1>0, <2>4
    <3>2. bits * (k + 1) = bits * k + bits /\ bits * k \in Nat
      BY <1>0, <2>4
    <3>. QED
      BY <1>0, <2>1, <3>1, <3>2
  <2>6. s \div bits = k /\ s % bits = r
    BY <1>0, <2>1, <2>4, <2>5, DivModIs
  <2>7. load[s] = xor[i + k][r]
    <3>1. load[s] = xor[i + (s \div bits)][s % bits]
      BY <2>5 DEF Match!Load
    <3>. QED
      BY <2>6, <3>1
  <2>8. t = bits * i + m - 1 - b
    <3>1. bits * (i + k) = bits * i + bits * k
      BY <1>0, <2>4
    <3>2. bits * k = bits * n - bits - bits * q
      BY <1>0, <2>1
    <3>. QED
      BY <1>0, <2>1, <3>1, <3>2
  <2>9. t \in Int /\ t \div bits = i + k /\ t % bits = bits - 1 - r
    <3>1. bits - 1 - r \in 0..(bits - 1) /\ i + k \in Int /\ t \in Int
      BY <1>0, <2>1, <2>4
    <3>. QED
      BY <1>0, <3>1, DivModIs
  <2>10. Match!DiffBit(t) = xor[i + k][r]
    <3>1. bits - 1 - (bits - 1 - r) = r
      BY <1>0, <2>1
    <3>. QED
      BY <2>9, <3>1 DEF Match!DiffBit
  <2>11. xor[i + k][r] \in 0..1
    BY <2>1, <2>4 DEF MatchTyped
  <2>. HIDE DEF t, s, load, diff, m, k
  <2>12. diff[b] = load[s]
    BY <2>2 DEF s, k
  <2>. QED
    BY <2>7, <2>8, <2>10, <2>11, <2>12
<1>2. diff = [b \in 0..(m - 1) |-> diff[b]]
  BY DEF Match!be_to_cpu
<1>. HIDE DEF diff
<1>3. diff \in [0..(m - 1) -> 0..1]
  BY <1>1, <1>2
<1>. QED
  BY <1>0, <1>1, <1>3 DEF diff, load

\* Places counted from the end of a word.
LEMMA Mirrored ==
  ASSUME NEW p \in Nat, NEW m \in Nat, NEW f \in Nat, NEW j \in Nat, p <= j, j < p + m - f
  PROVE  /\ p + m - 1 - j \in 0..(m - 1) /\ p + m - 1 - j >= f
         /\ p + m - 1 - (p + m - 1 - j) = j
  OBVIOUS

\* A comparison of n bytes: the bits that agree, and the next one if the word differs.
LEMMA ComparedIs ==
  ASSUME MatchTyped, Matching, NEW n \in Nat \ {0}, NEW x, NEW m, m = bits * n, m \in Nat,
         x \in [0..(m - 1) -> 0..1], \A b \in 0..(m - 1) : x[b] = Match!DiffBit(prefixlen + m - 1 - b),
         NEW now, now = prefixlen + Match!Matched(n, x)
  PROVE  /\ now \in Nat /\ Equal(now)
         /\ Match!Zero(x) => now = prefixlen + m
         /\ ~Match!Zero(x) => Match!DiffBit(now) = 1
         /\ now >= limit => Longest(limit)
         /\ now < limit /\ ~Match!Zero(x) => Longest(now)
<1>. DEFINE f == Match!fls(x)
<1>1. /\ f \in 0..m /\ (f # 0 => x[f - 1] = 1) /\ (Match!Zero(x) <=> f = 0)
      /\ \A b \in 0..(m - 1) : b >= f => x[b] = 0
  BY FlsIs
<1>2. prefixlen \in Nat /\ limit \in Nat
  BY DEF Matching, MatchTyped
<1>3. now = prefixlen + m - f
  BY <1>2 DEF Match!Matched
<1>. HIDE DEF f
<1>4. now \in Nat
  BY <1>1, <1>2, <1>3
<1>5. Equal(now)
  <2>. SUFFICES ASSUME NEW j \in 0..(now - 1)  PROVE  Match!DiffBit(j) = 0
    BY DEF Equal
  <2>1. CASE j < prefixlen
    BY <1>2, <2>1 DEF Matching, Equal
  <2>2. CASE j >= prefixlen
    <3>. DEFINE b == prefixlen + m - 1 - j
    <3>0. f \in Nat /\ j \in Nat /\ j < prefixlen + m - f /\ prefixlen <= j /\ prefixlen \in Nat /\ m \in Nat
      BY <1>1, <1>2, <1>3, <1>4, <2>2
    <3>1. b \in 0..(m - 1) /\ b >= f /\ prefixlen + m - 1 - b = j
      BY ONLY <3>0, Mirrored
    <3>2. x[b] = Match!DiffBit(prefixlen + m - 1 - b) /\ x[b] = 0
      BY <1>1, <3>1
    <3>. QED
      BY <3>1, <3>2
  <2>. QED
    BY <1>2, <1>4, <2>1, <2>2
<1>6. f # 0 => Match!DiffBit(now) = 1
  <2>. HAVE f # 0
  <2>1. f - 1 \in 0..(m - 1) /\ prefixlen + m - 1 - (f - 1) = now
    BY <1>1, <1>2, <1>3
  <2>. QED
    BY <1>1, <2>1
<1>7. ASSUME now >= limit  PROVE  Longest(limit)
  <2>1. Equal(limit)
    BY <1>2, <1>4, <1>5, <1>7 DEF Equal
  <2>. QED
    BY <1>2, <2>1 DEF Longest
<1>8. ASSUME now < limit, f # 0  PROVE  Longest(now)
  BY <1>2, <1>4, <1>5, <1>6, <1>8 DEF Longest
<1>. QED
  BY <1>1, <1>2, <1>3, <1>4, <1>5, <1>6, <1>7, <1>8

\* What does not change while the loop runs.
LEMMA MatchFrame ==
  ASSUME UNCHANGED MatchVar
  PROVE  (MatchTyped => MatchTyped') /\ \A n : (Equal(n) => Equal(n)') /\ (Longest(n) => Longest(n)')
<1>1. bits' = bits /\ psize' = psize /\ xor' = xor /\ limit' = limit
  BY DEF MatchVar
<1>2. \A j : Match!DiffBit(j)' = Match!DiffBit(j)
  BY <1>1 DEF Match!DiffBit
<1>3. MatchTyped => MatchTyped'
  BY <1>1 DEF MatchTyped
<1>4. \A n : Equal(n) => Equal(n)'
  BY <1>2 DEF Equal
<1>5. \A n : Longest(n) => Longest(n)'
  BY <1>1, <1>2, <1>4 DEF Longest
<1>. QED
  BY <1>3, <1>4, <1>5

\* One comparison of the loop, of a word or a half word.
LEMMA CompareKeeps ==
  ASSUME MatchTyped, Matching, NEW n \in {2, 4}, psize >= i + n, NEW next \in {"words", "byte"},
         next = "byte" => psize < i + n + 2, Match!Compare(n, next), UNCHANGED MatchVar
  PROVE  MatchInv'
<1>. DEFINE x == Match!be_to_cpu(Match!Load(n), n)
            m == bits * n
            now == prefixlen + Match!Matched(n, x)
<1>0. i \in Nat /\ psize \in Nat /\ bits \in Nat \ {0} /\ prefixlen = bits * i /\ prefixlen \in Nat /\ n \in Nat \ {0}
  BY DEF Matching, MatchTyped
<1>1. m \in Nat /\ x \in [0..(m - 1) -> 0..1] /\ \A b \in 0..(m - 1) : x[b] = Match!DiffBit(prefixlen + m - 1 - b)
  BY <1>0, SwappedIs
<1>2. /\ prefixlen' = now
      /\ \/ now >= limit /\ result' = limit /\ ppc' = "done"
         \/ now < limit /\ ~Match!Zero(x) /\ result' = now /\ ppc' = "done"
         \/ now < limit /\ Match!Zero(x) /\ i' = i + n /\ ppc' = next
  BY DEF Match!Compare, Match!Return
<1>3. bits' = bits /\ psize' = psize /\ limit' = limit
  BY DEF MatchVar
<1>. HIDE DEF x, m
<1>4. /\ now \in Nat /\ Equal(now) /\ (Match!Zero(x) => now = prefixlen + m)
      /\ (now >= limit => Longest(limit)) /\ (now < limit /\ ~Match!Zero(x) => Longest(now))
  BY <1>0, <1>1, ComparedIs DEF m
<1>. HIDE DEF now
<1>5. CASE ppc' = "done" /\ Longest(result')
  <2>1. MatchTyped' /\ Longest(result)'
    <3>1. \A r : Longest(r) => Longest(r)'
      BY MatchFrame
    <3>2. MatchTyped'
      BY MatchFrame
    <3>3. PICK r : r = result'
      OBVIOUS
    <3>4. Longest(r)'
      BY <1>5, <3>1, <3>3
    <3>. QED
      BY <3>2, <3>3, <3>4 DEF Longest, Equal
  <2>. QED
    BY <1>5, <2>1 DEF MatchInv
<1>6. CASE now < limit /\ Match!Zero(x) /\ i' = i + n /\ ppc' = next
  <2>1. now = bits * (i + n)
    BY <1>0, <1>1, <1>4, <1>6 DEF m
  <2>2. MatchTyped'
    BY MatchFrame
  <2>3. Equal(prefixlen)'
    <3>1. PICK r : r = now
      OBVIOUS
    <3>2. Equal(r)'
      BY <1>4, <3>1, MatchFrame
    <3>. QED
      BY <1>2, <3>1, <3>2 DEF Equal
  <2>4. Matching'
    BY <1>0, <1>2, <1>3, <1>6, <2>1, <2>3 DEF Matching
  <2>5. ppc' = "byte" => psize' < i' + 2
    BY <1>0, <1>3, <1>6
  <2>. QED
    BY <1>6, <2>2, <2>4, <2>5 DEF MatchInv
<1>. QED
  BY <1>2, <1>4, <1>5, <1>6

\* Every step of longest_prefix_match() keeps the invariant.
LEMMA MatchStep == MatchInv /\ Match!Next => MatchInv'
<1>. SUFFICES ASSUME MatchInv, Match!Next  PROVE  MatchInv'
  OBVIOUS
<1>1. UNCHANGED MatchVar
  BY DEF Match!Next, Match!WordStep, Match!HalfStep, Match!ByteStep, MatchVar
<1>2. MatchTyped /\ bits' = bits /\ psize' = psize /\ limit' = limit /\ psize \in Nat
  BY <1>1 DEF MatchInv, MatchTyped, MatchVar
<1>3. ppc # "done" /\ Matching /\ i \in Nat /\ (i # 0 => prefixlen < limit) /\ i <= psize
  BY DEF Match!Next, Match!WordStep, Match!HalfStep, Match!ByteStep, MatchInv, Matching
<1>4. ASSUME NEW next \in {"half", "byte"}, Match!Skip(next), next = "half" => psize < i + 4, next = "byte" => psize < i + 2
      PROVE  MatchInv'
  <2>1. ppc' = next /\ i' = i /\ prefixlen' = prefixlen
    BY <1>4 DEF Match!Skip
  <2>2. MatchTyped'
    BY <1>1, <1>2, MatchFrame
  <2>3. Equal(prefixlen)'
    <3>1. PICK r : r = prefixlen
      OBVIOUS
    <3>2. Equal(r)'
      BY <1>1, <1>3, <3>1, MatchFrame DEF Matching
    <3>. QED
      BY <2>1, <3>1, <3>2 DEF Equal
  <2>4. Matching'
    BY <1>2, <1>3, <2>1, <2>3 DEF Matching
  <2>. QED
    BY <1>2, <1>4, <2>1, <2>2, <2>4 DEF MatchInv
<1>5. CASE Match!WordStep
  <2>1. CASE psize >= i + 4
    <3>1. Match!Compare(4, "words")
      BY <1>5, <2>1 DEF Match!WordStep
    <3>. QED
      BY <1>1, <1>2, <1>3, <2>1, <3>1, CompareKeeps
  <2>2. CASE ~(psize >= i + 4)
    <3>1. Match!Skip("half")
      BY <1>5, <2>2 DEF Match!WordStep
    <3>. QED
      BY <1>2, <1>3, <1>4, <2>2, <3>1
  <2>. QED
    BY <2>1, <2>2
<1>6. CASE Match!HalfStep
  <2>0. psize < i + 4
    BY <1>6 DEF Match!HalfStep, MatchInv
  <2>1. CASE psize >= i + 2
    <3>1. Match!Compare(2, "byte")
      BY <1>6, <2>1 DEF Match!HalfStep
    <3>2. psize < i + 2 + 2
      BY <1>2, <1>3, <2>0
    <3>. QED
      BY <1>1, <1>2, <1>3, <2>1, <3>1, <3>2, CompareKeeps
  <2>2. CASE ~(psize >= i + 2)
    <3>1. Match!Skip("byte")
      BY <1>6, <2>2 DEF Match!HalfStep
    <3>. QED
      BY <1>2, <1>3, <1>4, <2>2, <3>1
  <2>. QED
    BY <2>1, <2>2
<1>7. CASE Match!ByteStep
  <2>0. psize < i + 2 /\ ppc' = "done"
    BY <1>7 DEF Match!ByteStep, Match!Return, MatchInv
  <2>1. psize >= i + 1
    <3>1. ASSUME psize = i  PROVE  FALSE
      <4>1. i # 0 /\ limit \in Nat /\ limit <= bits * psize /\ prefixlen = bits * i
        BY <1>2, <1>3, <3>1 DEF MatchTyped, Matching
      <4>2. prefixlen < limit /\ limit <= prefixlen /\ prefixlen \in Int
        BY <1>2, <1>3, <3>1, <4>1 DEF MatchTyped
      <4>. QED
        BY <4>1, <4>2
    <3>. QED
      BY <1>2, <1>3, <3>1
  <2>. DEFINE x == xor[i]
              m == bits * 1
              now == prefixlen + Match!Matched(1, x)
  <2>2. result' = IF now >= limit THEN limit ELSE now
    BY <1>7, <2>1 DEF Match!ByteStep, Match!Return
  <2>3. bits \in Nat \ {0} /\ m = bits /\ i \in 0..(psize - 1) /\ prefixlen = bits * i /\ prefixlen \in Nat
    BY <1>2, <1>3, <2>1 DEF MatchTyped, Matching
  <2>4. x \in [0..(bits - 1) -> 0..1]
    BY <1>2, <2>3 DEF MatchTyped
  <2>5. ASSUME NEW b \in 0..(bits - 1)  PROVE  x[b] = Match!DiffBit(prefixlen + bits - 1 - b)
    <3>. DEFINE t == prefixlen + bits - 1 - b
                r == bits - 1 - b
    <3>1. t \in Int /\ i \in Int /\ bits \in Nat \ {0} /\ r \in 0 .. bits - 1 /\ t = bits * i + r
      BY <2>3
    <3>. HIDE DEF t, r
    <3>2. t \div bits = i /\ t % bits = r
      BY ONLY <3>1, DivModIs
    <3>3. bits - 1 - r = b
      BY <2>3 DEF r
    <3>. QED
      BY <3>2, <3>3 DEF Match!DiffBit, t
  <2>. HIDE DEF x
  <2>6. /\ now \in Nat /\ (Match!Zero(x) => now = prefixlen + bits)
        /\ (now >= limit => Longest(limit)) /\ (now < limit /\ ~Match!Zero(x) => Longest(now))
    <3>1. m \in Nat /\ x \in [0..(m - 1) -> 0..1] /\ \A b \in 0..(m - 1) : x[b] = Match!DiffBit(prefixlen + m - 1 - b)
      BY <2>3, <2>4, <2>5
    <3>2. m = bits * 1 /\ 1 \in Nat \ {0}
      OBVIOUS
    <3>. HIDE DEF m
    <3>3. /\ now \in Nat /\ (Match!Zero(x) => now = prefixlen + m)
          /\ (now >= limit => Longest(limit)) /\ (now < limit /\ ~Match!Zero(x) => Longest(now))
      BY <1>2, <1>3, <3>1, <3>2, ComparedIs
    <3>. QED
      BY <2>3, <3>3
  <2>. HIDE DEF now, m
  <2>7. Match!Zero(x) => now >= limit
    <3>1. limit \in Nat /\ limit <= bits * psize
      BY <1>2 DEF MatchTyped
    <3>2. psize = i + 1
      BY <1>2, <1>3, <2>0, <2>1
    <3>3. bits * (i + 1) = prefixlen + bits
      BY <1>3, <2>3
    <3>. QED
      BY <2>3, <2>6, <3>1, <3>2, <3>3
  <2>8. Longest(result')
    BY <1>2, <2>2, <2>6, <2>7 DEF MatchTyped
  <2>9. Longest(result)'
    <3>1. PICK r : r = result'
      OBVIOUS
    <3>2. Longest(r)'
      BY <1>1, <2>8, <3>1, MatchFrame
    <3>. QED
      BY <3>1, <3>2 DEF Longest, Equal
  <2>. QED
    BY <1>1, <1>2, <2>0, <2>9, MatchFrame DEF MatchInv
<1>. QED
  BY <1>5, <1>6, <1>7 DEF Match!Next

\* longest_prefix_match() begins with the invariant.
LEMMA MatchInitially == Match!Init => MatchInv
<1>. SUFFICES ASSUME Match!Init  PROVE  MatchInv
  OBVIOUS
<1>1. PICK s \in Shape :
        /\ bits = s[1] /\ psize = s[2]
        /\ xor \in [0..(s[2] - 1) -> [0..(s[1] - 1) -> 0..1]]
        /\ limit \in {Match!Lesser(node, key) : node, key \in 0..(s[1] * s[2])}
  BY DEF Match!Init
<1>2. bits \in Nat \ {0} /\ psize \in Nat \ {0}
  BY <1>1, PartsAssumption DEF Match!ShapeAssumption
<1>3. PICK node \in 0..(bits * psize), key \in 0..(bits * psize) : limit = Match!Lesser(node, key)
  BY <1>1
<1>4. limit \in Nat /\ limit <= bits * psize
  BY <1>2, <1>3 DEF Match!Lesser
<1>5. ppc = "words" /\ i = 0 /\ prefixlen = 0
  BY DEF Match!Init
<1>6. MatchTyped
  BY <1>1, <1>2, <1>4 DEF MatchTyped
<1>7. Matching
  BY <1>2, <1>5 DEF Matching, Equal
<1>. QED
  BY <1>5, <1>6, <1>7 DEF MatchInv

\* A length that satisfies Longest is the common prefix.
LEMMA MatchGives == MatchInv => Match!MatchIsLongest
<1>. SUFFICES ASSUME MatchInv, ppc = "done"  PROVE  result = Match!CommonPrefix
  BY DEF Match!MatchIsLongest
<1>. DEFINE S == {l \in 0..limit : \A j \in 0..(l - 1) : Match!DiffBit(j) = 0}
<1>1. Longest(result) /\ limit \in Nat
  BY DEF MatchInv, MatchTyped
<1>2. S \subseteq Int /\ result \in S
  BY <1>1 DEF Longest, Equal
<1>3. ASSUME NEW y \in S  PROVE  result >= y
  <2>1. y \in Nat /\ result \in Nat /\ y <= limit /\ \A j \in 0..(y - 1) : Match!DiffBit(j) = 0
    BY <1>1 DEF Longest
  <2>2. ASSUME result < y  PROVE  FALSE
    <3>1. result \in 0..(y - 1) /\ result # limit
      BY <1>1, <2>1, <2>2
    <3>. QED
      BY <1>1, <2>1, <3>1 DEF Longest
  <2>. QED
    BY <2>1, <2>2
<1>4. Match!CommonPrefix = Match!Max(S)
  BY DEF Match!CommonPrefix
<1>. HIDE DEF S
<1>. QED
  BY <1>2, <1>3, <1>4, MatchMax

\* The match part moves by its own steps only.
MatchSafe == part = "match" => MatchInv

LEMMA MatchSafeNext == MatchSafe /\ [PartsNext]_allVars => MatchSafe'
<1>. SUFFICES ASSUME MatchSafe, [PartsNext]_allVars, part' = "match"  PROVE  MatchInv'
  BY DEF MatchSafe
<1>1. MatchInv /\ (Match!Next \/ UNCHANGED matchVars)
  BY DEF MatchSafe, PartsNext, allVars
<1>2. CASE UNCHANGED matchVars
  BY <1>1, <1>2 DEF matchVars, MatchInv, MatchTyped, Matching, Longest, Equal, Match!DiffBit
<1>. QED
  BY <1>1, <1>2, MatchStep

\* longest_prefix_match() of lpm_trie.c, for every width of a byte and every size of the data:
\* the word-wise loop with its half word, last byte and byte swaps returns the number of
\* leading bits that node and key share, up to the shorter prefix.
THEOREM WordMatchIsLongest == PartsSpec => []MatchIsLongest
<1>1. PartsInit => MatchSafe
  BY MatchInitially DEF PartsInit, MatchSafe
<1>2. MatchSafe => MatchIsLongest
  BY MatchGives DEF MatchSafe, MatchIsLongest
<1>. QED
  BY <1>1, <1>2, MatchSafeNext, PTL DEF PartsSpec
=============================================================================
