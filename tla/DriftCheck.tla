------------------------------ MODULE DriftCheck ------------------------------
(***************************************************************************)
(* scripts/check_shim_drift.py: the functions copied into a shim are       *)
(* looked up in the shim and in the kernel file and compared. A file is a  *)
(* sequence of top-level items (a prototype, a definition, another         *)
(* function that calls this one); the script sees only their tokens, with  *)
(* comments already stripped.                                              *)
(***************************************************************************)
EXTENDS Integers, Sequences, FiniteSets

CONSTANTS
  ShimFiles, KernelFiles,   \* files: sequences of items, records of kind, fn, body and tokens
  NoFile,       \* a kernel file that is not there
  SHIM_COPIES   \* sequence of pairs [shim, kernel, exact]

VARIABLES
  ksrc,         \* the kernel tree is there
  shim, kernel, \* the two files
  next,         \* the pair looked at next
  errors, drift, exit

vars == <<ksrc, shim, kernel, next, errors, drift, exit>>

Running == -1   \* no exit status yet

Init ==
  /\ ksrc \in BOOLEAN /\ shim \in ShimFiles /\ kernel \in KernelFiles
  /\ next = 1 /\ errors = 0 /\ drift = 0 /\ exit = Running

Tokens(file) ==
  LET upTo[n \in 0..Len(file)] == IF n = 0 THEN <<>> ELSE upTo[n - 1] \o file[n].tokens
  IN upTo[Len(file)]

Count(s, i, k, t) == Cardinality({n \in i..k : s[n] = t})

\* Where the bracket opened at i closes; past the end if it does not.
Closes(s, i, open, close) ==
  LET ends == {k \in i..Len(s) : s[k] = close /\ Count(s, i, k, open) = Count(s, i, k, close)}
  IN IF ends = {} THEN Len(s) + 1 ELSE CHOOSE k \in ends : \A l \in ends : k <= l

\* The first token from i on that is not white space.
AfterBlank(s, i) == CHOOSE j \in i..Len(s) + 1 :
  /\ \A k \in i..j - 1 : s[k] = "blank"
  /\ j = Len(s) + 1 \/ s[j] # "blank"

\* Any occurrence with an argument list.
DefinedWithoutBody(s, m, name) ==
  s[m] = name /\ LET a == AfterBlank(s, m + 1) IN a <= Len(s) /\ s[a] = "("

\* The name at m, an argument list, then a body that ends; white space may stand between.
Defined(s, m, name) ==
  /\ s[m] = name
  /\ LET a == AfterBlank(s, m + 1)
         i == Closes(s, a, "(", ")")
         j == IF i > Len(s) THEN i ELSE AfterBlank(s, i + 1)
     IN /\ a <= Len(s) /\ s[a] = "("
        /\ j <= Len(s) /\ s[j] = "{"
        /\ Closes(s, j, "{", "}") <= Len(s)

\* The first definition, the name and then the text from its "(" on; <<>> if there is none.
extract_function(s, name) ==
  LET defs == {m \in 1..Len(s) : Defined(s, m, name)}
  IN IF defs = {} THEN <<>>
     ELSE LET m == CHOOSE m \in defs : \A n \in defs : m <= n
              a == AfterBlank(s, m + 1)
              i == Closes(s, a, "(", ")")
              j == IF i > Len(s) THEN i ELSE AfterBlank(s, i + 1)
              k == IF j > Len(s) THEN Len(s) ELSE Closes(s, j, "{", "}")
          IN <<name>> \o SubSeq(s, a, IF k > Len(s) THEN Len(s) ELSE k)

FN_ATTRS == {"__always_inline", "noinline", "static", "inline"}

\* The shim's name becomes the kernel's and an attribute a blank; of the white space one
\* blank stays between two tokens, none after a ; { or } and none at the ends.
normalize(body, from, to) ==
  LET b == [n \in DOMAIN body |-> IF body[n] = from THEN to
                                  ELSE IF body[n] \in FN_ATTRS THEN "blank" ELSE body[n]]
      stays(n) == \/ b[n] # "blank"
                  \/ /\ n > 1 /\ b[n - 1] \notin {"blank", ";", "{", "}"}
                     /\ \E k \in n + 1..Len(b) : b[k] # "blank"
      kept == SelectSeq([n \in DOMAIN b |-> n], stays)
  IN [n \in DOMAIN kept |-> b[kept[n]]]

-----------------------------------------------------------------------------
(* What a C file is. *)

\* The bracket at i is closed by the one at k.
Pair(s, i, k, open, close) ==
  /\ i < k /\ s[i] = open /\ s[k] = close
  /\ Count(s, i, k, open) = Count(s, i, k, close)
  /\ \A l \in i..k - 1 : Count(s, i, l, open) > Count(s, i, l, close)

\* The items follow each other: a definition begins with its name, what stands before the
\* name (storage class, return type) belongs to the item before.
Item == [kind : {"definition", "prototype", "caller"}, fn : STRING, body : STRING,
         tokens : Seq(STRING)]

Defines(it, fn) == it.kind = "definition" /\ it.fn = fn

\* j is the first token behind i that is not white space.
Follows(s, i, j) == i < j /\ s[j] # "blank" /\ \A k \in i + 1..j - 1 : s[k] = "blank"

\* The name at m has an argument list from a to i; behind it comes the body, which ends the
\* item, if the item defines the name, and else no bracket: a prototype or a call.
Applied(it, m, a, i) ==
  LET s == it.tokens
  IN  /\ Pair(s, a, i, "(", ")")
      /\ \E j \in i + 1..Len(s) :
           /\ Follows(s, i, j)
           /\ IF m = 1 /\ Defines(it, s[m]) THEN s[j] = "{" /\ Pair(s, j, Len(s), "{", "}")
              ELSE s[j] # "{"

\* A definition starts with the name it defines; no name ends an item, and a name with a
\* bracket behind it is applied.
WellFormed(it, names) ==
  LET s == it.tokens
  IN  /\ it.kind = "definition" /\ it.fn \in names =>
           Len(s) > 0 /\ s[1] = it.fn /\ \E a \in 2..Len(s) : Follows(s, 1, a) /\ s[a] = "("
      /\ \A m \in 1..Len(s) : s[m] \in names =>
           \E a \in m + 1..Len(s) :
             /\ Follows(s, m, a)
             /\ s[a] = "(" => \E i \in a + 1..Len(s) : Applied(it, m, a, i)

\* The items of a file, read with these names in mind.
IsFile(file, names) == file \in Seq(Item) /\ \A n \in 1..Len(file) : WellFormed(file[n], names)

\* A definition without the white space behind its name, which extract_function() drops.
Text(it) == <<it.tokens[1]>> \o SubSeq(it.tokens, AfterBlank(it.tokens, 2), Len(it.tokens))

\* Two bodies are the same if normalize() makes them the same.
SameBody(s, k, pair) ==
  s.body = k.body <=> normalize(Text(s), pair.shim, pair.kernel) = normalize(Text(k), pair.kernel, pair.kernel)

ItemsOf(files) == UNION {{file[n] : n \in 1..Len(file)} : file \in files}

DriftAssumption ==
  /\ SHIM_COPIES \in Seq([shim : STRING, kernel : STRING, exact : BOOLEAN]) /\ SHIM_COPIES # <<>>
  /\ \A file \in ShimFiles : IsFile(file, {SHIM_COPIES[n].shim : n \in 1..Len(SHIM_COPIES)})
  /\ \A file \in KernelFiles \ {NoFile} : IsFile(file, {SHIM_COPIES[n].kernel : n \in 1..Len(SHIM_COPIES)})
  /\ \A n \in 1..Len(SHIM_COPIES), s \in ItemsOf(ShimFiles), k \in ItemsOf(KernelFiles \ {NoFile}) :
       LET pair == SHIM_COPIES[n]
       IN  pair.exact /\ Defines(s, pair.shim) /\ Defines(k, pair.kernel) => SameBody(s, k, pair)
-----------------------------------------------------------------------------
NoTree ==
  /\ exit = Running /\ next = 1 /\ ~ksrc
  /\ exit' = 0
  /\ UNCHANGED <<ksrc, shim, kernel, next, errors, drift>>

NoCounterpart ==
  /\ exit = Running /\ next = 1 /\ ksrc /\ kernel = NoFile
  /\ errors' = errors + 1 /\ next' = Len(SHIM_COPIES) + 1
  /\ UNCHANGED <<ksrc, shim, kernel, drift, exit>>

Judge(pair, shim_body, kernel_body) ==
  IF shim_body = <<>> \/ kernel_body = <<>> THEN "error"
  ELSE IF normalize(shim_body, pair.shim, pair.kernel) = normalize(kernel_body, pair.kernel, pair.kernel)
  THEN "same" ELSE IF pair.exact THEN "error" ELSE "drift"

ComparePair ==
  /\ exit = Running /\ ksrc /\ kernel # NoFile /\ next <= Len(SHIM_COPIES)
  /\ LET pair == SHIM_COPIES[next]
         verdict == Judge(pair, extract_function(Tokens(shim), pair.shim),
                                extract_function(Tokens(kernel), pair.kernel))
     IN /\ errors' = IF verdict = "error" THEN errors + 1 ELSE errors
        /\ drift' = IF verdict = "drift" THEN drift + 1 ELSE drift
  /\ next' = next + 1
  /\ UNCHANGED <<ksrc, shim, kernel, exit>>

Report ==
  /\ exit = Running /\ ksrc /\ next > Len(SHIM_COPIES)
  /\ exit' = IF errors # 0 THEN 1 ELSE 0
  /\ UNCHANGED <<ksrc, shim, kernel, next, errors, drift>>

Done == exit # Running /\ UNCHANGED vars

Next == NoTree \/ NoCounterpart \/ ComparePair \/ Report \/ Done

Spec == Init /\ [][Next]_vars
-----------------------------------------------------------------------------
\* The items of a file that define fn, and the first of them.
Definitions(file, fn) == {n \in 1..Len(file) : Defines(file[n], fn)}
FirstOf(file, fn) == file[CHOOSE n \in Definitions(file, fn) : \A l \in Definitions(file, fn) : n <= l]

(* extract_function() finds a definition exactly where the file has one, and all *)
(* of it: neither a prototype nor a call in another function is taken for it.    *)
FindsDefinition ==
  ksrc /\ kernel # NoFile =>
  \A n \in 1..next - 1 :
    LET fn == SHIM_COPIES[n].shim
    IN  extract_function(Tokens(shim), fn) =
          IF Definitions(shim, fn) = {} THEN <<>> ELSE Text(FirstOf(shim, fn))

(* With a kernel tree, exit status 0 means that every copied function is still   *)
(* defined in both files and that the exact copies have the kernel's body; a     *)
(* status of 1 means that one of these fails.                                    *)
StatusExact ==
  exit # Running /\ ksrc =>
    (exit = 0 <=>
       /\ kernel # NoFile
       /\ \A n \in 1..Len(SHIM_COPIES) :
            LET pair == SHIM_COPIES[n]
            IN  /\ Definitions(shim, pair.shim) # {} /\ Definitions(kernel, pair.kernel) # {}
                /\ pair.exact => FirstOf(shim, pair.shim).body = FirstOf(kernel, pair.kernel).body)
=============================================================================
