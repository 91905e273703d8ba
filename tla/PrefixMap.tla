----------------------------- MODULE PrefixMap ------------------------------
(***************************************************************************)
(* What an LPM map promises: a bounded map from prefixes to values with    *)
(* the update flags of BPF maps.  A call that fails changes nothing, and   *)
(* an error names its cause; ENOMEM may answer any update.                 *)
(***************************************************************************)
EXTENDS Integers, FiniteSets

CONSTANTS Prefix,      \* the prefixes a key can name
          Value,       \* the values
          None,        \* no entry
          MaxEntries   \* map.max_entries

VARIABLES entries,     \* the value of every prefix, or None
          ret          \* what the last call returned

Stored == {p \in Prefix : entries[p] # None}
Full == Cardinality(Stored) = MaxEntries

Init == entries = [p \in Prefix |-> None] /\ ret = "ok"

\* An update: of a stored prefix unless NOEXIST, of a new one unless EXIST.
Put ==
  /\ ret' = "ok"
  /\ \E p \in IF Full THEN Stored ELSE Prefix, v \in Value :
       entries' = [entries EXCEPT ![p] = v]

Remove ==
  /\ ret' = "ok"
  /\ entries' \in {[entries EXCEPT ![p] = None] : p \in Stored}

\* A call that fails has the reason it gives.
Refuse ==
  /\ \/ ret' = "EEXIST" /\ Stored # {}
     \/ ret' = "ENOENT" /\ Stored # Prefix
     \/ ret' = "ENOSPC" /\ Full
     \/ ret' \in {"ENOMEM", "EINVAL"}
  /\ UNCHANGED entries

Next == Put \/ Remove \/ Refuse

Spec == Init /\ [][Next]_<<entries, ret>>
=============================================================================
