---------------------------- MODULE RecencyList ----------------------------
(***************************************************************************)
(* What a least-recently-used cache promises, without nodes, pointers and  *)
(* the lookup map: at most MaxSize entries, one for each key, in the order *)
(* of their last use; a new entry at the limit pushes out the oldest.      *)
(***************************************************************************)
EXTENDS Naturals, Sequences

CONSTANTS Key, Value, MaxSize

VARIABLE entries    \* sequence of [key, value], least recently used first

Holds(k) == \E i \in DOMAIN entries : entries[i].key = k

Init == entries = <<>>

Put(k, v) ==
    /\ ~Holds(k)
    /\ entries' = Append(IF Len(entries) >= MaxSize THEN Tail(entries) ELSE entries,
                         [key |-> k, value |-> v])

Get(i) ==
    entries' = [j \in DOMAIN entries |->
                   IF j < i THEN entries[j]
                   ELSE IF j < Len(entries) THEN entries[j + 1] ELSE entries[i]]

Next ==
    \/ \E k \in Key, v \in Value : Put(k, v)
    \/ \E i \in DOMAIN entries : Get(i)

Spec == Init /\ [][Next]_entries
=============================================================================
