----------------------------- MODULE OrderedMap -----------------------------
(***************************************************************************)
(* What jive::InsertionMap promises: a sequence of entries with different  *)
(* keys.  A new key goes to the end, an entry keeps its place for ever,    *)
(* and callers can assign to its value.                                    *)
(***************************************************************************)
EXTENDS Sequences, SequencesExt

CONSTANTS Key, Value

VARIABLES entries, returned

Keys == {entries[i].key : i \in DOMAIN entries}

Init == entries = <<>> /\ returned = <<"nothing">>

Count(k) ==
    /\ returned' = <<"count", IF k \in Keys THEN 1 ELSE 0>>
    /\ UNCHANGED entries

At(k, v) ==
    \/ /\ \E i \in DOMAIN entries :
            entries[i].key = k /\ entries' = [entries EXCEPT ![i].value = v]
       /\ returned' = <<"reference", k>>
    \/ /\ k \notin Keys
       /\ returned' = <<"out_of_range", k>> /\ UNCHANGED entries

Add(k, v) ==
    /\ k \notin Keys
    /\ \/ /\ entries' = Append(entries, [key |-> k, value |-> v])
          /\ returned' \in {<<"inserted", k>>, <<"reference", k>>}
       \/ returned' = <<"bad_alloc", k>> /\ UNCHANGED entries

Keep(k) ==
    /\ k \in Keys
    /\ returned' = <<"exists", k>> /\ UNCHANGED entries

Next ==
    \E k \in Key :
        \/ Count(k) \/ Keep(k)
        \/ \E v \in Value : At(k, v) \/ Add(k, v)

Spec == Init /\ [][Next]_<<entries, returned>>
=============================================================================
