---------------------------- MODULE InsertionMap ----------------------------
(***************************************************************************)
(* jive/insertion_map.h.  The entries are kept in a std::map whose keys    *)
(* (OrderedKey) compare by the position at which they were inserted, so    *)
(* that the map cannot tell that two keys are the same: InsertionMap looks *)
(* for the key among all entries first.                                    *)
(***************************************************************************)
EXTENDS Naturals, Sequences, FiniteSets

CONSTANTS
    Key, Value,
    Default,    \* the value of T()
    MaxIndex    \* bound on insertionIndex_

VARIABLES
    map_,               \* a function from sortOrder_ to key_ and value
    insertionIndex_,
    returned            \* what the last call returned

vars == <<map_, insertionIndex_, returned>>

Init ==
    /\ map_ = <<>>
    /\ insertionIndex_ = 0
    /\ returned = <<"nothing">>

\* Find compares key_, entry by entry; {} is end().
Find(k) == {i \in DOMAIN map_ : map_[i].key = k}

\* count
Count(k) ==
    /\ returned' = <<"count", Cardinality(Find(k))>>
    /\ UNCHANGED <<map_, insertionIndex_>>

\* at: a reference to the value, which the caller may assign to.
At(k, v) ==
    /\ IF Find(k) = {}
       THEN returned' = <<"out_of_range", k>> /\ UNCHANGED map_
       ELSE \E i \in Find(k) :
            /\ returned' = <<"reference", k>>
            /\ map_' = [map_ EXCEPT ![i].value = v]
    /\ UNCHANGED insertionIndex_

\* std::map::insert and operator[] with a new OrderedKey: they leave an entry
\* of equal order alone.
Emplace(order, k, v) ==
    IF order \in DOMAIN map_ THEN map_
    ELSE [i \in DOMAIN map_ \cup {order} |->
            IF i = order THEN [key |-> k, value |-> v] ELSE map_[i]]

\* Mutant of NextIndex: the position is not counted up.
IndexStays(i) == i
NextIndex(i) == i + 1

\* operator[] of a key that is not there; otherwise it does what At does.
Subscript(k) ==
    /\ insertionIndex_ < MaxIndex
    /\ Find(k) = {}
    /\ map_' = Emplace(insertionIndex_, k, Default)
    /\ insertionIndex_' = NextIndex(insertionIndex_)
    /\ returned' = <<"reference", k>>

\* insert
Insert(k, v) ==
    /\ insertionIndex_ < MaxIndex
    /\ IF Find(k) # {}
       THEN returned' = <<"exists", k>> /\ UNCHANGED <<map_, insertionIndex_>>
       ELSE /\ map_' = Emplace(insertionIndex_, k, v)
            /\ insertionIndex_' = NextIndex(insertionIndex_)
            /\ returned' = <<"inserted", k>>

\* No memory for the new node: the position was counted up before.
InsertThrows(k) ==
    /\ insertionIndex_ < MaxIndex
    /\ Find(k) = {}
    /\ insertionIndex_' = NextIndex(insertionIndex_)
    /\ returned' = <<"bad_alloc", k>>
    /\ UNCHANGED map_

Next ==
    \E k \in Key :
        \/ Count(k) \/ Subscript(k) \/ InsertThrows(k)
        \/ \E v \in Value : At(k, v) \/ Insert(k, v)

Spec == Init /\ [][Next]_vars

-----------------------------------------------------------------------------
\* begin() to end(): the entries by their order.
Rank(i) == Cardinality({j \in DOMAIN map_ : j <= i})
Entries ==
    [n \in 1 .. Cardinality(DOMAIN map_) |->
        map_[CHOOSE i \in DOMAIN map_ : Rank(i) = n]]

\* Iteration finds the entries in the order in which their keys were added,
\* each key once, and nothing but a caller's assignment changes an entry: a
\* key that is there already is not added again or moved, a failed insert
\* leaves no gap or trace, and what a call returns is what it did.
Ordered == INSTANCE OrderedMap WITH entries <- Entries
ImplementsOrderedMap == Ordered!Spec
=============================================================================
