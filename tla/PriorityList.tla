---------------------------- MODULE PriorityList ----------------------------
(***************************************************************************)
(* What a hypertree promises to its callers (lib/src/hypertree.rs): a      *)
(* collection of values, each in the block its caller chose, kept in       *)
(* priority order.  The last entry is the maximum, the best order of a     *)
(* bookside.  Among equal keys the earliest inserted is nearest to the     *)
(* maximum: price, then time.                                              *)
(***************************************************************************)
EXTENDS Integers, SequencesExt

CONSTANTS
    Index,    \* blocks
    Values    \* payloads, ordered by their field "key" alone

VARIABLE list    \* the entries [index, value], the maximum last

Entries == [index : Index, value : Values]

Held == {list[k].index : k \in 1 .. Len(list)}

Init == list = << >>

\* A new entry goes above every smaller key and below every equal or larger one.
Insert(index, value) ==
    /\ index \notin Held
    /\ \E smaller \in 0 .. Len(list) :
        /\ \A k \in 1 .. Len(list) : list[k].value.key < value.key <=> k <= smaller
        /\ list' = InsertAt(list, smaller + 1, [index |-> index, value |-> value])

Delete(index) ==
    \E k \in 1 .. Len(list) :
        /\ list[k].index = index
        /\ list' = RemoveAt(list, k)

Next ==
    \/ \E index \in Index, value \in Values : Insert(index, value)
    \/ \E index \in Index : Delete(index)

Spec == Init /\ [][Next]_list

=============================================================================
