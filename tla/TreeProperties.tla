--------------------------- MODULE TreeProperties ---------------------------
(***************************************************************************)
(* What the red-black tree of RedBlackTree keeps true, between operations  *)
(* and inside the repair loops, and the priority list it implements.       *)
(***************************************************************************)
EXTENDS LinkedList, SequencesExt

\* The nodes in order, the smallest first.
InOrderOf(t) ==
    LET part[fuel \in 0 .. Size] == [i \in Links |->
            IF i = NIL \/ fuel = 0 THEN << >>
            ELSE part[fuel - 1][t.node[i].left] \o << i >> \o part[fuel - 1][t.node[i].right]]
    IN  part[Size][t.root]

InOrder == InOrderOf(tree)

List == [k \in 1 .. Len(InOrder) |->
            [index |-> InOrder[k], value |-> tree.node[InOrder[k]].value]]

Priority == INSTANCE PriorityList WITH list <- List

\* The tree is the priority list: linking or cutting a node changes the order as
\* one insertion or removal of the list does, with first-in-first-out among equal
\* keys, and no rotation, recoloring or transplant changes it.
ImplementsPriorityList == Priority!Spec

\* The nodes reachable from the root are the blocks in use, each reached once,
\* and every link down has the link up that belongs to it: removing any order by
\* its index, the climb of the iterator and the rotations rely on it, also in the
\* middle of a repair.  Root, maximum and the place under repair are among them
\* or none: no reference to a block that was given back is left.
LinksSound ==
    /\ used \subseteq Index
    /\ tree \in [root : used \cup {NIL}, max : used \cup {NIL}, node : [Index -> Nodes]]
    /\ repair \in {Done}
                    \cup [op : {"insert"}, at : used, parent : {NIL}]
                    \cup [op : {"remove"}, at : used \cup {NIL}, parent : used \cup {NIL}]
    /\ IsInjective(InOrder)
    /\ ToSet(InOrder) = used
    /\ tree.root # NIL => tree.node[tree.root].parent = NIL
    /\ \A i \in used, side \in {"left", "right"} :
        Child(tree, i, side) # NIL => Parent(tree, Child(tree, i, side)) = i

\* Black heights of the paths below a node, where the place that remove_fix is at
\* counts one more.
HeightsWithDebt ==
    LET height[fuel \in 0 .. Size] == [i \in Links |->
            IF i = NIL \/ fuel = 0 THEN {0}
            ELSE LET Debt(side) == IF /\ repair.op = "remove" /\ repair.parent = i
                                      /\ side = FixedSide
                                   THEN 1 ELSE 0
                     Below(side) == {h + Debt(side) : h \in height[fuel - 1][tree.node[i][side]]}
                     own == IF tree.node[i].color = "black" THEN 1 ELSE 0
                 IN  {h + own : h \in Below("left") \cup Below("right")}]
    IN  height[Size][tree.root]

\* The loop invariants of insert_fix and remove_fix: a red node has no red child
\* but for the node under repair after an insertion, the root is black unless it
\* is that node, and all paths have the same number of black nodes once the place
\* under repair after a removal counts one more.  Between operations this is what
\* keeps every walk logarithmic (verify_rb_tree).
BalancedUpToRepair ==
    /\ \A i \in used, side \in {"left", "right"} :
        Color(tree, i) = "red" /\ Color(tree, Child(tree, i, side)) = "red"
            => repair = Inserting(Child(tree, i, side))
    /\ Color(tree, tree.root) = "red" => repair = Inserting(tree.root)
    /\ Cardinality(HeightsWithDebt) = 1

\* The stored maximum, the best order of a bookside, is the last node in order at
\* every moment, and a tree that does not track it never starts to.
MaximumExact ==
    tree.max = IF TRACKS_MAX /\ used # {} THEN Last(InOrder) ELSE NIL

\* Walking the tree from its maximum by get_next_lower_index visits every node
\* once, from the best to the worst, and ends.
IterationComplete == repair = Done => Iteration(tree) = Reverse(InOrder)

\* lookup_index returns a node that equals the value, and never misses one with
\* exactly this value: seats and traders are found, and a reverse order coalesces
\* into the one its owner already has at the price.
LookupExact ==
    repair = Done => \A value \in Values :
        LET found == LookupIndex(tree, value)
        IN  /\ found # NIL => found \in used /\ Equal(tree.node[found].value, value)
            /\ (\E i \in used : tree.node[i].value = value) => found # NIL

\* The validation that clients run before they read an account accepts every tree
\* that the program leaves, booksides too: it says that equal values are deliberately
\* inserted on the left.
ValidationAccepts == repair = Done => IsValidTree(tree)

\* A tree can become a list at any time: the conversion in place, which destroys
\* the tree as it walks it, keeps every node, its value and the order; and the list
\* lives on in the blocks.  Whichever entry is removed, the block reused for the
\* next one and the head taken off, it passes its validation, walks as a list
\* should and finds a value if it has it.
ListTakesOver ==
    repair = Done =>
        LET list == Converted(tree)
            walk == Reverse(InOrder)
            Holds(l, indices) == IsValidList(l) /\ ListWalk(l) = indices
        IN  /\ Holds(list, walk)
            /\ \A i \in used : list.node[i].value = tree.node[i].value
            /\ \A i \in used, value \in Values :
                LET rest    == SelectSeq(walk, LAMBDA j : j # i)
                    removed == ListRemove(list, i)
                    added   == ListInsert(removed, i, value)
                IN  /\ Holds(removed, rest)
                    /\ Holds(added, <<i>> \o rest)
                    /\ ListLookup(added, value) = i
                    /\ Holds(ListRemove(added, i), rest)

Depth(i) ==
    LET climb[n \in 0 .. Size] == IF n = 0 THEN i ELSE Parent(tree, climb[n - 1])
    IN  Cardinality({n \in 0 .. Size : climb[n] # NIL})

\* Bounds the iterations a repair still needs.
Remaining ==
    CASE repair.op = "none" -> 0
      [] repair.op = "insert" -> Depth(repair.at)
      [] repair.op = "remove" ->
            IF Color(tree, repair.parent) = "red" THEN 0 ELSE 1 + Depth(repair.parent)

\* Each iteration of a repair ends it or brings it nearer to the root; the one
\* that moves away, at a red sibling, leaves a red parent, under which the next
\* iteration is the last.  So the loops end, within the height of the tree.
RepairClimbs ==
    [][repair # Done /\ repair' # Done => Remaining' < Remaining]_vars

=============================================================================
