--------------------------- MODULE MCRedBlackTree ---------------------------
(* Instances of RedBlackTree for TLC. *)
EXTENDS TreeProperties

\* The tree without the names of its blocks.  The code only compares indices for
\* equality and the caller may offer any free block, so states with the same shape
\* behave alike.  Parent links are shown by whether they are the right ones.
Shape ==
    LET Marks(i) == << i = tree.max, i = repair.at, i = repair.parent >>
        shape[i \in Links, parent \in Links, fuel \in 0 .. Size] ==
            IF i = NIL \/ fuel = 0 THEN << >>
            ELSE << tree.node[i].value, tree.node[i].color, tree.node[i].parent = parent, Marks(i),
                    shape[tree.node[i].left, i, fuel - 1],
                    shape[tree.node[i].right, i, fuel - 1] >>
    IN  << shape[tree.root, NIL, Size], tree.max = NIL, Cardinality(used), repair.op >>

=============================================================================
