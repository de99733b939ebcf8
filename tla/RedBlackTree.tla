---------------------------- MODULE RedBlackTree ----------------------------
(***************************************************************************)
(* The red-black tree that holds the booksides, the claimed seats and the  *)
(* traders and deposits of a global account (lib/src/red_black_tree.rs).   *)
(*                                                                         *)
(* Nodes live in blocks of an account and refer to each other by index.    *)
(* An operation is one step that links or cuts a node, followed by the     *)
(* iterations of the repair loop, insert_fix or remove_fix, each a step of *)
(* its own.  The values are ordered by a key alone; equality is finer (the *)
(* owner counts) and, up to TOLERANCE, coarser (RestingOrder::eq takes     *)
(* prices one increment apart as equal).                                   *)
(*                                                                         *)
(* The code has every case twice, once per side.  Here a side is a         *)
(* parameter: Across(side) is the other one.                               *)
(***************************************************************************)
EXTENDS Integers, Sequences, FiniteSets

CONSTANTS
    Index,        \* blocks of the account
    NIL,          \* the index of no block
    Keys,         \* what values are ordered by: prices, public keys, balances
    Owners,       \* what else equality looks at
    TOLERANCE,    \* keys this far apart can be equal
    TRACKS_MAX    \* whether the caller stores the maximum or passes NIL

ASSUME TreeAssumption ==
    /\ IsFiniteSet(Index)
    /\ NIL \notin Index
    /\ Keys \subseteq Int
    /\ TOLERANCE \in Nat
    /\ TRACKS_MAX \in BOOLEAN

Values == [key : Keys, owner : Owners]

Links == Index \cup {NIL}

Colors == {"red", "black"}

Nodes == [left : Links, right : Links, parent : Links, color : Colors, value : Values]

Size == Cardinality(Index)

VARIABLES
    tree,     \* root, max and the node in each block
    used,     \* the blocks the caller has put into the tree
    repair    \* the repair loop: op, the index it is at, and its parent

vars == << tree, used, repair >>

Done == [op |-> "none", at |-> NIL, parent |-> NIL]

Inserting(at) == [op |-> "insert", at |-> at, parent |-> NIL]

Removing(at, parent) == [op |-> "remove", at |-> at, parent |-> parent]

-----------------------------------------------------------------------------
(* Reading a tree.  NIL is black and has no relatives.                     *)

Above(a, b) == a.key > b.key

Equal(a, b) ==
    /\ a.owner = b.owner
    /\ a.key - b.key \in (- TOLERANCE) .. TOLERANCE

Color(t, i) == IF i = NIL THEN "black" ELSE t.node[i].color

Child(t, i, side) == IF i = NIL THEN NIL ELSE t.node[i][side]

Parent(t, i) == IF i = NIL THEN NIL ELSE t.node[i].parent

Across(side) == IF side = "left" THEN "right" ELSE "left"

IsInternal(t, i) == t.node[i].left # NIL /\ t.node[i].right # NIL

\* The end of the path from i that keeps to one side.
Outermost(t, i, side) ==
    LET walk[n \in 0 .. Size] ==
            IF n = 0 THEN i
            ELSE LET j == walk[n - 1]
                 IN  IF Child(t, j, side) = NIL THEN j ELSE Child(t, j, side)
    IN  walk[Size]

\* Mutant: one step to the right.
LookupMaxOneStep(t) ==
    IF Child(t, t.root, "right") = NIL THEN t.root ELSE Child(t, t.root, "right")

LookupMaxIndex(t) == Outermost(t, t.root, "right")

\* The predecessor: the maximum of the left subtree, else the parent of the
\* first ancestor that is not a left child.
GetNextLowerIndex(t, i) ==
    LET climb[n \in 0 .. Size] ==
            IF n = 0 THEN i
            ELSE LET j == climb[n - 1]
                 IN  IF j # t.root /\ Child(t, Parent(t, j), "left") = j THEN Parent(t, j) ELSE j
    IN  CASE i = NIL -> NIL
          [] i # NIL /\ t.node[i].left # NIL -> Outermost(t, t.node[i].left, "right")
          [] i # NIL /\ t.node[i].left = NIL ->
                IF climb[Size] = t.root THEN NIL ELSE Parent(t, climb[Size])

\* The iterator over values, from the maximum downwards.
Iteration(t) ==
    LET first == IF t.max # NIL THEN t.max ELSE LookupMaxIndex(t)
        visit[n \in Nat] == IF n = 0 THEN first ELSE GetNextLowerIndex(t, visit[n - 1])
        length == CHOOSE n \in 0 .. Size + 1 :
                    (n = Size + 1 \/ visit[n] = NIL) /\ \A k \in 0 .. n - 1 : visit[k] # NIL
    IN  [k \in 1 .. length |-> visit[k - 1]]

\* Mutant: only the left one of two subtrees.
FirstFoundLeft(left, right) == left

FirstFound(left, right) == IF left # NIL THEN left ELSE right

\* lookup_index: equality is asked before the order, and where the keys are the
\* same but the values are not, both subtrees are searched, the left one first.
LookupIndex(t, value) ==
    LET search[fuel \in 0 .. Size] == [i \in Links |->
            IF i = NIL \/ fuel = 0 THEN NIL
            ELSE LET v == t.node[i].value
                     InSide(side) == search[fuel - 1][t.node[i][side]]
                 IN  CASE Equal(v, value) -> i
                       [] ~ Equal(v, value) /\ Above(v, value) -> InSide("left")
                       [] ~ Equal(v, value) /\ Above(value, v) -> InSide("right")
                       [] ~ Equal(v, value) /\ v.key = value.key ->
                            FirstFound(InSide("left"), InSide("right"))]
    IN  search[Size][t.root]

\* validate_red_black_tree, which clients run before they read a tree: links,
\* order with equal keys on the left, colors, black heights and the maximum.
BlackHeight(t, i) ==
    LET height[j \in Links, fuel \in 0 .. Size] ==
            IF j = NIL \/ fuel = 0 THEN {0}
            ELSE {h + (IF t.node[j].color = "black" THEN 1 ELSE 0) :
                    h \in height[t.node[j].left, fuel - 1] \cup height[t.node[j].right, fuel - 1]}
    IN  height[i, Size]

IsValidTree(t) ==
    LET valid[i, parent, lower, upper \in Links, seen \in SUBSET Index] ==
            i # NIL =>
                LET node == t.node[i]
                IN  /\ i \notin seen
                    /\ node.parent = parent
                    /\ lower # NIL => Above(node.value, t.node[lower].value)
                    /\ upper # NIL => ~ Above(node.value, t.node[upper].value)
                    /\ node.color = "red" => /\ Color(t, node.left) = "black"
                                             /\ Color(t, node.right) = "black"
                    /\ valid[node.left, i, lower, i, seen \cup {i}]
                    /\ valid[node.right, i, i, upper, seen \cup {i}]
    IN  IF t.root = NIL THEN t.max = NIL
        ELSE /\ valid[t.root, NIL, NIL, NIL, {}]
             /\ Cardinality(BlackHeight(t, t.root)) = 1
             /\ t.max \in {NIL, LookupMaxIndex(t)}

-----------------------------------------------------------------------------
(* Writing a tree.  Setting a field of NIL does nothing.                   *)

SetColor(t, i, color) == IF i = NIL THEN t ELSE [t EXCEPT !.node[i].color = color]

SetParent(t, i, parent) == IF i = NIL THEN t ELSE [t EXCEPT !.node[i].parent = parent]

\* The link to old, from its parent or from the root, becomes a link to new.
Relink(t, parent, old, new) ==
    IF parent = NIL
    THEN [t EXCEPT !.root = new]
    ELSE [t EXCEPT !.node[parent][IF t.node[parent].left = old THEN "left" ELSE "right"] = new]

\* Mutant: the grandchild that changes sides keeps its parent.
RotateOrphaning(t, g, side) ==
    LET far == Across(side)
        p == t.node[g][far]
        gg == t.node[g].parent
        turned == [t EXCEPT !.node[p].parent = gg, !.node[p][side] = g,
                            !.node[g].parent = p, !.node[g][far] = t.node[p][side]]
    IN  Relink(turned, gg, g, p)

\* rotate_left (side = "left") and rotate_right: g moves down to that side and
\* its child on the other takes its place.
Rotate(t, g, side) ==
    LET far == Across(side)
        p == t.node[g][far]
        gg == t.node[g].parent
        y == t.node[p][side]
        turned == [t EXCEPT !.node[p].parent = gg, !.node[p][side] = g,
                            !.node[g].parent = p, !.node[g][far] = y]
    IN  Relink(SetParent(turned, y, g), gg, g, p)

\* rotate_double: the inner child of the child p of g on this side becomes the
\* root of the subtree, with the given colors for it, for p and for g.
RotateDouble(t, g, side, middleColor, pColor, gColor) ==
    LET far == Across(side)
        p == t.node[g][side]
        middle == t.node[p][far]
        gg == t.node[g].parent
        toP == t.node[middle][side]
        toG == t.node[middle][far]
        turned == [t EXCEPT
            !.node[middle] = [@ EXCEPT !.color = middleColor, !.parent = gg,
                                       ![side] = p, ![far] = g],
            !.node[p] = [@ EXCEPT !.color = pColor, !.parent = middle, ![far] = toP],
            !.node[g] = [@ EXCEPT !.color = gColor, !.parent = middle, ![side] = toG]]
    IN  Relink(SetParent(SetParent(turned, toP, p), toG, g), gg, g, middle)

-----------------------------------------------------------------------------
(* Insertion                                                               *)

Leaf(value, parent, color) ==
    [left |-> NIL, right |-> NIL, parent |-> parent, color |-> color, value |-> value]

\* link_new_leaf: larger values go right; equal ones go left, so that the
\* earlier is nearer to the maximum.
Descend(t, value) ==
    LET Side(i) == IF Above(value, t.node[i].value) THEN "right" ELSE "left"
        walk[n \in 0 .. Size] ==
            IF n = 0 THEN t.root
            ELSE LET i == walk[n - 1]
                     child == Child(t, i, Side(i))
                 IN  IF child = NIL THEN i ELSE child
    IN  [parent |-> walk[Size], side |-> Side(walk[Size])]

\* Mutant: an equal value also takes the place of the maximum.
ReachesMax(t, value) == t.max # NIL /\ ~ Above(t.node[t.max].value, value)

ExceedsMax(t, value) == t.max # NIL /\ Above(value, t.node[t.max].value)

\* A value above the maximum is appended to it without a search, provided that
\* the place is free.
LeafPlace(t, value) ==
    IF ExceedsMax(t, value) /\ t.node[t.max].right = NIL
    THEN [parent |-> t.max, side |-> "right"]
    ELSE Descend(t, value)

Linked(t, index, value) ==
    LET place == LeafPlace(t, value)
    IN  [t EXCEPT !.max = IF ExceedsMax(t, value) THEN index ELSE @,
                  !.node = [@ EXCEPT ![place.parent][place.side] = index,
                                     ![index] = Leaf(value, place.parent, "red")]]

InsertRoot(index, value) ==
    /\ repair = Done
    /\ index \notin used
    /\ tree.root = NIL
    /\ tree' = [tree EXCEPT !.root = index,
                            !.max = IF TRACKS_MAX THEN index ELSE NIL,
                            !.node[index] = Leaf(value, NIL, "black")]
    /\ used' = used \cup {index}
    /\ UNCHANGED repair

InsertLeaf(index, value) ==
    /\ repair = Done
    /\ index \notin used
    /\ tree.root # NIL
    /\ tree' = Linked(tree, index, value)
    /\ used' = used \cup {index}
    /\ repair' = Inserting(index)

-----------------------------------------------------------------------------
(* insert_fix: the node is red and so may be its parent.                   *)

Fixed(t, next) ==
    /\ tree' = t
    /\ repair' = next
    /\ UNCHANGED used

FixParent == Parent(tree, repair.at)

FixGrandparent == Parent(tree, FixParent)

\* The side of its parent that the parent of the node is on.
FixSide == IF tree.node[FixGrandparent].left = FixParent THEN "left" ELSE "right"

FixUncle == tree.node[FixGrandparent][Across(FixSide)]

InsertFixRoot ==
    /\ repair.op = "insert"
    /\ LET top == IF tree.root = repair.at THEN repair.at ELSE FixParent
       IN  /\ top = repair.at \/ (Color(tree, top) = "red" /\ FixGrandparent = NIL)
           /\ Fixed(SetColor(tree, top, "black"), Done)

InsertFixNothing ==
    /\ repair.op = "insert"
    /\ tree.root # repair.at
    /\ Color(tree, FixParent) = "black"
    /\ Fixed(tree, Done)

NeedsInsertFix ==
    /\ repair.op = "insert"
    /\ tree.root # repair.at
    /\ Color(tree, FixParent) = "red"
    /\ FixGrandparent # NIL

InsertFixRecolor ==
    /\ NeedsInsertFix
    /\ Color(tree, FixUncle) = "red"
    /\ Fixed(SetColor(SetColor(SetColor(tree, FixParent, "black"), FixUncle, "black"),
                      FixGrandparent, "red"),
             Inserting(FixGrandparent))

\* The node is on the outer side of its parent.
InsertFixOuter ==
    /\ NeedsInsertFix
    /\ Color(tree, FixUncle) = "black"
    /\ tree.node[FixParent][FixSide] = repair.at
    /\ Fixed(SetColor(SetColor(Rotate(tree, FixGrandparent, Across(FixSide)),
                               FixGrandparent, Color(tree, FixParent)),
                      FixParent, Color(tree, FixGrandparent)),
             Done)

\* The node is on the inner side of its parent.
InsertFixInner ==
    /\ NeedsInsertFix
    /\ Color(tree, FixUncle) = "black"
    /\ tree.node[FixParent][FixSide] # repair.at
    /\ Fixed(RotateDouble(tree, FixGrandparent, FixSide, Color(tree, FixGrandparent),
                          Color(tree, FixParent), "red"),
             Done)

-----------------------------------------------------------------------------
(* Removal                                                                 *)

\* update_parent_child: a node with at most one child is cut out.
Spliced(t, index) ==
    LET node == t.node[index]
        child == IF node.left # NIL THEN node.left ELSE node.right
    IN  [tree |-> Relink(SetParent(t, child, node.parent), node.parent, index, child),
         child |-> child, parent |-> node.parent, color |-> node.color]

\* The parent of the place that the successor leaves.
RepairParent(t, index, next) ==
    IF t.node[next].parent = index THEN next ELSE t.node[next].parent

\* remove_internal_node: the successor takes the place and color of the node,
\* and the right child of the successor takes the successor's place.
Transplanted(t, index) ==
    LET node == t.node[index]
        next == Outermost(t, node.right, "left")
        near == t.node[next].parent = index
        child == t.node[next].right
        above == RepairParent(t, index, next)
        cut == IF near THEN t
               ELSE SetParent([t EXCEPT !.node[above].left = child], node.right, next)
        moved == [SetParent(SetParent(cut, child, above), node.left, next) EXCEPT
                    !.node[next].parent = node.parent, !.node[next].left = node.left,
                    !.node[next].right = IF near THEN child ELSE node.right,
                    !.node[next].color = node.color]
    IN  [tree |-> Relink(moved, node.parent, index, next),
         child |-> child, parent |-> above, color |-> t.node[next].color]

Cut(t, index) ==
    IF IsInternal(t, index) THEN Transplanted(t, index) ELSE Spliced(t, index)

\* Mutant: the parent of the maximum is taken for its predecessor.
MaxToParent(t, index) == IF index = t.max THEN Parent(t, index) ELSE t.max

\* The maximum is moved before the links change.  (The removed block goes back to
\* the caller, who writes it anew before it is linked again.)
MaxWithout(t, index) == IF index = t.max THEN GetNextLowerIndex(t, index) ELSE t.max

\* A child of the removed node absorbs the black it takes away; a black leaf
\* leaves its place one black short.
RemoveByIndex(index) ==
    /\ repair = Done
    /\ index \in used
    /\ LET cut == Cut(tree, index)
           closed == SetColor(cut.tree, cut.child, "black")
       IN  /\ tree' = [closed EXCEPT !.max = MaxWithout(tree, index)]
           /\ repair' = IF cut.child = NIL /\ cut.color = "black"
                        THEN Removing(NIL, cut.parent) ELSE Done
    /\ used' = used \ {index}

-----------------------------------------------------------------------------
(* remove_fix: the subtree at the node is one black short.                 *)

FixedSide == IF tree.node[repair.parent].left = repair.at THEN "left" ELSE "right"

FixSibling == tree.node[repair.parent][Across(FixedSide)]

OuterNephew == Child(tree, FixSibling, Across(FixedSide))

InnerNephew == Child(tree, FixSibling, FixedSide)

RemoveFixRoot ==
    /\ repair.op = "remove"
    /\ tree.root = repair.at
    /\ Fixed(tree, Done)

NeedsRemoveFix == repair.op = "remove" /\ tree.root # repair.at

\* Mutant: the parent keeps its color.
RemoveFixRedSiblingOnly ==
    /\ NeedsRemoveFix
    /\ Color(tree, FixSibling) = "red"
    /\ Fixed(SetColor(Rotate(tree, repair.parent, FixedSide), FixSibling, "black"),
             Removing(repair.at, repair.parent))

\* The sibling becomes the grandparent; the next iteration has a black one.
RemoveFixRedSibling ==
    /\ NeedsRemoveFix
    /\ Color(tree, FixSibling) = "red"
    /\ Fixed(SetColor(SetColor(Rotate(tree, repair.parent, FixedSide),
                               repair.parent, "red"),
                      FixSibling, "black"),
             Removing(repair.at, repair.parent))

\* Mutant: the color of the parent is read after it is painted.
RemoveFixOuterLate ==
    /\ NeedsRemoveFix
    /\ Color(tree, FixSibling) = "black"
    /\ Color(tree, OuterNephew) = "red"
    /\ LET black == SetColor(SetColor(tree, OuterNephew, "black"), repair.parent, "black")
           swapped == SetColor(black, FixSibling, Color(black, repair.parent))
       IN  Fixed(Rotate(swapped, repair.parent, FixedSide), Done)

RemoveFixOuter ==
    /\ NeedsRemoveFix
    /\ Color(tree, FixSibling) = "black"
    /\ Color(tree, OuterNephew) = "red"
    /\ LET black == SetColor(SetColor(tree, OuterNephew, "black"), repair.parent, "black")
           swapped == SetColor(black, FixSibling, Color(tree, repair.parent))
       IN  Fixed(Rotate(swapped, repair.parent, FixedSide), Done)

RemoveFixInner ==
    /\ NeedsRemoveFix
    /\ Color(tree, FixSibling) = "black"
    /\ Color(tree, OuterNephew) = "black"
    /\ Color(tree, InnerNephew) = "red"
    /\ Fixed(RotateDouble(tree, repair.parent, Across(FixedSide),
                          Color(tree, repair.parent), "black", "black"),
             Done)

BlackNephews ==
    /\ NeedsRemoveFix
    /\ Color(tree, FixSibling) = "black"
    /\ Color(tree, OuterNephew) = "black"
    /\ Color(tree, InnerNephew) = "black"

\* A red parent absorbs the missing black.
RemoveFixAbsorb ==
    /\ BlackNephews
    /\ Color(tree, repair.parent) = "red"
    /\ Fixed(SetColor(SetColor(tree, FixSibling, "red"), repair.parent, "black"), Done)

\* Under a black parent the whole subtree is one short.
RemoveFixPropagate ==
    /\ BlackNephews
    /\ Color(tree, repair.parent) = "black"
    /\ Fixed(SetColor(tree, FixSibling, "red"),
             Removing(repair.parent, Parent(tree, repair.parent)))

-----------------------------------------------------------------------------

Init ==
    /\ \E blank \in Nodes :
        tree = [root |-> NIL, max |-> NIL, node |-> [i \in Index |-> blank]]
    /\ used = {}
    /\ repair = Done

InsertFix ==
    \/ InsertFixRoot
    \/ InsertFixNothing
    \/ InsertFixRecolor
    \/ InsertFixOuter
    \/ InsertFixInner

RemoveFix ==
    \/ RemoveFixRoot
    \/ RemoveFixRedSibling
    \/ RemoveFixOuter
    \/ RemoveFixInner
    \/ RemoveFixAbsorb
    \/ RemoveFixPropagate

Next ==
    \/ \E index \in Index, value \in Values :
        \/ InsertRoot(index, value)
        \/ InsertLeaf(index, value)
    \/ \E index \in Index : RemoveByIndex(index)
    \/ InsertFix
    \/ RemoveFix

Spec == Init /\ [][Next]_vars

=============================================================================
