----------------------------- MODULE TreeProofs -----------------------------
(***************************************************************************)
(* The links of the red-black tree, for every set of blocks and of values: *)
(* at every moment, inside the repair loops too, the blocks in use hang    *)
(* from the root, each in one place, and every link down has its link up.  *)
(***************************************************************************)
EXTENDS TreeProperties, FiniteSetTheorems, WellFoundedInduction, TLAPS

-----------------------------------------------------------------------------
(* Induction. *)

\* Induction over the finite subsets of a set, for a property given as the set X of
\* the subsets that have it.
LEMMA SubsetInduction ==
    ASSUME NEW S, IsFiniteSet(S), NEW X,
           \A T \in SUBSET S : (\A U \in SUBSET T : U # T => U \in X) => T \in X
    PROVE  \A T \in SUBSET S : T \in X
<1> DEFINE R == StrictSubsetOrdering(S)
           B == (SUBSET S) \ X
<1>1. SUFFICES ASSUME B # {} PROVE FALSE
  OBVIOUS
<1>2. IsWellFoundedOn(R, SUBSET S)
  BY FS_StrictSubsetOrderingWellFounded, FS_FiniteSubsetsOfFinite
<1>3. PICK T \in B : \A U \in B : ~ (<<U, T>> \in R)
  <2> HIDE DEF R, B
  <2>1. B \subseteq SUBSET S
    BY DEF B
  <2>2. QED
    BY <1>1, <1>2, <2>1, WFMin
<1>4. \A U \in SUBSET T : U # T => U \in X
  BY <1>3 DEF StrictSubsetOrdering
<1>5. QED
  BY <1>3, <1>4

-----------------------------------------------------------------------------
(* The links of a tree, apart from its colors and values.                  *)

Sides == {"left", "right"}

Trees == [root : Links, max : Links, node : [Index -> Nodes]]

Kid(t, i, side) == t.node[i][side]

Up(t, i) == t.node[i].parent

SameLinks(t, u) ==
    /\ u.root = t.root
    /\ \A i \in Index : /\ Up(u, i) = Up(t, i)
                        /\ \A side \in Sides : Kid(u, i, side) = Kid(t, i, side)

LEMMA LinksTyped ==
    ASSUME NEW t \in Trees
    PROVE  /\ t.root \in Links /\ t.max \in Links
           /\ \A i \in Index : Up(t, i) \in Links /\ \A side \in Sides : Kid(t, i, side) \in Links
BY DEF Trees, Nodes, Up, Kid, Sides

LEMMA NilNoBlock == NIL \notin Index
BY TreeAssumption

LEMMA ChildIsKid ==
    ASSUME NEW t, NEW i \in Index, NEW side
    PROVE  Child(t, i, side) = Kid(t, i, side) /\ Parent(t, i) = Up(t, i)
BY NilNoBlock DEF Child, Parent, Kid, Up

LEMMA AcrossSides ==
    ASSUME NEW side \in Sides
    PROVE  /\ Across(side) \in Sides /\ Across(side) # side /\ Across(Across(side)) = side
           /\ Sides = {side, Across(side)}
BY DEF Sides, Across

LEMMA SetColorLinks ==
    ASSUME NEW t \in Trees, NEW i \in Links, NEW color \in Colors
    PROVE  LET u == SetColor(t, i, color)
           IN  u \in Trees /\ SameLinks(t, u) /\ u.max = t.max
<1> DEFINE u == [t EXCEPT !.node[i].color = color]
<1>1. CASE i = NIL
  BY <1>1 DEF SetColor, SameLinks
<1>2. CASE i # NIL
  <2>1. i \in Index /\ SetColor(t, i, color) = u
    BY <1>2 DEF Links, SetColor
  <2>2. /\ u \in Trees /\ u.root = t.root /\ u.max = t.max
        /\ \A j \in Index : /\ u.node[j].parent = t.node[j].parent
                            /\ u.node[j].left = t.node[j].left
                            /\ u.node[j].right = t.node[j].right
    BY <2>1 DEF Trees, Nodes
  <2> HIDE DEF u
  <2>3. \A j \in Index : \A side \in Sides : u.node[j][side] = t.node[j][side]
    BY <2>2 DEF Sides
  <2>4. QED
    BY <2>1, <2>2, <2>3 DEF SameLinks, Up, Kid
<1>3. QED
  BY <1>1, <1>2

LEMMA SetParentLinks ==
    ASSUME NEW t \in Trees, NEW i \in Links, NEW parent \in Links
    PROVE  LET u == SetParent(t, i, parent)
           IN  /\ u \in Trees /\ u.root = t.root /\ u.max = t.max
               /\ \A j \in Index :
                    /\ Up(u, j) = IF j = i THEN parent ELSE Up(t, j)
                    /\ \A side \in Sides : Kid(u, j, side) = Kid(t, j, side)
<1> DEFINE u == [t EXCEPT !.node[i].parent = parent]
<1>1. CASE i = NIL
  BY <1>1, NilNoBlock DEF SetParent
<1>2. CASE i # NIL
  <2>1. i \in Index /\ SetParent(t, i, parent) = u
    BY <1>2 DEF Links, SetParent
  <2>2. /\ u \in Trees /\ u.root = t.root /\ u.max = t.max
        /\ \A j \in Index :
            /\ u.node[j].parent = IF j = i THEN parent ELSE t.node[j].parent
            /\ u.node[j].left = t.node[j].left
            /\ u.node[j].right = t.node[j].right
    BY <2>1 DEF Trees, Nodes
  <2> HIDE DEF u
  <2>3. \A j \in Index : \A side \in Sides : u.node[j][side] = t.node[j][side]
    BY <2>2 DEF Sides
  <2>4. QED
    BY <2>1, <2>2, <2>3 DEF Up, Kid
<1>3. QED
  BY <1>1, <1>2

\* The link down from i on a side.
SetKid(t, i, side, kid) == [t EXCEPT !.node[i][side] = kid]

\* Writing one link down changes nothing else.
LEMMA SetKidLinks ==
    ASSUME NEW t \in Trees, NEW i \in Index, NEW side \in Sides, NEW kid \in Links
    PROVE  LET u == SetKid(t, i, side, kid)
           IN  /\ u \in Trees /\ u.root = t.root /\ u.max = t.max
               /\ \A j \in Index :
                    /\ Up(u, j) = Up(t, j)
                    /\ \A s \in Sides :
                        Kid(u, j, s) = IF j = i /\ s = side THEN kid ELSE Kid(t, j, s)
<1> DEFINE u == [t EXCEPT !.node[i][side] = kid]
           n == [t.node[i] EXCEPT ![side] = kid]
<1>1. /\ n \in Nodes /\ n.parent = t.node[i].parent
      /\ \A s \in Sides : n[s] = IF s = side THEN kid ELSE t.node[i][s]
  <2>1. t.node[i] \in Nodes
    BY DEF Trees
  <2>2. QED
    BY <2>1 DEF Nodes, Sides
<1> HIDE DEF n
<1>2. /\ u \in Trees /\ u.root = t.root /\ u.max = t.max
      /\ \A j \in Index : u.node[j] = IF j = i THEN n ELSE t.node[j]
  <2> DEFINE node == [t.node EXCEPT ![i] = n]
  <2>1. t.node \in [Index -> Nodes]
    BY DEF Trees
  <2>2. /\ node \in [Index -> Nodes]
        /\ \A j \in Index : node[j] = IF j = i THEN n ELSE t.node[j]
    BY <1>1, <2>1
  <2>3. u = [t EXCEPT !.node = node]
    BY DEF n
  <2> HIDE DEF u, node
  <2>4. u.node = node /\ u.root = t.root /\ u.max = t.max /\ u \in Trees
    BY <2>2, <2>3 DEF Trees
  <2>5. QED
    BY <2>2, <2>4
<1> HIDE DEF u
<1>3. \A j \in Index : u.node[j].parent = t.node[j].parent
  BY <1>1, <1>2
<1>4. \A j \in Index, s \in Sides :
        u.node[j][s] = IF j = i /\ s = side THEN kid ELSE t.node[j][s]
  BY <1>1, <1>2
<1>5. /\ u \in Trees /\ u.root = t.root /\ u.max = t.max
      /\ \A j \in Index :
            /\ Up(u, j) = Up(t, j)
            /\ \A s \in Sides : Kid(u, j, s) = IF j = i /\ s = side THEN kid ELSE Kid(t, j, s)
  BY <1>2, <1>3, <1>4 DEF Up, Kid
<1>6. QED
  BY <1>5 DEF u, SetKid

\* The side of its parent that a block is on.
Place(t, parent, i) == IF Kid(t, parent, "left") = i THEN "left" ELSE "right"

\* Writing the link of a parent, or the root, to a block.
LEMMA RelinkLinks ==
    ASSUME NEW t \in Trees, NEW parent \in Links, NEW old \in Links, NEW new \in Links
    PROVE  LET u == Relink(t, parent, old, new)
           IN  /\ u \in Trees /\ u.max = t.max
               /\ u.root = IF parent = NIL THEN new ELSE t.root
               /\ \A j \in Index :
                    /\ Up(u, j) = Up(t, j)
                    /\ \A s \in Sides :
                        Kid(u, j, s) = IF j = parent /\ s = Place(t, parent, old) THEN new ELSE Kid(t, j, s)
<1> DEFINE side == Place(t, parent, old)
<1>1. CASE parent = NIL
  <2> DEFINE u == [t EXCEPT !.root = new]
  <2>1. u \in Trees /\ u.root = new /\ u.max = t.max /\ u.node = t.node
    BY DEF Trees
  <2>2. u = Relink(t, parent, old, new)
    BY <1>1 DEF Relink
  <2> HIDE DEF u
  <2>3. QED
    BY <1>1, <2>1, <2>2, NilNoBlock DEF Up, Kid
<1>2. CASE parent # NIL
  <2> DEFINE u == [t EXCEPT !.node[parent][side] = new]
  <2>1. side \in Sides /\ parent \in Index
    BY <1>2 DEF Sides, Links, Place
  <2>2. u = Relink(t, parent, old, new) /\ u = SetKid(t, parent, side, new)
    BY <1>2 DEF Relink, Kid, SetKid, Place
  <2> HIDE DEF u, side
  <2>3. /\ u \in Trees /\ u.root = t.root /\ u.max = t.max
        /\ \A j \in Index :
            /\ Up(u, j) = Up(t, j)
            /\ \A s \in Sides : Kid(u, j, s) = IF j = parent /\ s = side THEN new ELSE Kid(t, j, s)
    BY <2>1, <2>2, SetKidLinks
  <2>4. QED
    BY <1>2, <2>2, <2>3 DEF side
<1>3. QED
  BY <1>1, <1>2

-----------------------------------------------------------------------------
(* The shape of a tree.                                                    *)

\* The blocks in U are linked both ways, each from one place, and none but the
\* root is without a parent.
Joined(t, U) ==
    /\ t.root \in U \cup {NIL}
    /\ U # {} => t.root # NIL
    /\ \A i \in U, side \in Sides :
        /\ Kid(t, i, side) \in U \cup {NIL}
        /\ Kid(t, i, side) # NIL => Up(t, Kid(t, i, side)) = i
    /\ \A i \in U : Up(t, i) = NIL <=> i = t.root
    /\ \A i \in U : i # t.root =>
        Up(t, i) \in U /\ \E side \in Sides : Kid(t, Up(t, i), side) = i
    /\ \A i \in U, side \in Sides :
        Kid(t, i, side) = Kid(t, i, Across(side)) => Kid(t, i, side) = NIL

\* h grows with every link up, so no walk down comes back.
Graded(t, U, h) ==
    /\ h \in [U -> Nat]
    /\ \A i \in U : i # t.root => h[i] < h[Up(t, i)]

IsTree(t, U) == Joined(t, U) /\ \E h : Graded(t, U, h)

\* A block that is not the root has one place under its parent.
LEMMA JoinedSides ==
    ASSUME NEW t \in Trees, NEW U \in SUBSET Index, Joined(t, U), NEW i \in U, i # t.root
    PROVE  /\ Place(t, Up(t, i), i) \in Sides
           /\ \A side \in Sides : Kid(t, Up(t, i), side) = i <=> side = Place(t, Up(t, i), i)
<1> DEFINE up == Up(t, i)
<1>1. up \in U /\ \E side \in Sides : Kid(t, up, side) = i
  BY DEF Joined
<1>2. i # NIL
  BY NilNoBlock
<1>3. Kid(t, up, "left") = Kid(t, up, "right") => Kid(t, up, "left") = NIL
  BY <1>1 DEF Joined, Sides, Across
<1> HIDE DEF up
<1>4. QED
  BY <1>1, <1>2, <1>3 DEF Place, Sides, up

\* A block, its kids and its parent are different blocks.
LEMMA Apart ==
    ASSUME NEW t, NEW U \in SUBSET Index, Joined(t, U), NEW h, Graded(t, U, h),
           NEW i \in U
    PROVE  /\ Up(t, i) # i
           /\ \A side \in Sides :
                /\ Kid(t, i, side) # i /\ Kid(t, i, side) # t.root
                /\ Kid(t, i, side) # NIL =>
                    /\ Kid(t, i, side) \in U
                    /\ Kid(t, i, side) # Up(t, i)
                    /\ Kid(t, i, side) # Kid(t, i, Across(side))
                    /\ h[Kid(t, i, side)] < h[i]
<1>1. i # NIL /\ NIL \notin U
  BY NilNoBlock
<1>2. \A j \in U : h[j] \in Nat
  BY DEF Graded
<1>3. Up(t, i) # i
  <2>1. CASE i = t.root
    BY <1>1, <2>1 DEF Joined
  <2>2. CASE i # t.root
    BY <1>2, <2>2 DEF Joined, Graded
  <2>3. QED
    BY <2>1, <2>2
<1>4. ASSUME NEW side \in Sides
      PROVE  /\ Kid(t, i, side) # i /\ Kid(t, i, side) # t.root
             /\ Kid(t, i, side) # NIL =>
                    /\ Kid(t, i, side) \in U
                    /\ Kid(t, i, side) # Up(t, i)
                    /\ Kid(t, i, side) # Kid(t, i, Across(side))
                    /\ h[Kid(t, i, side)] < h[i]
  <2> DEFINE k == Kid(t, i, side)
  <2>1. CASE k = NIL
    BY <1>1, <2>1 DEF Joined
  <2>2. CASE k # NIL
    <3>1. k \in U /\ Up(t, k) = i /\ k # Kid(t, i, Across(side))
      BY <2>2 DEF Joined
    <3>2. k # t.root
      BY <1>1, <3>1 DEF Joined
    <3>3. h[k] < h[i]
      BY <3>1, <3>2 DEF Graded
    <3>4. k # i
      BY <1>2, <3>3
    <3>5. i # t.root => h[i] < h[Up(t, i)] /\ Up(t, i) \in U
      BY DEF Graded, Joined
    <3>6. i = t.root => Up(t, i) = NIL
      BY DEF Joined
    <3>7. k # Up(t, i)
      BY <1>1, <1>2, <3>1, <3>3, <3>5, <3>6
    <3>8. QED
      BY <3>1, <3>2, <3>3, <3>4, <3>7
  <2>3. QED
    BY <2>1, <2>2
<1>5. QED
  BY <1>3, <1>4

\* Colors, values and the maximum do not matter.
LEMMA SameLinksTree ==
    ASSUME NEW t, NEW u, NEW U \in SUBSET Index, SameLinks(t, u), IsTree(t, U)
    PROVE  IsTree(u, U)
<1>1. /\ u.root = t.root
      /\ \A i \in U : /\ Up(u, i) = Up(t, i)
                      /\ \A side \in Sides : Kid(u, i, side) = Kid(t, i, side)
  BY DEF SameLinks
<1>2. \A i \in U, side \in Sides : Kid(u, i, Across(side)) = Kid(t, i, Across(side))
  BY <1>1, AcrossSides
<1>3. Joined(u, U)
  <2>1. /\ u.root \in U \cup {NIL}
        /\ U # {} => u.root # NIL
        /\ \A i \in U : Up(u, i) = NIL <=> i = u.root
        /\ \A i \in U, side \in Sides :
            Kid(u, i, side) = Kid(u, i, Across(side)) => Kid(u, i, side) = NIL
    BY <1>1, <1>2 DEF Joined, IsTree
  <2>2. \A i \in U, side \in Sides :
            /\ Kid(u, i, side) \in U \cup {NIL}
            /\ Kid(u, i, side) # NIL => Up(u, Kid(u, i, side)) = i
    BY <1>1 DEF Joined, IsTree
  <2>3. \A i \in U : i # u.root =>
            Up(u, i) \in U /\ \E side \in Sides : Kid(u, Up(u, i), side) = i
    BY <1>1 DEF Joined, IsTree
  <2>4. QED
    BY <2>1, <2>2, <2>3 DEF Joined
<1>4. \A h : Graded(t, U, h) => Graded(u, U, h)
  BY <1>1 DEF Graded
<1>5. QED
  BY <1>3, <1>4 DEF IsTree

-----------------------------------------------------------------------------
(* Rotations.                                                              *)

\* The links of u are those of t after a rotation of g to a side.
Rotated(t, u, g, side) ==
    LET far == Across(side)
        p == Kid(t, g, far)
        y == Kid(t, p, side)
        up == Up(t, g)
    IN  /\ u.root = IF up = NIL THEN p ELSE t.root
        /\ \A j \in Index :
            /\ Up(u, j) = IF j = y THEN g ELSE IF j = g THEN p
                          ELSE IF j = p THEN up ELSE Up(t, j)
            /\ \A s \in Sides :
                Kid(u, j, s) = IF j = p /\ s = side THEN g
                               ELSE IF j = g /\ s = far THEN y
                               ELSE IF j = up /\ s = Place(t, up, g) THEN p ELSE Kid(t, j, s)

\* What a single rotation makes of the links: Rotate is rotate_left or rotate_right.
LEMMA RotateLinks ==
    ASSUME NEW t \in Trees, NEW g \in Index, NEW side \in Sides,
           Kid(t, g, Across(side)) \in Index \ {g},
           Up(t, g) \notin {g, Kid(t, g, Across(side))}
    PROVE  LET u == Rotate(t, g, side)
           IN  u \in Trees /\ u.max = t.max /\ Rotated(t, u, g, side)
<1> DEFINE far == Across(side)
           p == Kid(t, g, far)
           y == Kid(t, p, side)
           up == Up(t, g)
           t1 == SetParent(t, p, up)
           t2 == SetKid(t1, p, side, g)
           t3 == SetParent(t2, g, p)
           t4 == SetKid(t3, g, far, y)
           t5 == SetParent(t4, y, g)
           u == Relink(t5, up, g, p)
<1>1. far \in Sides /\ far # side /\ p \in Index /\ p # g /\ up # g /\ up # p
      /\ p # NIL /\ g # NIL /\ p \in Links /\ g \in Links
  BY AcrossSides, NilNoBlock DEF Links
<1>2. y \in Links /\ up \in Links
  BY <1>1, LinksTyped
<1>3. u = Rotate(t, g, side)
  BY <1>1 DEF Rotate, SetParent, SetKid, Kid, Up
<1> HIDE DEF far, p, y, up
<1>4. /\ t1 \in Trees /\ t1.root = t.root /\ t1.max = t.max
      /\ \A j \in Index :
            /\ Up(t1, j) = IF j = p THEN up ELSE Up(t, j)
            /\ \A s \in Sides : Kid(t1, j, s) = Kid(t, j, s)
  BY <1>1, <1>2, SetParentLinks
<1> HIDE DEF t1
<1>5. /\ t2 \in Trees /\ t2.root = t.root /\ t2.max = t.max
      /\ \A j \in Index :
            /\ Up(t2, j) = Up(t1, j)
            /\ \A s \in Sides : Kid(t2, j, s) = IF j = p /\ s = side THEN g ELSE Kid(t1, j, s)
  <2>1. /\ t2 \in Trees /\ t2.root = t1.root /\ t2.max = t1.max
        /\ \A j \in Index :
            /\ Up(t2, j) = Up(t1, j)
            /\ \A s \in Sides : Kid(t2, j, s) = IF j = p /\ s = side THEN g ELSE Kid(t1, j, s)
    BY <1>1, <1>4, SetKidLinks
  <2> HIDE DEF t2
  <2>2. QED
    BY <1>4, <2>1
<1> HIDE DEF t2
<1>6. /\ t3 \in Trees /\ t3.root = t.root /\ t3.max = t.max
      /\ \A j \in Index :
            /\ Up(t3, j) = IF j = g THEN p ELSE Up(t2, j)
            /\ \A s \in Sides : Kid(t3, j, s) = Kid(t2, j, s)
  BY <1>1, <1>5, SetParentLinks
<1> HIDE DEF t3
<1>7. /\ t4 \in Trees /\ t4.root = t.root /\ t4.max = t.max
      /\ \A j \in Index :
            /\ Up(t4, j) = Up(t3, j)
            /\ \A s \in Sides : Kid(t4, j, s) = IF j = g /\ s = far THEN y ELSE Kid(t3, j, s)
  <2>1. /\ t4 \in Trees /\ t4.root = t3.root /\ t4.max = t3.max
        /\ \A j \in Index :
            /\ Up(t4, j) = Up(t3, j)
            /\ \A s \in Sides : Kid(t4, j, s) = IF j = g /\ s = far THEN y ELSE Kid(t3, j, s)
    BY <1>1, <1>2, <1>6, SetKidLinks
  <2> HIDE DEF t4
  <2>2. QED
    BY <1>6, <2>1
<1> HIDE DEF t4
<1>8. /\ t5 \in Trees /\ t5.root = t.root /\ t5.max = t.max
      /\ \A j \in Index :
            /\ Up(t5, j) = IF j = y THEN g ELSE Up(t4, j)
            /\ \A s \in Sides : Kid(t5, j, s) = Kid(t4, j, s)
  BY <1>1, <1>2, <1>7, SetParentLinks
<1> HIDE DEF t5
<1>9. up # NIL => Place(t5, up, g) = Place(t, up, g)
  <2>1. up # NIL => up \in Index
    BY <1>2 DEF Links
  <2>2. "left" \in Sides
    BY DEF Sides
  <2>3. up # NIL => Kid(t5, up, "left") = Kid(t, up, "left")
    BY <1>1, <1>4, <1>5, <1>6, <1>7, <1>8, <2>1, <2>2
  <2>4. QED
    BY <2>3 DEF Place
<1>10. /\ u \in Trees /\ u.max = t.max
       /\ u.root = IF up = NIL THEN p ELSE t.root
       /\ \A j \in Index :
            /\ Up(u, j) = Up(t5, j)
            /\ \A s \in Sides :
                Kid(u, j, s) = IF j = up /\ s = Place(t5, up, g) THEN p ELSE Kid(t5, j, s)
  <2>1. t5 \in Trees /\ up \in Links /\ g \in Links /\ p \in Links
    BY <1>1, <1>2, <1>8
  <2>2. /\ u \in Trees /\ u.max = t5.max
        /\ u.root = IF up = NIL THEN p ELSE t5.root
        /\ \A j \in Index :
            /\ Up(u, j) = Up(t5, j)
            /\ \A s \in Sides :
                Kid(u, j, s) = IF j = up /\ s = Place(t5, up, g) THEN p ELSE Kid(t5, j, s)
    BY <2>1, RelinkLinks
  <2> HIDE DEF u
  <2>3. QED
    BY <1>8, <2>2
<1> HIDE DEF u
<1>11. \A j \in Index : Up(u, j) = IF j = y THEN g ELSE IF j = g THEN p
                                   ELSE IF j = p THEN up ELSE Up(t, j)
  BY <1>4, <1>5, <1>6, <1>7, <1>8, <1>10
<1>12. ASSUME NEW j \in Index, NEW s \in Sides
       PROVE  Kid(u, j, s) = IF j = p /\ s = side THEN g
                             ELSE IF j = g /\ s = far THEN y
                             ELSE IF j = up /\ s = Place(t, up, g) THEN p ELSE Kid(t, j, s)
  <2>1. j = up => up # NIL
    BY NilNoBlock
  <2>2. Kid(t5, j, s) = IF j = g /\ s = far THEN y
                        ELSE IF j = p /\ s = side THEN g ELSE Kid(t, j, s)
    BY <1>4, <1>5, <1>6, <1>7, <1>8
  <2>3. QED
    BY <1>1, <1>9, <1>10, <2>1, <2>2
<1>13. Rotated(t, u, g, side)
  BY <1>10, <1>11, <1>12 DEF Rotated, far, p, y, up
<1>14. QED
  BY <1>3, <1>10, <1>13

\* A rotation keeps a tree.
LEMMA RotatedTree ==
    ASSUME NEW t \in Trees, NEW u \in Trees, NEW U \in SUBSET Index, IsTree(t, U),
           NEW g \in U, NEW side \in Sides, Kid(t, g, Across(side)) # NIL,
           Rotated(t, u, g, side)
    PROVE  IsTree(u, U)
<1> DEFINE far == Across(side)
           p == Kid(t, g, far)
           y == Kid(t, p, side)
           up == Up(t, g)
           place == Place(t, up, g)
<1>1. PICK h : Graded(t, U, h)
  BY DEF IsTree
<1>2. Joined(t, U) /\ NIL \notin U
  BY NilNoBlock DEF IsTree
<1>3. far \in Sides /\ side # far /\ Across(far) = side /\ Sides = {side, far}
  BY AcrossSides
<1>4. /\ p \in U /\ p # g /\ p # up /\ p # t.root /\ up # g /\ p # Kid(t, g, side)
      /\ Up(t, p) = g /\ h[p] < h[g]
  BY <1>1, <1>2, <1>3, Apart DEF Joined
<1>5. y # NIL => /\ y \in U /\ y # p /\ y # g /\ y # t.root /\ Up(t, y) = p /\ h[y] < h[p]
                 /\ y # Kid(t, p, far)
  BY <1>1, <1>2, <1>3, <1>4, Apart DEF Joined
<1>6. /\ up = NIL <=> g = t.root
      /\ up # NIL => /\ up \in U /\ place \in Sides /\ Kid(t, up, place) = g /\ h[g] < h[up]
                     /\ \A s \in Sides : Kid(t, up, s) = g => s = place
                     /\ y # up
  <2>1. up = NIL <=> g = t.root
    BY <1>2 DEF Joined
  <2>2. ASSUME up # NIL
        PROVE  /\ up \in U /\ place \in Sides /\ Kid(t, up, place) = g /\ h[g] < h[up]
               /\ \A s \in Sides : Kid(t, up, s) = g => s = place
    BY <1>1, <1>2, <2>1, <2>2, JoinedSides DEF Joined, Graded
  <2>3. up # NIL => y # up
    <3>1. \A i \in U : h[i] \in Nat
      BY <1>1 DEF Graded
    <3>2. QED
      BY <1>2, <1>4, <1>5, <2>2, <3>1
  <2>4. QED
    BY <2>1, <2>2, <2>3
<1>7. /\ u.root = IF up = NIL THEN p ELSE t.root
      /\ \A j \in U : Up(u, j) = IF j = y THEN g ELSE IF j = g THEN p
                                 ELSE IF j = p THEN up ELSE Up(t, j)
      /\ \A j \in U, s \in Sides :
            Kid(u, j, s) = IF j = p /\ s = side THEN g
                           ELSE IF j = g /\ s = far THEN y
                           ELSE IF j = up /\ s = place THEN p ELSE Kid(t, j, s)
  BY DEF Rotated
<1> HIDE DEF far, p, y, up, place
<1>8. Joined(u, U)
  <2>1. u.root \in U \cup {NIL} /\ (U # {} => u.root # NIL)
    BY <1>2, <1>4, <1>6, <1>7 DEF Joined
  <2>2. ASSUME NEW j \in U, NEW s \in Sides
        PROVE  /\ Kid(u, j, s) \in U \cup {NIL}
               /\ Kid(u, j, s) # NIL => Up(u, Kid(u, j, s)) = j
    <3>1. CASE j = p /\ s = side
      BY <1>2, <1>4, <1>5, <1>7, <3>1
    <3>2. CASE j = g /\ s = far
      BY <1>4, <1>5, <1>7, <3>2
    <3>3. CASE j = up /\ s = place
      BY <1>2, <1>4, <1>5, <1>6, <1>7, <3>3
    <3>4. CASE ~ (j = p /\ s = side) /\ ~ (j = g /\ s = far) /\ ~ (j = up /\ s = place)
      <4> DEFINE k == Kid(t, j, s)
      <4>1. Kid(u, j, s) = k
        BY <1>7, <3>4
      <4>2. k \in U \cup {NIL} /\ (k # NIL => Up(t, k) = j)
        BY <1>2 DEF Joined
      <4> HIDE DEF k
      <4>3. k # NIL => k # y
        BY <1>2, <1>3, <1>4, <1>5, <3>4, <4>2 DEF k, Joined
      <4>4. k # NIL => k # g
        BY <1>2, <1>6, <3>4, <4>2 DEF k, up
      <4>5. k # NIL => k # p
        BY <1>3, <1>4, <3>4, <4>2 DEF k
      <4>6. QED
        BY <1>7, <4>1, <4>2, <4>3, <4>4, <4>5
    <3>5. QED
      BY <3>1, <3>2, <3>3, <3>4
  <2>3. ASSUME NEW j \in U
        PROVE  /\ Up(u, j) = NIL <=> j = u.root
               /\ j # u.root => Up(u, j) \in U /\ \E s \in Sides : Kid(u, Up(u, j), s) = j
    <3>1. CASE j = y
      <4>1. Up(u, j) = g /\ Kid(u, g, far) = y /\ j # u.root
        BY <1>2, <1>4, <1>5, <1>6, <1>7, <3>1, <1>3
      <4>2. QED
        BY <1>2, <1>3, <3>1, <4>1
    <3>2. CASE j = g /\ j # y
      <4>1. Up(u, j) = p /\ Kid(u, p, side) = g /\ j # u.root
        BY <1>2, <1>4, <1>6, <1>7, <3>2
      <4>2. QED
        BY <1>2, <1>4, <3>2, <4>1
    <3>3. CASE j = p
      <4>1. Up(u, j) = up
        BY <1>2, <1>4, <1>5, <1>7, <3>3
      <4>2. up # NIL => Kid(u, up, place) = p
        BY <1>4, <1>6, <1>7
      <4>3. QED
        BY <1>2, <1>4, <1>6, <1>7, <3>3, <4>1, <4>2
    <3>4. CASE j # y /\ j # g /\ j # p
      <4>1. Up(u, j) = Up(t, j)
        BY <1>7, <3>4
      <4>2. Up(t, j) = NIL <=> j = t.root
        BY <1>2 DEF Joined
      <4>3. j = u.root <=> j = t.root
        BY <1>6, <1>7, <3>4
      <4>4. ASSUME j # t.root
            PROVE  Up(t, j) \in U /\ \E s \in Sides : Kid(u, Up(t, j), s) = j
        <5>1. Up(t, j) \in U
          BY <1>2, <4>4 DEF Joined
        <5>2. PICK s \in Sides : Kid(t, Up(t, j), s) = j
          BY <1>2, <4>4 DEF Joined
        <5>3. ~ (Up(t, j) = p /\ s = side)
          BY <3>4, <5>2 DEF y
        <5>4. ~ (Up(t, j) = g /\ s = far)
          BY <3>4, <5>2 DEF p
        <5>5. ~ (Up(t, j) = up /\ s = place)
          BY <1>2, <1>6, <3>4, <5>1, <5>2
        <5>6. Kid(u, Up(t, j), s) = j
          BY <1>7, <5>1, <5>2, <5>3, <5>4, <5>5
        <5>7. QED
          BY <5>1, <5>6
      <4>5. QED
        BY <4>1, <4>2, <4>3, <4>4
    <3>5. QED
      BY <3>1, <3>2, <3>3, <3>4
  <2>4. ASSUME NEW j \in U, NEW s \in Sides, Kid(u, j, s) = Kid(u, j, Across(s))
        PROVE  Kid(u, j, s) = NIL
    <3>1. Across(s) \in Sides /\ Across(s) # s /\ {s, Across(s)} = {side, far}
      BY <1>3, AcrossSides
    <3>2. Kid(t, j, s) = Kid(t, j, Across(s)) => Kid(t, j, s) = NIL
      BY <1>2 DEF Joined
    <3>3. CASE j = p
      <4>1. Kid(u, p, side) = g /\ Kid(u, p, far) = Kid(t, p, far)
        BY <1>3, <1>4, <1>7
      <4>2. Kid(t, p, far) # g
        BY <1>1, <1>2, <1>3, <1>4, Apart, NilNoBlock
      <4>3. QED
        BY <2>4, <3>1, <3>3, <4>1, <4>2
    <3>4. CASE j = g
      <4>1. Kid(u, g, far) = y /\ Kid(u, g, side) = Kid(t, g, side)
        BY <1>3, <1>4, <1>6, <1>7
      <4>2. y # NIL => Kid(t, g, side) # y
        BY <1>2, <1>3, <1>4, <1>5 DEF Joined
      <4>3. QED
        BY <2>4, <3>1, <3>4, <4>1, <4>2
    <3>5. CASE j = up
      <4>1. place \in Sides /\ Across(place) \in Sides /\ Across(place) # place
            /\ Sides = {place, Across(place)}
        BY <1>2, <1>6, <3>5, AcrossSides
      <4>2. Kid(u, up, place) = p /\ Kid(u, up, Across(place)) = Kid(t, up, Across(place))
        BY <1>4, <1>6, <1>7, <3>5, <4>1
      <4>3. Kid(t, up, Across(place)) # p
        BY <1>2, <1>4, <1>6, <3>5, <4>1 DEF Joined
      <4>4. {s, Across(s)} = {place, Across(place)}
        BY <4>1, <3>1, <1>3
      <4>5. QED
        BY <2>4, <3>5, <4>2, <4>3, <4>4
    <3>6. CASE j # p /\ j # g /\ j # up
      BY <1>7, <2>4, <3>1, <3>2, <3>6
    <3>7. QED
      BY <3>3, <3>4, <3>5, <3>6
  <2>5. QED
    BY <2>1, <2>2, <2>3, <2>4 DEF Joined
<1> DEFINE grade == [j \in U |-> IF j = p THEN 2 * h[g] + 1 ELSE 2 * h[j]]
<1>9. Graded(u, U, grade)
  <2>1. \A j \in U : h[j] \in Nat
    BY <1>1 DEF Graded
  <2>2. grade \in [U -> Nat] /\ \A j \in U : grade[j] = IF j = p THEN 2 * h[g] + 1 ELSE 2 * h[j]
    BY <2>1
  <2> HIDE DEF grade
  <2>3. ASSUME NEW j \in U, j # u.root
        PROVE  grade[j] < grade[Up(u, j)]
    <3>1. CASE j = y
      <4>1. Up(u, j) = g /\ h[j] < h[p] /\ j # p
        BY <1>2, <1>5, <1>7, <3>1
      <4>2. QED
        BY <1>4, <2>1, <2>2, <4>1
    <3>2. CASE j = g /\ j # y
      <4>1. Up(u, j) = p
        BY <1>7, <3>2
      <4>2. QED
        BY <1>4, <2>1, <2>2, <3>2, <4>1
    <3>3. CASE j = p
      <4>1. Up(u, j) = up /\ up # NIL
        BY <1>2, <1>4, <1>5, <1>7, <2>3, <3>3
      <4>2. up \in U /\ h[g] < h[up] /\ up # p
        BY <1>4, <1>6, <4>1
      <4>3. QED
        BY <2>1, <2>2, <3>3, <4>1, <4>2
    <3>4. CASE j # y /\ j # g /\ j # p
      <4>1. Up(u, j) = Up(t, j)
        BY <1>7, <3>4
      <4>2. j # t.root
        BY <1>6, <1>7, <2>3, <3>4
      <4>3. Up(t, j) \in U /\ h[j] < h[Up(t, j)]
        BY <1>1, <1>2, <4>2 DEF Joined, Graded
      <4>4. QED
        BY <1>4, <2>1, <2>2, <3>4, <4>1, <4>3
    <3>5. QED
      BY <3>1, <3>2, <3>3, <3>4
  <2>4. QED
    BY <2>2, <2>3 DEF Graded
<1>10. QED
  BY <1>8, <1>9 DEF IsTree

\* A node is written as a whole.
PutNode(t, i, n) == [t EXCEPT !.node[i] = n]

LEMMA PutNodeLinks ==
    ASSUME NEW t \in Trees, NEW i \in Index, NEW n \in Nodes
    PROVE  LET u == PutNode(t, i, n)
           IN  /\ u \in Trees /\ u.root = t.root /\ u.max = t.max
               /\ \A j \in Index : u.node[j] = IF j = i THEN n ELSE t.node[j]
BY DEF PutNode, Trees

\* The links of u are those of t after a double rotation at g, whose kid p on a
\* side has a kid across.
Doubled(t, u, g, side) ==
    LET far == Across(side)
        p == Kid(t, g, side)
        middle == Kid(t, p, far)
        toP == Kid(t, middle, side)
        toG == Kid(t, middle, far)
        up == Up(t, g)
    IN  /\ u.root = IF up = NIL THEN middle ELSE t.root
        /\ \A j \in Index :
            /\ Up(u, j) = IF j = toG THEN g ELSE IF j = toP THEN p
                          ELSE IF j = middle THEN up
                          ELSE IF j = p \/ j = g THEN middle ELSE Up(t, j)
            /\ \A s \in Sides :
                Kid(u, j, s) = IF j = middle THEN (IF s = side THEN p ELSE g)
                               ELSE IF j = p /\ s = far THEN toP
                               ELSE IF j = g /\ s = side THEN toG
                               ELSE IF j = up /\ s = Place(t, up, g) THEN middle
                               ELSE Kid(t, j, s)

\* What the two rotations of an inner case make of the links.
LEMMA RotateDoubleLinks ==
    ASSUME NEW t \in Trees, NEW g \in Index, NEW side \in Sides,
           NEW c1 \in Colors, NEW c2 \in Colors, NEW c3 \in Colors,
           Kid(t, g, side) \in Index \ {g},
           Kid(t, Kid(t, g, side), Across(side)) \in Index \ {g, Kid(t, g, side)},
           Up(t, g) \notin {g, Kid(t, g, side), Kid(t, Kid(t, g, side), Across(side))}
    PROVE  LET u == RotateDouble(t, g, side, c1, c2, c3)
           IN  u \in Trees /\ u.max = t.max /\ Doubled(t, u, g, side)
<1> DEFINE far == Across(side)
           p == Kid(t, g, side)
           middle == Kid(t, p, far)
           toP == Kid(t, middle, side)
           toG == Kid(t, middle, far)
           up == Up(t, g)
           n1 == [t.node[middle] EXCEPT !.color = c1, !.parent = up, ![side] = p, ![far] = g]
           n2 == [t.node[p] EXCEPT !.color = c2, !.parent = middle, ![far] = toP]
           n3 == [t.node[g] EXCEPT !.color = c3, !.parent = middle, ![side] = toG]
           t1 == PutNode(t, middle, n1)
           t2 == PutNode(t1, p, n2)
           t3 == PutNode(t2, g, n3)
           t4 == SetParent(t3, toP, p)
           t5 == SetParent(t4, toG, g)
           u == Relink(t5, up, g, middle)
<1>1. /\ far \in Sides /\ far # side /\ Sides = {side, far}
      /\ p \in Index /\ middle \in Index /\ p # g /\ middle # g /\ middle # p
      /\ up # g /\ up # p /\ up # middle
      /\ p \in Links /\ g \in Links /\ middle \in Links
  BY AcrossSides DEF Links
<1>2. toP \in Links /\ toG \in Links /\ up \in Links
  BY <1>1, LinksTyped
<1> HIDE DEF far, p, middle, toP, toG, up
<1>3. \A j \in Index : t.node[j] \in Nodes
  BY DEF Trees
<1>4. /\ n1 \in Nodes /\ n1.parent = up /\ n1[side] = p /\ n1[far] = g
      /\ n2 \in Nodes /\ n2.parent = middle /\ n2[far] = toP /\ n2[side] = t.node[p][side]
      /\ n3 \in Nodes /\ n3.parent = middle /\ n3[side] = toG /\ n3[far] = t.node[g][far]
  <2>1. t.node[middle] \in Nodes /\ t.node[p] \in Nodes /\ t.node[g] \in Nodes
    BY <1>1, <1>3
  <2>2. n1 \in Nodes /\ n1.parent = up /\ n1[side] = p /\ n1[far] = g
    BY <1>1, <1>2, <2>1 DEF Nodes, Sides
  <2>3. n2 \in Nodes /\ n2.parent = middle /\ n2[far] = toP /\ n2[side] = t.node[p][side]
    BY <1>1, <1>2, <2>1 DEF Nodes, Sides
  <2>4. n3 \in Nodes /\ n3.parent = middle /\ n3[side] = toG /\ n3[far] = t.node[g][far]
    BY <1>1, <1>2, <2>1 DEF Nodes, Sides
  <2>5. QED
    BY <2>2, <2>3, <2>4
<1>5. /\ t3 \in Trees /\ t3.root = t.root /\ t3.max = t.max
      /\ \A j \in Index : t3.node[j] = IF j = middle THEN n1 ELSE IF j = p THEN n2
                                       ELSE IF j = g THEN n3 ELSE t.node[j]
  <2> HIDE DEF n1, n2, n3
  <2>1. /\ t1 \in Trees /\ t1.root = t.root /\ t1.max = t.max
        /\ \A j \in Index : t1.node[j] = IF j = middle THEN n1 ELSE t.node[j]
    BY <1>1, <1>4, PutNodeLinks
  <2> HIDE DEF t1
  <2>2. /\ t2 \in Trees /\ t2.root = t.root /\ t2.max = t.max
        /\ \A j \in Index : t2.node[j] = IF j = p THEN n2 ELSE t1.node[j]
    BY <1>1, <1>4, <2>1, PutNodeLinks
  <2> HIDE DEF t2
  <2>3. /\ t3 \in Trees /\ t3.root = t.root /\ t3.max = t.max
        /\ \A j \in Index : t3.node[j] = IF j = g THEN n3 ELSE t2.node[j]
    BY <1>1, <1>4, <2>2, PutNodeLinks
  <2> HIDE DEF t3
  <2>4. QED
    BY <1>1, <2>1, <2>2, <2>3
<1>6. u = RotateDouble(t, g, side, c1, c2, c3)
  <2> DEFINE turned == [t EXCEPT !.node[middle] = n1, !.node[p] = n2, !.node[g] = n3]
  <2>1. RotateDouble(t, g, side, c1, c2, c3)
            = Relink(SetParent(SetParent(turned, toP, p), toG, g), up, g, middle)
    BY DEF RotateDouble, far, p, middle, toP, toG, up, Kid, Up
  <2> HIDE DEF n1, n2, n3
  <2>2. turned = t3
    BY DEF PutNode
  <2> HIDE DEF turned, t3
  <2>3. QED
    BY <2>1, <2>2
<1> HIDE DEF n1, n2, n3, t3
<1>7. /\ t4 \in Trees /\ t4.root = t.root /\ t4.max = t.max
      /\ \A j \in Index :
            /\ Up(t4, j) = IF j = toP THEN p ELSE Up(t3, j)
            /\ \A s \in Sides : Kid(t4, j, s) = Kid(t3, j, s)
  BY <1>1, <1>2, <1>5, SetParentLinks
<1> HIDE DEF t4
<1>8. /\ t5 \in Trees /\ t5.root = t.root /\ t5.max = t.max
      /\ \A j \in Index :
            /\ Up(t5, j) = IF j = toG THEN g ELSE Up(t4, j)
            /\ \A s \in Sides : Kid(t5, j, s) = Kid(t4, j, s)
  BY <1>1, <1>2, <1>7, SetParentLinks
<1> HIDE DEF t5
<1>9. up # NIL => up \in Index
  BY <1>2 DEF Links
<1>10. up # NIL => Place(t5, up, g) = Place(t, up, g)
  <2>1. "left" \in Sides
    BY DEF Sides
  <2>2. up # NIL => t3.node[up] = t.node[up]
    BY <1>1, <1>5, <1>9
  <2>3. up # NIL => Kid(t5, up, "left") = Kid(t, up, "left")
    BY <1>7, <1>8, <1>9, <2>1, <2>2 DEF Kid
  <2>4. QED
    BY <2>3 DEF Place
<1>11. /\ u \in Trees /\ u.max = t.max
       /\ u.root = IF up = NIL THEN middle ELSE t.root
       /\ \A j \in Index :
            /\ Up(u, j) = Up(t5, j)
            /\ \A s \in Sides :
                Kid(u, j, s) = IF j = up /\ s = Place(t5, up, g) THEN middle ELSE Kid(t5, j, s)
  <2>1. /\ u \in Trees /\ u.max = t5.max
        /\ u.root = IF up = NIL THEN middle ELSE t5.root
        /\ \A j \in Index :
            /\ Up(u, j) = Up(t5, j)
            /\ \A s \in Sides :
                Kid(u, j, s) = IF j = up /\ s = Place(t5, up, g) THEN middle ELSE Kid(t5, j, s)
    <3>1. t5 \in Trees /\ up \in Links /\ g \in Links /\ middle \in Links
      BY <1>1, <1>2, <1>8
    <3>2. QED
      BY <3>1, RelinkLinks
  <2> HIDE DEF u
  <2>2. QED
    BY <1>8, <2>1
<1> HIDE DEF u
<1>12. ASSUME NEW j \in Index
       PROVE  Up(u, j) = IF j = toG THEN g ELSE IF j = toP THEN p
                         ELSE IF j = middle THEN up
                         ELSE IF j = p \/ j = g THEN middle ELSE Up(t, j)
  <2>1. Up(t3, j) = IF j = middle THEN up ELSE IF j = p \/ j = g THEN middle ELSE Up(t, j)
    BY <1>4, <1>5 DEF Up
  <2>2. QED
    BY <1>7, <1>8, <1>11, <2>1
<1>13. ASSUME NEW j \in Index, NEW s \in Sides
       PROVE  Kid(u, j, s) = IF j = middle THEN (IF s = side THEN p ELSE g)
                             ELSE IF j = p /\ s = far THEN toP
                             ELSE IF j = g /\ s = side THEN toG
                             ELSE IF j = up /\ s = Place(t, up, g) THEN middle
                             ELSE Kid(t, j, s)
  <2>1. s = side \/ s = far
    BY <1>1
  <2>2. Kid(t3, j, s) = IF j = middle THEN (IF s = side THEN p ELSE g)
                        ELSE IF j = p /\ s = far THEN toP
                        ELSE IF j = g /\ s = side THEN toG ELSE Kid(t, j, s)
    BY <1>1, <1>4, <1>5, <2>1 DEF Kid
  <2>3. Kid(t5, j, s) = Kid(t3, j, s)
    BY <1>7, <1>8
  <2>4. j = up => up # NIL
    BY NilNoBlock
  <2>5. QED
    BY <1>1, <1>10, <1>11, <2>2, <2>3, <2>4
<1>14. Doubled(t, u, g, side)
  BY <1>11, <1>12, <1>13 DEF Doubled, far, p, middle, toP, toG, up
<1>15. QED
  BY <1>6, <1>11, <1>14

\* A double rotation is one at the kid and one at the block.
LEMMA DoubledTree ==
    ASSUME NEW t \in Trees, NEW u \in Trees, NEW U \in SUBSET Index, IsTree(t, U),
           NEW g \in U, NEW side \in Sides, Kid(t, g, side) # NIL,
           Kid(t, Kid(t, g, side), Across(side)) # NIL,
           Doubled(t, u, g, side)
    PROVE  IsTree(u, U)
<1> DEFINE far == Across(side)
           p == Kid(t, g, side)
           middle == Kid(t, p, far)
           toP == Kid(t, middle, side)
           toG == Kid(t, middle, far)
           up == Up(t, g)
           place == Place(t, up, g)
           t1 == Rotate(t, p, side)
           t2 == Rotate(t1, g, far)
<1>1. PICK h : Graded(t, U, h)
  BY DEF IsTree
<1>2. Joined(t, U) /\ NIL \notin U
  BY NilNoBlock DEF IsTree
<1>3. far \in Sides /\ side # far /\ Across(far) = side /\ Sides = {side, far}
  BY AcrossSides
<1>4. /\ p \in U /\ p # g /\ p # up /\ Up(t, p) = g /\ h[p] < h[g] /\ p # Kid(t, g, far)
  BY <1>1, <1>2, <1>3, Apart DEF Joined
<1>5. middle \in U /\ middle # p /\ middle # g /\ Up(t, middle) = p /\ h[middle] < h[p]
  BY <1>1, <1>2, <1>3, <1>4, Apart DEF Joined
<1>6. \A j \in U : h[j] \in Nat
  BY <1>1 DEF Graded
<1>7. toP # NIL => toP \in U /\ toP # middle /\ Up(t, toP) = middle /\ h[toP] < h[middle]
  BY <1>1, <1>2, <1>3, <1>5, Apart DEF Joined
<1>8. toG # NIL => toG \in U /\ toG # middle /\ Up(t, toG) = middle /\ h[toG] < h[middle]
  BY <1>1, <1>2, <1>3, <1>5, Apart DEF Joined
<1>9. /\ up = NIL <=> g = t.root
      /\ up # NIL => up \in U /\ h[g] < h[up] /\ place \in Sides /\ Kid(t, up, place) = g
  BY <1>1, <1>2, JoinedSides DEF Joined, Graded
<1>10. Place(t, g, p) = side
  BY <1>2, <1>3, <1>4, NilNoBlock, JoinedSides DEF Joined
<1>11. /\ t1 \in Trees /\ Rotated(t, t1, p, side)
  <2>1. Kid(t, p, far) \in Index \ {p} /\ Up(t, p) \notin {p, Kid(t, p, far)}
    BY <1>4, <1>5
  <2> HIDE DEF t1, far
  <2>2. p \in Index
    BY <1>4
  <2>3. QED
    BY <2>1, <2>2, RotateLinks DEF t1, far
<1>12. IsTree(t1, U)
  BY <1>4, <1>5, <1>11, RotatedTree
<1> HIDE DEF t1
<1>13. /\ t1.root = t.root
       /\ \A j \in Index :
            /\ Up(t1, j) = IF j = toP THEN p ELSE IF j = p THEN middle
                           ELSE IF j = middle THEN g ELSE Up(t, j)
            /\ \A s \in Sides :
                Kid(t1, j, s) = IF j = middle /\ s = side THEN p
                                ELSE IF j = p /\ s = far THEN toP
                                ELSE IF j = g /\ s = side THEN middle ELSE Kid(t, j, s)
  BY <1>2, <1>4, <1>10, <1>11 DEF Rotated
<1> HIDE DEF far, p, middle, toP, toG, up, place
<1>14. g \in Index /\ p \in Index /\ middle \in Index
  BY <1>4, <1>5
<1>15. /\ Kid(t1, g, side) = middle /\ Kid(t1, middle, far) = toG /\ Up(t1, g) = up
  <2>1. toP # g
    BY <1>2, <1>4, <1>5, <1>6, <1>7
  <2>2. Kid(t1, g, side) = middle /\ Kid(t1, middle, far) = Kid(t, middle, far)
    BY <1>3, <1>4, <1>5, <1>13, <1>14
  <2>3. Up(t1, g) = Up(t, g)
    BY <1>4, <1>5, <1>13, <1>14, <2>1
  <2>4. QED
    BY <2>2, <2>3 DEF up, toG
<1>16. up # middle
  BY <1>2, <1>4, <1>5, <1>6, <1>9
<1>17. up # g
  BY <1>2, <1>6, <1>9
<1>18. t2 \in Trees /\ Rotated(t1, t2, g, far)
  <2>1. Kid(t1, g, Across(far)) \in Index \ {g} /\ Up(t1, g) \notin {g, Kid(t1, g, Across(far))}
    BY <1>3, <1>5, <1>14, <1>15, <1>16, <1>17
  <2> HIDE DEF t2
  <2>2. QED
    BY <1>3, <1>11, <1>14, <2>1, RotateLinks DEF t2
<1>19. IsTree(t2, U)
  BY <1>2, <1>3, <1>5, <1>11, <1>12, <1>15, <1>18, RotatedTree
<1> HIDE DEF t2
<1>20. up # NIL => Place(t1, up, g) = place
  <2>1. ASSUME up # NIL PROVE Kid(t1, up, "left") = Kid(t, up, "left")
    <3>1. up \in Index /\ "left" \in Sides /\ up # p
      BY <1>4, <1>9, <2>1 DEF Sides
    <3>2. QED
      BY <1>13, <1>16, <1>17, <3>1
  <2>2. QED
    BY <2>1 DEF Place, place
<1>21. /\ t2.root = IF up = NIL THEN middle ELSE t.root
       /\ \A j \in Index :
            /\ Up(t2, j) = IF j = toG THEN g ELSE IF j = g THEN middle
                           ELSE IF j = middle THEN up ELSE Up(t1, j)
            /\ \A s \in Sides :
                Kid(t2, j, s) = IF j = middle /\ s = far THEN g
                                ELSE IF j = g /\ s = side THEN toG
                                ELSE IF j = up /\ s = Place(t1, up, g) THEN middle
                                ELSE Kid(t1, j, s)
  BY <1>3, <1>13, <1>15, <1>18 DEF Rotated
<1>22. /\ u.root = IF up = NIL THEN middle ELSE t.root
       /\ \A j \in Index :
            /\ Up(u, j) = IF j = toG THEN g ELSE IF j = toP THEN p
                          ELSE IF j = middle THEN up
                          ELSE IF j = p \/ j = g THEN middle ELSE Up(t, j)
            /\ \A s \in Sides :
                Kid(u, j, s) = IF j = middle THEN (IF s = side THEN p ELSE g)
                               ELSE IF j = p /\ s = far THEN toP
                               ELSE IF j = g /\ s = side THEN toG
                               ELSE IF j = up /\ s = place THEN middle
                               ELSE Kid(t, j, s)
  BY DEF Doubled, far, p, middle, toP, toG, up, place
<1>23. ASSUME NEW j \in Index
       PROVE  Up(u, j) = Up(t2, j)
  <2>1. toP # g /\ toP # middle
    BY <1>2, <1>4, <1>5, <1>6, <1>7, <1>14, NilNoBlock
  <2>2. QED
    BY <1>4, <1>5, <1>13, <1>21, <1>22, <2>1
<1>24. ASSUME NEW j \in Index, NEW s \in Sides
       PROVE  Kid(u, j, s) = Kid(t2, j, s)
  <2>1. s = side \/ s = far
    BY <1>3
  <2>2. j = up => up # NIL /\ Place(t1, up, g) = place
    BY <1>20, NilNoBlock
  <2>3. up # p
    BY <1>4
  <2>4. QED
    BY <1>3, <1>4, <1>5, <1>13, <1>16, <1>17, <1>21, <1>22, <2>1, <2>2, <2>3
<1>25. SameLinks(t2, u)
  BY <1>21, <1>22, <1>23, <1>24 DEF SameLinks
<1>26. QED
  BY <1>19, <1>25, SameLinksTree

-----------------------------------------------------------------------------
(* Walks.                                                                  *)

\* Induction over the natural numbers, for a property given as the set X of the
\* numbers that have it.
LEMMA NatSetInduction ==
    ASSUME NEW X, 0 \in X, \A n \in Nat : n \in X => n + 1 \in X
    PROVE  \A n \in Nat : n \in X
<1> SUFFICES ASSUME NEW n \in Nat PROVE n \in X
  OBVIOUS
<1> DEFINE S == 0 .. n
           Y == {T \in SUBSET S : \A m \in Nat : T = 0 .. m => m \in X}
<1>1. IsFiniteSet(S)
  BY FS_Interval
<1>2. ASSUME NEW T \in SUBSET S, \A U \in SUBSET T : U # T => U \in Y
      PROVE  T \in Y
  <2> SUFFICES ASSUME NEW m \in Nat, T = 0 .. m PROVE m \in X
    OBVIOUS
  <2>1. CASE m = 0
    BY <2>1
  <2>2. CASE m # 0
    <3> DEFINE k == m - 1
    <3>1. k \in Nat /\ m = k + 1 /\ 0 .. k \in SUBSET T /\ 0 .. k # T
      <4>1. k \in Nat /\ m = k + 1
        BY <2>2
      <4>2. m \in T /\ m \notin 0 .. k
        BY <4>1
      <4>3. QED
        BY <4>1, <4>2
    <3>2. 0 .. k \in Y
      BY <1>2, <3>1
    <3>3. k \in X
      BY <3>1, <3>2
    <3>4. QED
      BY <3>1, <3>3
  <2>3. QED
    BY <2>1, <2>2
<1>3. \A T \in SUBSET S : (\A U \in SUBSET T : U # T => U \in Y) => T \in Y
  BY <1>2
<1>4. S \in Y
  <2> HIDE DEF S, Y
  <2>1. \A T \in SUBSET S : T \in Y
    BY <1>1, <1>3, SubsetInduction
  <2>2. QED
    BY <2>1
<1>5. QED
  BY <1>4

\* f repeats a step n times, from a.
IsIteration(f, a, step, N) ==
    f = [n \in 0 .. N |-> IF n = 0 THEN a ELSE step[f[n - 1]]]

\* Repeating a step is well defined and stays in the set that the step keeps.
LEMMA IterationExists ==
    ASSUME NEW S, NEW step \in [S -> S], NEW a \in S, NEW N \in Nat
    PROVE  \E f \in [0 .. N -> S] : IsIteration(f, a, step, N)
<1> DEFINE X == {n \in Nat : \E f \in [0 .. n -> S] : IsIteration(f, a, step, n)}
<1>1. 0 \in X
  <2> DEFINE f == [n \in 0 .. 0 |-> a]
  <2>1. f \in [0 .. 0 -> S]
    OBVIOUS
  <2>2. \A n \in 0 .. 0 : n = 0
    OBVIOUS
  <2>3. f = [n \in 0 .. 0 |-> IF n = 0 THEN a ELSE step[f[n - 1]]]
    BY <2>2
  <2> HIDE DEF f
  <2>4. QED
    BY <2>1, <2>3 DEF IsIteration
<1>2. ASSUME NEW n \in Nat, n \in X
      PROVE  n + 1 \in X
  <2>1. PICK f \in [0 .. n -> S] : IsIteration(f, a, step, n)
    BY <1>2
  <2> DEFINE g == [m \in 0 .. (n + 1) |-> IF m = n + 1 THEN step[f[n]] ELSE f[m]]
  <2>2. f[n] \in S /\ step[f[n]] \in S
    OBVIOUS
  <2>3. g \in [0 .. (n + 1) -> S]
    <3>1. ASSUME NEW m \in 0 .. (n + 1) PROVE g[m] \in S
      BY <2>2
    <3>2. QED
      BY <3>1
  <2>4. ASSUME NEW m \in 0 .. (n + 1)
        PROVE  g[m] = IF m = 0 THEN a ELSE step[g[m - 1]]
    <3>1. \A k \in 0 .. n : f[k] = IF k = 0 THEN a ELSE step[f[k - 1]]
      BY <2>1 DEF IsIteration
    <3>2. CASE m = n + 1
      <4>1. m # 0 /\ m - 1 = n /\ n \in 0 .. n /\ n # n + 1
        BY <3>2
      <4>2. g[m - 1] = f[n]
        BY <4>1
      <4>3. QED
        BY <3>2, <4>1, <4>2
    <3>3. CASE m # n + 1
      <4>1. m \in 0 .. n /\ (m # 0 => m - 1 \in 0 .. n /\ m - 1 # n + 1)
        BY <3>3
      <4>2. QED
        BY <3>1, <3>3, <4>1
    <3>4. QED
      BY <3>2, <3>3
  <2>5. IsIteration(g, a, step, n + 1)
    <3>1. g = [m \in 0 .. (n + 1) |-> g[m]]
      BY <2>3
    <3> HIDE DEF g
    <3>2. QED
      BY <2>4, <3>1 DEF IsIteration
  <2> HIDE DEF g
  <2>6. QED
    BY <2>3, <2>5
<1>3. \A n \in Nat : n \in X
  <2> HIDE DEF X
  <2>1. QED
    BY <1>1, <1>2, NatSetInduction
<1>4. QED
  BY <1>3

-----------------------------------------------------------------------------
(* What is below a block.                                                  *)

\* X has with each block its kids.
ClosedDown(t, X) == \A i \in X, side \in Sides : Kid(t, i, side) \in X \cup {NIL}

\* The blocks that are reached from a.
Below(t, U, a) ==
    {j \in U : \A X \in SUBSET U : a \in X \cup {NIL} /\ ClosedDown(t, X) => j \in X}

\* It is the least such set.
LEMMA BelowLeast ==
    ASSUME NEW t, NEW U \in SUBSET Index, Joined(t, U), NEW a \in U \cup {NIL}
    PROVE  /\ Below(t, U, a) \in SUBSET U
           /\ a \in Below(t, U, a) \cup {NIL}
           /\ ClosedDown(t, Below(t, U, a))
           /\ \A X \in SUBSET U :
                a \in X \cup {NIL} /\ ClosedDown(t, X) => Below(t, U, a) \subseteq X
<1>1. Below(t, U, a) \in SUBSET U
  BY DEF Below
<1>2. a \in Below(t, U, a) \cup {NIL}
  <2>1. \A X \in SUBSET U : a # NIL /\ a \in X \cup {NIL} => a \in X
    OBVIOUS
  <2>2. QED
    BY <2>1 DEF Below
<1>3. ASSUME NEW i \in Below(t, U, a), NEW side \in Sides, Kid(t, i, side) # NIL
      PROVE  Kid(t, i, side) \in Below(t, U, a)
  <2>1. i \in U /\ Kid(t, i, side) \in U
    BY <1>1, <1>3 DEF Joined
  <2>2. ASSUME NEW X \in SUBSET U, a \in X \cup {NIL}, ClosedDown(t, X)
        PROVE  Kid(t, i, side) \in X
    <3>1. i \in X
      BY <2>2 DEF Below
    <3>2. QED
      BY <1>3, <2>2, <3>1 DEF ClosedDown
  <2>3. QED
    BY <2>1, <2>2 DEF Below
<1>4. ClosedDown(t, Below(t, U, a))
  BY <1>3 DEF ClosedDown
<1>5. ASSUME NEW X \in SUBSET U, a \in X \cup {NIL}, ClosedDown(t, X)
      PROVE  Below(t, U, a) \subseteq X
  BY <1>5 DEF Below
<1>6. QED
  BY <1>1, <1>2, <1>4, <1>5

\* Nothing is below no block.
LEMMA BelowNil ==
    ASSUME NEW t, NEW U \in SUBSET Index
    PROVE  Below(t, U, NIL) = {}
<1>1. ClosedDown(t, {})
  BY DEF ClosedDown
<1>2. QED
  BY <1>1 DEF Below

\* A block is not below its kids, and what is below both is nothing.
LEMMA BelowApart ==
    ASSUME NEW t, NEW U \in SUBSET Index, Joined(t, U), NEW h, Graded(t, U, h), NEW i \in U,
           NEW side \in Sides
    PROVE  /\ i \notin Below(t, U, Kid(t, i, side))
           /\ Below(t, U, Kid(t, i, side)) \cap Below(t, U, Kid(t, i, Across(side))) = {}
<1> DEFINE k == Kid(t, i, side)
           l == Kid(t, i, Across(side))
           B == Below(t, U, k)
           C == Below(t, U, l)
<1>1. Across(side) \in Sides /\ k \in U \cup {NIL} /\ l \in U \cup {NIL}
  BY AcrossSides DEF Joined
<1>2. \A j \in U, s \in Sides : Kid(t, j, s) # NIL =>
        Kid(t, j, s) \in U /\ Up(t, Kid(t, j, s)) = j /\ h[Kid(t, j, s)] < h[j]
  <2> SUFFICES ASSUME NEW j \in U, NEW s \in Sides, Kid(t, j, s) # NIL
               PROVE  Kid(t, j, s) \in U /\ Up(t, Kid(t, j, s)) = j /\ h[Kid(t, j, s)] < h[j]
    OBVIOUS
  <2>1. Kid(t, j, s) \in U /\ Up(t, Kid(t, j, s)) = j /\ Kid(t, j, s) # t.root
    BY NilNoBlock DEF Joined
  <2>2. QED
    BY <2>1 DEF Graded
<1>3. \A j \in U : h[j] \in Nat
  BY DEF Graded
<1>4. l # NIL /\ k # NIL => l # k
  BY DEF Joined
<1> HIDE DEF k, l
<1>5. ASSUME NEW r \in U \cup {NIL}, r # NIL => r \in U /\ Up(t, r) = i /\ h[r] < h[i]
      PROVE  i \notin Below(t, U, r)
  <2> DEFINE X == {j \in U : h[j] < h[i]}
  <2>1. ClosedDown(t, X) /\ r \in X \cup {NIL}
    <3>1. ASSUME NEW j \in X, NEW s \in Sides, Kid(t, j, s) # NIL
          PROVE  Kid(t, j, s) \in X
      BY <1>2, <1>3, <3>1
    <3>2. QED
      BY <1>5, <3>1 DEF ClosedDown
  <2>2. Below(t, U, r) \subseteq X
    BY <2>1, BelowLeast
  <2>3. QED
    BY <1>3, <2>2
<1>6. i \notin B /\ i \notin C
  <2>1. /\ k # NIL => k \in U /\ Up(t, k) = i /\ h[k] < h[i]
        /\ l # NIL => l \in U /\ Up(t, l) = i /\ h[l] < h[i]
    BY <1>1, <1>2 DEF k, l
  <2>2. QED
    BY <1>1, <1>5, <2>1
<1>7. ASSUME NEW j \in C, j # l
      PROVE  Up(t, j) \in C
  <2> DEFINE X == {m \in C : m = l \/ Up(t, m) \in C}
  <2>1. C \in SUBSET U /\ ClosedDown(t, C) /\ l \in C \cup {NIL}
    BY <1>1, BelowLeast
  <2>2. ASSUME NEW m \in X, NEW s \in Sides, Kid(t, m, s) # NIL
        PROVE  Kid(t, m, s) \in X
    BY <1>2, <2>1, <2>2 DEF ClosedDown
  <2>3. ClosedDown(t, X) /\ X \in SUBSET U /\ l \in X \cup {NIL}
    BY <2>1, <2>2 DEF ClosedDown
  <2>4. C \subseteq X
    BY <1>1, <2>3, BelowLeast
  <2>5. QED
    BY <1>7, <2>4
<1>8. B \cap C = {}
  <2> DEFINE X == {j \in U : j \notin C /\ h[j] < h[i]}
  <2>1. k \in X \cup {NIL}
    <3> SUFFICES ASSUME k # NIL PROVE k \in X
      OBVIOUS
    <3>1. k \in U /\ Up(t, k) = i /\ h[k] < h[i]
      BY <1>1, <1>2 DEF k
    <3>2. k \in C => k # l
      <4>1. CASE l = NIL
        BY <3>1, <4>1, NilNoBlock
      <4>2. CASE l # NIL
        BY <1>4, <4>2
      <4>3. QED
        BY <4>1, <4>2
    <3>3. k \notin C
      BY <1>6, <1>7, <3>1, <3>2
    <3>4. QED
      BY <3>1, <3>3
  <2>2. ASSUME NEW j \in X, NEW s \in Sides, Kid(t, j, s) # NIL
        PROVE  Kid(t, j, s) \in X
    <3> DEFINE m == Kid(t, j, s)
    <3>1. m \in U /\ Up(t, m) = j /\ h[m] < h[j] /\ h[m] < h[i]
      BY <1>2, <1>3, <2>2
    <3>2. m = l => l # NIL /\ Up(t, l) = i
      BY <1>1, <1>2, <2>2 DEF l
    <3>3. m # l
      BY <1>3, <3>1, <3>2
    <3>4. m \notin C
      BY <1>7, <3>1, <3>3
    <3>5. QED
      BY <3>1, <3>4
  <2>3. ClosedDown(t, X)
    BY <2>2 DEF ClosedDown
  <2>4. B \subseteq X
    BY <1>1, <2>1, <2>3, BelowLeast
  <2>5. QED
    BY <2>4
<1>9. QED
  BY <1>6, <1>8 DEF k, l

\* A block, and what is below its kids.
LEMMA BelowParts ==
    ASSUME NEW t, NEW U \in SUBSET Index, Joined(t, U), NEW i \in U, NEW side \in Sides
    PROVE  Below(t, U, i) = {i} \cup Below(t, U, Kid(t, i, side))
                                \cup Below(t, U, Kid(t, i, Across(side)))
<1> DEFINE k == Kid(t, i, side)
           l == Kid(t, i, Across(side))
           A == Below(t, U, i)
           B == Below(t, U, k)
           C == Below(t, U, l)
           X == {i} \cup B \cup C
<1>1. Across(side) \in Sides /\ Sides = {side, Across(side)} /\ k \in U \cup {NIL} /\ l \in U \cup {NIL}
  BY AcrossSides DEF Joined
<1>2. A \in SUBSET U /\ i \in A /\ ClosedDown(t, A)
  <2>1. i # NIL
    BY NilNoBlock
  <2>2. QED
    BY <2>1, BelowLeast
<1>3. /\ B \in SUBSET U /\ k \in B \cup {NIL} /\ ClosedDown(t, B)
      /\ C \in SUBSET U /\ l \in C \cup {NIL} /\ ClosedDown(t, C)
  BY <1>1, BelowLeast
<1>4. k \in A \cup {NIL} /\ l \in A \cup {NIL}
  BY <1>1, <1>2 DEF ClosedDown
<1>5. B \subseteq A /\ C \subseteq A
  BY <1>1, <1>2, <1>4, BelowLeast
<1>6. ClosedDown(t, X)
  <2>1. ASSUME NEW j \in X, NEW s \in Sides
        PROVE  Kid(t, j, s) \in X \cup {NIL}
    <3>1. j = i \/ j \in B \/ j \in C
      OBVIOUS
    <3>2. CASE j = i
      <4>1. Kid(t, j, s) = k \/ Kid(t, j, s) = l
        BY <1>1, <3>2
      <4>2. QED
        BY <1>3, <4>1
    <3>3. CASE j \in B \/ j \in C
      BY <1>3, <3>3 DEF ClosedDown
    <3>4. QED
      BY <3>1, <3>2, <3>3
  <2>2. QED
    BY <2>1 DEF ClosedDown
<1>7. X \in SUBSET U /\ i \in X
  BY <1>3
<1>8. A \subseteq X
  BY <1>6, <1>7, BelowLeast
<1>9. QED
  BY <1>2, <1>5, <1>8

\* Numbers of finitely many things have a largest one.
LEMMA HighestExists ==
    ASSUME NEW S, IsFiniteSet(S), S # {}, NEW h, \A i \in S : h[i] \in Nat
    PROVE  \E i \in S : \A j \in S : h[j] <= h[i]
<1> DEFINE X == {T \in SUBSET S : T = {} \/ \E i \in T : \A j \in T : h[j] <= h[i]}
<1>1. ASSUME NEW T \in SUBSET S, \A V \in SUBSET T : V # T => V \in X
      PROVE  T \in X
  <2> SUFFICES ASSUME T # {} PROVE \E i \in T : \A j \in T : h[j] <= h[i]
    OBVIOUS
  <2>1. PICK z \in T : TRUE
    OBVIOUS
  <2>2. T \ {z} \in X
    BY <1>1, <2>1
  <2>3. CASE T \ {z} = {}
    BY <2>1, <2>3
  <2>4. CASE T \ {z} # {}
    <3>1. PICK i \in T \ {z} : \A j \in T \ {z} : h[j] <= h[i]
      BY <2>2, <2>4
    <3>2. h[z] \in Nat /\ \A j \in T : h[j] \in Nat
      OBVIOUS
    <3>3. CASE h[i] <= h[z]
      BY <3>1, <3>2, <3>3
    <3>4. CASE h[z] <= h[i]
      BY <3>1, <3>2, <3>4
    <3>5. QED
      BY <3>2, <3>3, <3>4
  <2>5. QED
    BY <2>3, <2>4
<1>2. \A T \in SUBSET S : (\A V \in SUBSET T : V # T => V \in X) => T \in X
  BY <1>1
<1>3. \A T \in SUBSET S : T \in X
  <2> HIDE DEF X
  <2>1. QED
    BY <1>2, SubsetInduction
<1>4. QED
  BY <1>3

\* All blocks in use are reached from the root.
LEMMA BelowRoot ==
    ASSUME NEW t, NEW U \in SUBSET Index, IsTree(t, U)
    PROVE  Below(t, U, t.root) = U
<1> DEFINE B == Below(t, U, t.root)
           Rest == U \ B
<1>1. PICK h : Graded(t, U, h)
  BY DEF IsTree
<1>2. Joined(t, U) /\ t.root \in U \cup {NIL}
  BY DEF IsTree, Joined
<1>3. B \in SUBSET U /\ t.root \in B \cup {NIL} /\ ClosedDown(t, B)
  BY <1>2, BelowLeast
<1>4. ASSUME Rest # {}
      PROVE  FALSE
  <2>1. IsFiniteSet(Rest)
    BY TreeAssumption, FS_Subset
  <2>2. \A i \in U : h[i] \in Nat
    BY <1>1 DEF Graded
  <2>3. PICK i \in Rest : \A j \in Rest : h[j] <= h[i]
    <3> HIDE DEF B
    <3>1. \A j \in Rest : h[j] \in Nat
      BY <2>2
    <3> HIDE DEF Rest
    <3>2. QED
      BY <1>4, <2>1, <3>1, HighestExists
  <2>4. i \in U /\ i # t.root
    BY <1>3, NilNoBlock
  <2>5. Up(t, i) \in U /\ \E side \in Sides : Kid(t, Up(t, i), side) = i
    BY <1>2, <2>4 DEF Joined
  <2>6. h[i] < h[Up(t, i)]
    BY <1>1, <2>4 DEF Graded
  <2>7. Up(t, i) \in B
    BY <2>2, <2>3, <2>4, <2>5, <2>6
  <2>8. i \in B
    BY <2>4, <2>5, <2>7, <1>3, NilNoBlock DEF ClosedDown
  <2>9. QED
    BY <2>8
<1>5. QED
  BY <1>3, <1>4

\* How much is below each block.
Weights(t, U) == [i \in U |-> Cardinality(Below(t, U, i))]

\* It grows with every link up and is bounded by the number of blocks.
LEMMA WeightsGraded ==
    ASSUME NEW t, NEW U \in SUBSET Index, IsTree(t, U)
    PROVE  /\ Graded(t, U, Weights(t, U))
           /\ \A i \in U : Weights(t, U)[i] \in 1 .. Size
<1> DEFINE W(i) == Cardinality(Below(t, U, i))
<1>1. PICK h : Graded(t, U, h)
  BY DEF IsTree
<1>2. Joined(t, U)
  BY DEF IsTree
<1>3. ASSUME NEW i \in U
      PROVE  IsFiniteSet(Below(t, U, i)) /\ W(i) \in 1 .. Size
  <2>1. Below(t, U, i) \in SUBSET Index /\ i \in Below(t, U, i)
    BY <1>2, BelowLeast, NilNoBlock
  <2>2. IsFiniteSet(Below(t, U, i)) /\ W(i) <= Size
    BY <2>1, TreeAssumption, FS_Subset DEF Size
  <2>3. W(i) \in Nat /\ W(i) # 0 /\ Size \in Nat
    BY <2>1, <2>2, TreeAssumption, FS_CardinalityType, FS_EmptySet DEF Size
  <2>4. QED
    BY <2>2, <2>3
<1>4. ASSUME NEW i \in U, i # t.root
      PROVE  W(i) < W(Up(t, i))
  <2> DEFINE j == Up(t, i)
             A == Below(t, U, j)
             B == Below(t, U, i)
  <2>1. j \in U
    BY <1>2, <1>4 DEF Joined
  <2>2. PICK side \in Sides : Kid(t, j, side) = i
    BY <1>2, <1>4 DEF Joined
  <2>3. A = {j} \cup Below(t, U, Kid(t, j, side)) \cup Below(t, U, Kid(t, j, Across(side)))
    BY <1>2, <2>1, BelowParts
  <2>4. j \notin Below(t, U, Kid(t, j, side))
    BY <1>1, <1>2, <2>1, BelowApart
  <2>5. B \in SUBSET A /\ B # A
    BY <2>2, <2>3, <2>4
  <2>6. IsFiniteSet(A) /\ W(j) \in 1 .. Size /\ W(i) \in 1 .. Size
    BY <1>3, <2>1
  <2>7. W(i) <= W(j) /\ W(i) # W(j)
    BY <2>5, <2>6, FS_Subset
  <2> HIDE DEF A, B, W
  <2>8. QED
    BY <2>6, <2>7
<1>5. Size \in Nat
  BY TreeAssumption, FS_CardinalityType DEF Size
<1>6. QED
  BY <1>3, <1>4, <1>5, <1>2 DEF Graded, Weights, Joined

-----------------------------------------------------------------------------
(* Walks end.                                                              *)

\* w grows with every link up and leaves Size steps for a walk down.
Weighed(t, U, w) == Graded(t, U, w) /\ \A i \in U : w[i] \in 1 .. Size

\* f goes from a to the next block as long as there is one.
IsWalk(f, U, a, next) ==
    /\ f[0] = a
    /\ \A n \in 1 .. Size : f[n - 1] \in U =>
        f[n] = IF next[f[n - 1]] = NIL THEN f[n - 1] ELSE next[f[n - 1]]

\* A walk on which w becomes smaller has ended after Size steps.
LEMMA WalkEnds ==
    ASSUME NEW U \in SUBSET Index, NEW w, \A i \in U : w[i] \in 1 .. Size,
           NEW next \in [U -> U \cup {NIL}],
           \A i \in U : next[i] # NIL => w[next[i]] < w[i],
           NEW a \in U, NEW f, IsWalk(f, U, a, next)
    PROVE  LET b == f[Size]
           IN  /\ b \in U /\ next[b] = NIL /\ w[b] <= w[a]
               /\ b = a \/ \E i \in U : next[i] = b /\ w[i] <= w[a]
<1> DEFINE At(n) == /\ f[n] \in U /\ w[f[n]] <= w[a]
                    /\ next[f[n]] = NIL \/ w[f[n]] + n <= w[a]
                    /\ f[n] = a \/ \E i \in U : next[i] = f[n] /\ w[i] <= w[a]
           X == {n \in Nat : n <= Size => At(n)}
<1>1. Size \in Nat
  BY TreeAssumption, FS_CardinalityType DEF Size
<1>2. \A i \in U : w[i] \in Nat /\ w[i] >= 1 /\ w[i] <= Size
  BY <1>1
<1>3. 0 \in X
  <2>1. f[0] = a
    BY DEF IsWalk
  <2>2. At(0)
    BY <1>2, <2>1
  <2>3. QED
    BY <2>2
<1>4. ASSUME NEW n \in Nat, n \in X
      PROVE  n + 1 \in X
  <2> SUFFICES ASSUME n + 1 <= Size PROVE At(n + 1)
    OBVIOUS
  <2>1. At(n)
    BY <1>1, <1>4
  <2>2. f[n + 1] = IF next[f[n]] = NIL THEN f[n] ELSE next[f[n]]
    <3>1. n + 1 \in 1 .. Size /\ (n + 1) - 1 = n
      BY <1>1
    <3>2. QED
      BY <2>1, <3>1 DEF IsWalk
  <2> DEFINE b == f[n]
             c == f[n + 1]
  <2>3. /\ b \in U /\ w[b] <= w[a] /\ (next[b] = NIL \/ w[b] + n <= w[a])
        /\ b = a \/ \E i \in U : next[i] = b /\ w[i] <= w[a]
        /\ c = IF next[b] = NIL THEN b ELSE next[b]
    BY <2>1, <2>2
  <2> HIDE DEF b, c
  <2>4. CASE next[b] = NIL
    <3>1. c = b
      BY <2>3, <2>4
    <3>2. QED
      BY <2>3, <2>4, <3>1 DEF c
  <2>5. CASE next[b] # NIL
    <3>1. c = next[b] /\ c \in U /\ w[c] < w[b] /\ w[b] + n <= w[a]
      BY <2>3, <2>5
    <3>2. w[c] <= w[a] /\ w[c] + (n + 1) <= w[a]
      BY <1>2, <2>3, <3>1
    <3>3. QED
      BY <2>3, <3>1, <3>2 DEF c
  <2>6. QED
    BY <2>4, <2>5
<1>5. \A n \in Nat : n \in X
  <2> HIDE DEF X
  <2>1. QED
    BY <1>3, <1>4, NatSetInduction
<1>6. At(Size)
  BY <1>1, <1>5
<1>7. next[f[Size]] = NIL
  <2>1. f[Size] \in U
    BY <1>6
  <2>2. ~ (w[f[Size]] + Size <= w[a])
    BY <1>1, <1>2, <2>1
  <2>3. QED
    BY <1>6, <2>2
<1>8. QED
  BY <1>6, <1>7

\* The recursion of Outermost is such a walk.
LEMMA OutermostWalk ==
    ASSUME NEW t \in Trees, NEW U \in SUBSET Index, Joined(t, U), NEW a \in U, NEW side \in Sides
    PROVE  \E f : /\ IsWalk(f, U, a, [j \in U |-> Kid(t, j, side)])
                  /\ Outermost(t, a, side) = f[Size]
<1> DEFINE Step(j) == IF Child(t, j, side) = NIL THEN j ELSE Child(t, j, side)
           Eq(f) == f = [n \in 0 .. Size |-> IF n = 0 THEN a ELSE Step(f[n - 1])]
           next == [j \in U |-> Kid(t, j, side)]
           step == [j \in U |-> Step(j)]
           f == CHOOSE f : Eq(f)
<1>1. Outermost(t, a, side) = f[Size]
  BY DEF Outermost
<1>2. Size \in Nat
  BY TreeAssumption, FS_CardinalityType DEF Size
<1>3. \A j \in U : Child(t, j, side) = Kid(t, j, side) /\ Kid(t, j, side) \in U \cup {NIL}
  BY ChildIsKid DEF Joined
<1>4. step \in [U -> U]
  BY <1>3
<1>5. \E g : Eq(g)
  <2> HIDE DEF step
  <2>1. PICK g \in [0 .. Size -> U] : IsIteration(g, a, step, Size)
    BY <1>2, <1>4, IterationExists
  <2>2. g = [n \in 0 .. Size |-> IF n = 0 THEN a ELSE step[g[n - 1]]]
    BY <2>1 DEF IsIteration
  <2>3. ASSUME NEW n \in 0 .. Size
        PROVE  (IF n = 0 THEN a ELSE step[g[n - 1]]) = (IF n = 0 THEN a ELSE Step(g[n - 1]))
    <3>1. n # 0 => n - 1 \in 0 .. Size
      BY <1>2
    <3>2. n # 0 => g[n - 1] \in U
      BY <3>1
    <3>3. QED
      BY <3>2 DEF step
  <2>4. Eq(g)
    <3> HIDE DEF Step
    <3>1. QED
      BY <2>2, <2>3
  <2>5. QED
    BY <2>4
<1>6. Eq(f)
  <2> HIDE DEF Eq
  <2>1. QED
    BY <1>5
<1>7. IsWalk(f, U, a, next)
  <2> HIDE DEF f
  <2>1. f[0] = a
    BY <1>2, <1>6
  <2>2. ASSUME NEW n \in 1 .. Size, f[n - 1] \in U
        PROVE  f[n] = IF next[f[n - 1]] = NIL THEN f[n - 1] ELSE next[f[n - 1]]
    <3>1. n \in 0 .. Size /\ n # 0
      BY <1>2
    <3>2. f[n] = Step(f[n - 1])
      BY <1>6, <3>1
    <3>3. QED
      BY <1>3, <2>2, <3>2
  <2>3. QED
    BY <2>1, <2>2 DEF IsWalk
<1>8. QED
  BY <1>1, <1>7

\* The outermost block on a side has no kid there and is in every set that has the
\* first block and keeps the kids on that side.
LEMMA OutermostIn ==
    ASSUME NEW t \in Trees, NEW U \in SUBSET Index, Joined(t, U), NEW w, Weighed(t, U, w),
           NEW side \in Sides, NEW Y \in SUBSET U,
           \A j \in Y : Kid(t, j, side) \in Y \cup {NIL},
           NEW a \in Y
    PROVE  Outermost(t, a, side) \in Y /\ Kid(t, Outermost(t, a, side), side) = NIL
<1> DEFINE next == [j \in U |-> Kid(t, j, side)]
           below == [j \in Y |-> Kid(t, j, side)]
<1>1. PICK f : IsWalk(f, U, a, next) /\ Outermost(t, a, side) = f[Size]
  BY OutermostWalk
<1>2. \A j \in U : next[j] = Kid(t, j, side)
  OBVIOUS
<1>3. below \in [Y -> Y \cup {NIL}] /\ \A j \in Y : below[j] = Kid(t, j, side)
  OBVIOUS
<1> HIDE DEF next, below
<1>4. IsWalk(f, Y, a, below)
  BY <1>1, <1>2, <1>3 DEF IsWalk
<1>5. \A j \in Y : below[j] # NIL => w[below[j]] < w[j]
  BY <1>3, Apart DEF Weighed
<1>6. \A j \in Y : w[j] \in 1 .. Size
  BY DEF Weighed
<1>7. Y \in SUBSET Index
  OBVIOUS
<1>8. f[Size] \in Y /\ below[f[Size]] = NIL
  BY <1>3, <1>4, <1>5, <1>6, <1>7, WalkEnds
<1>9. QED
  BY <1>1, <1>3, <1>8

\* The outermost block on a side is in use and has no kid there; unless it is the
\* first block, it is a kid on that side.
LEMMA OutermostLinks ==
    ASSUME NEW t \in Trees, NEW U \in SUBSET Index, Joined(t, U), NEW w, Weighed(t, U, w),
           NEW a \in U, NEW side \in Sides
    PROVE  LET b == Outermost(t, a, side)
           IN  /\ b \in U /\ Kid(t, b, side) = NIL /\ w[b] <= w[a]
               /\ b = a \/ \E i \in U : Kid(t, i, side) = b /\ w[i] <= w[a]
<1> DEFINE Y == {b \in U : /\ w[b] <= w[a]
                           /\ b = a \/ \E i \in U : Kid(t, i, side) = b /\ w[i] <= w[a]}
<1>1. \A j \in U : w[j] \in Nat
  BY DEF Weighed, Graded
<1>2. a \in Y /\ Y \in SUBSET U
  BY <1>1
<1>3. ASSUME NEW j \in Y
      PROVE  Kid(t, j, side) \in Y \cup {NIL}
  <2> SUFFICES ASSUME Kid(t, j, side) # NIL PROVE Kid(t, j, side) \in Y
    OBVIOUS
  <2> DEFINE k == Kid(t, j, side)
  <2>1. k \in U /\ w[k] < w[j] /\ w[j] <= w[a] /\ j \in U
    BY Apart DEF Weighed
  <2> HIDE DEF k
  <2>2. w[k] <= w[a]
    BY <1>1, <2>1
  <2>3. QED
    BY <2>1, <2>2 DEF k
<1> HIDE DEF Y
<1>4. Outermost(t, a, side) \in Y /\ Kid(t, Outermost(t, a, side), side) = NIL
  BY <1>2, <1>3, OutermostIn
<1>5. QED
  BY <1>4 DEF Y

\* The side on which the search for the place of a value goes on.
DescentSide(t, value, i) == IF Above(value, t.node[i].value) THEN "right" ELSE "left"

\* The search goes down to a block without a kid on that side, and stays in every
\* set that has the root and keeps the blocks the search goes on to.
LEMMA DescendIn ==
    ASSUME NEW t \in Trees, NEW U \in SUBSET Index, Joined(t, U), NEW w, Weighed(t, U, w),
           NEW value, NEW Y \in SUBSET U, t.root \in Y,
           \A j \in Y : Kid(t, j, DescentSide(t, value, j)) \in Y \cup {NIL}
    PROVE  LET place == Descend(t, value)
           IN  /\ place = [parent |-> place.parent, side |-> place.side]
               /\ place.parent \in Y /\ place.side = DescentSide(t, value, place.parent)
               /\ Kid(t, place.parent, place.side) = NIL
<1> DEFINE Side(i) == IF Above(value, t.node[i].value) THEN "right" ELSE "left"
           Step(j) == IF Child(t, j, Side(j)) = NIL THEN j ELSE Child(t, j, Side(j))
           Eq(f) == f = [n \in 0 .. Size |-> IF n = 0 THEN t.root ELSE Step(f[n - 1])]
           next == [j \in Y |-> Kid(t, j, Side(j))]
           step == [j \in Y |-> Step(j)]
           f == CHOOSE f : Eq(f)
<1>1. Descend(t, value) = [parent |-> f[Size], side |-> Side(f[Size])]
  BY DEF Descend
<1>2. Size \in Nat
  BY TreeAssumption, FS_CardinalityType DEF Size
<1>3. \A j : Side(j) \in Sides /\ Side(j) = DescentSide(t, value, j)
  BY DEF Sides, DescentSide
<1> HIDE DEF Side
<1>4. \A j \in Y : Child(t, j, Side(j)) = Kid(t, j, Side(j)) /\ Kid(t, j, Side(j)) \in Y \cup {NIL}
  BY <1>3, ChildIsKid
<1>5. next \in [Y -> Y \cup {NIL}] /\ step \in [Y -> Y] /\ t.root \in Y
  BY <1>4
<1>6. \E g : Eq(g)
  <2> HIDE DEF step
  <2>1. PICK g \in [0 .. Size -> Y] : IsIteration(g, t.root, step, Size)
    BY <1>2, <1>5, IterationExists
  <2>2. g = [n \in 0 .. Size |-> IF n = 0 THEN t.root ELSE step[g[n - 1]]]
    BY <2>1 DEF IsIteration
  <2>3. ASSUME NEW n \in 0 .. Size
        PROVE  (IF n = 0 THEN t.root ELSE step[g[n - 1]])
                  = (IF n = 0 THEN t.root ELSE Step(g[n - 1]))
    <3>1. n # 0 => n - 1 \in 0 .. Size
      BY <1>2
    <3>2. n # 0 => g[n - 1] \in Y
      BY <3>1
    <3>3. QED
      BY <3>2 DEF step
  <2>4. Eq(g)
    <3> HIDE DEF Step
    <3>1. QED
      BY <2>2, <2>3
  <2>5. QED
    BY <2>4
<1>7. Eq(f)
  <2> HIDE DEF Eq
  <2>1. QED
    BY <1>6
<1>8. IsWalk(f, Y, t.root, next)
  <2> HIDE DEF f
  <2>1. f[0] = t.root
    BY <1>2, <1>7
  <2>2. ASSUME NEW n \in 1 .. Size, f[n - 1] \in Y
        PROVE  f[n] = IF next[f[n - 1]] = NIL THEN f[n - 1] ELSE next[f[n - 1]]
    <3>1. n \in 0 .. Size /\ n # 0
      BY <1>2
    <3>2. f[n] = Step(f[n - 1])
      BY <1>7, <3>1
    <3>3. QED
      BY <1>4, <2>2, <3>2
  <2>3. QED
    BY <2>1, <2>2 DEF IsWalk
<1>9. \A j \in Y : next[j] # NIL => w[next[j]] < w[j]
  <2>1. Graded(t, U, w)
    BY DEF Weighed
  <2>2. \A j \in U, s \in Sides : Kid(t, j, s) # NIL => w[Kid(t, j, s)] < w[j]
    BY <2>1, Apart
  <2>3. QED
    BY <1>3, <2>2
<1>10. \A j \in Y : w[j] \in 1 .. Size
  BY DEF Weighed
<1>11. \A j \in Y : next[j] = Kid(t, j, Side(j))
  OBVIOUS
<1>12. /\ f[Size] \in Y /\ Kid(t, f[Size], Side(f[Size])) = NIL
  <2> HIDE DEF f, next
  <2>1. f[Size] \in Y /\ next[f[Size]] = NIL
    BY <1>5, <1>8, <1>9, <1>10, WalkEnds
  <2>2. QED
    BY <1>11, <2>1
<1> HIDE DEF f
<1>13. QED
  BY <1>1, <1>3, <1>12

\* The place for a new leaf is free.
LEMMA LeafPlaceFree ==
    ASSUME NEW t \in Trees, NEW U \in SUBSET Index, Joined(t, U), NEW w, Weighed(t, U, w),
           t.root # NIL, t.max \in U \cup {NIL}, NEW value
    PROVE  LET place == LeafPlace(t, value)
           IN  /\ place = [parent |-> place.parent, side |-> place.side]
               /\ place.parent \in U /\ place.side \in Sides
               /\ Kid(t, place.parent, place.side) = NIL
<1>1. t.root \in U /\ \A j : DescentSide(t, value, j) \in Sides
  BY DEF Joined, DescentSide, Sides
<1>2. \A j \in U : Kid(t, j, DescentSide(t, value, j)) \in U \cup {NIL}
  BY <1>1 DEF Joined
<1>3. CASE LeafPlace(t, value) = Descend(t, value)
  BY <1>1, <1>2, <1>3, DescendIn
<1>4. CASE LeafPlace(t, value) # Descend(t, value)
  <2>1. /\ t.max # NIL /\ t.node[t.max].right = NIL
        /\ LeafPlace(t, value) = [parent |-> t.max, side |-> "right"]
    BY <1>4 DEF LeafPlace, ExceedsMax
  <2>2. QED
    BY <2>1 DEF Kid, Sides
<1>5. QED
  BY <1>3, <1>4

\* The climb of GetNextLowerIndex, from a block without a left kid.
LEMMA ClimbWalk ==
    ASSUME NEW t \in Trees, NEW U \in SUBSET Index, Joined(t, U), NEW a \in U,
           Kid(t, a, "left") = NIL
    PROVE  \E f \in [0 .. Size -> U] :
            /\ f[0] = a
            /\ \A n \in 0 .. Size - 1 :
                f[n + 1] = IF f[n] # t.root /\ Kid(t, Up(t, f[n]), "left") = f[n]
                           THEN Up(t, f[n]) ELSE f[n]
            /\ GetNextLowerIndex(t, a) = IF f[Size] = t.root THEN NIL ELSE Up(t, f[Size])
<1> DEFINE Step(j) == IF j # t.root /\ Child(t, Parent(t, j), "left") = j THEN Parent(t, j) ELSE j
           Eq(f) == f = [n \in 0 .. Size |-> IF n = 0 THEN a ELSE Step(f[n - 1])]
           step == [j \in U |-> Step(j)]
           climb == CHOOSE f : Eq(f)
<1>1. GetNextLowerIndex(t, a) = IF climb[Size] = t.root THEN NIL ELSE Parent(t, climb[Size])
  BY NilNoBlock DEF GetNextLowerIndex, Kid
<1>2. Size \in Nat
  BY TreeAssumption, FS_CardinalityType DEF Size
<1>3. ASSUME NEW j \in U
      PROVE  /\ Parent(t, j) = Up(t, j) /\ Step(j) \in U
             /\ j # t.root => Child(t, Parent(t, j), "left") = Kid(t, Up(t, j), "left")
  BY ChildIsKid DEF Joined
<1>4. step \in [U -> U]
  BY <1>3
<1>5. PICK g \in [0 .. Size -> U] : IsIteration(g, a, step, Size)
  <2> HIDE DEF step
  <2>1. QED
    BY <1>2, <1>4, IterationExists
<1>6. Eq(g)
  <2> HIDE DEF step
  <2>1. g = [n \in 0 .. Size |-> IF n = 0 THEN a ELSE step[g[n - 1]]]
    BY <1>5 DEF IsIteration
  <2>2. ASSUME NEW n \in 0 .. Size
        PROVE  (IF n = 0 THEN a ELSE step[g[n - 1]]) = (IF n = 0 THEN a ELSE Step(g[n - 1]))
    <3>1. n # 0 => n - 1 \in 0 .. Size
      BY <1>2
    <3>2. n # 0 => g[n - 1] \in U
      BY <3>1
    <3>3. QED
      BY <3>2 DEF step
  <2>3. QED
    <3> HIDE DEF Step
    <3>1. QED
      BY <2>1, <2>2
<1>7. Eq(climb)
  <2> HIDE DEF Eq
  <2>1. QED
    BY <1>6
<1> HIDE DEF climb
<1>8. climb \in [0 .. Size -> U] /\ climb[0] = a
  <2> DEFINE X == {n \in Nat : n <= Size => climb[n] \in U}
  <2>1. 0 \in X /\ climb[0] = a
    BY <1>2, <1>7
  <2>2. ASSUME NEW n \in Nat, n \in X
        PROVE  n + 1 \in X
    <3> SUFFICES ASSUME n + 1 <= Size PROVE climb[n + 1] \in U
      OBVIOUS
    <3>1. n + 1 \in 0 .. Size /\ n + 1 # 0 /\ (n + 1) - 1 = n /\ climb[n] \in U
      BY <1>2, <2>2
    <3>2. climb[n + 1] = Step(climb[n])
      <4> HIDE DEF Step
      <4>1. QED
        BY <1>7, <3>1
    <3>3. QED
      BY <1>3, <3>1, <3>2
  <2>3. \A n \in Nat : n \in X
    <3> HIDE DEF X
    <3>1. QED
      BY <2>1, <2>2, NatSetInduction
  <2>4. \A n \in 0 .. Size : climb[n] \in U
    BY <1>2, <2>3
  <2>5. climb = [n \in 0 .. Size |-> IF n = 0 THEN a ELSE Step(climb[n - 1])]
    BY <1>7
  <2> DEFINE F(n) == IF n = 0 THEN a ELSE Step(climb[n - 1])
  <2>6. climb = [n \in 0 .. Size |-> F(n)]
    BY <2>5
  <2> HIDE DEF F
  <2>7. \A n \in 0 .. Size : climb[n] = F(n)
    BY <2>6
  <2>8. QED
    BY <2>1, <2>4, <2>6, <2>7
<1>9. ASSUME NEW n \in 0 .. Size - 1
      PROVE  climb[n + 1] = IF climb[n] # t.root /\ Kid(t, Up(t, climb[n]), "left") = climb[n]
                            THEN Up(t, climb[n]) ELSE climb[n]
  <2>1. n + 1 \in 0 .. Size /\ n \in 0 .. Size /\ n + 1 # 0 /\ (n + 1) - 1 = n
    BY <1>2
  <2>2. climb[n + 1] = Step(climb[n]) /\ climb[n] \in U
    <3> HIDE DEF Step
    <3>1. QED
      BY <1>7, <1>8, <2>1
  <2> DEFINE j == climb[n]
  <2>3. j \in U /\ climb[n + 1] = Step(j)
    BY <2>2
  <2> HIDE DEF j
  <2>4. Step(j) = IF j # t.root /\ Kid(t, Up(t, j), "left") = j THEN Up(t, j) ELSE j
    BY <1>3, <2>3
  <2>5. QED
    BY <2>3, <2>4 DEF j
<1>10. Parent(t, climb[Size]) = Up(t, climb[Size])
  BY <1>2, <1>3, <1>8
<1>11. QED
  BY <1>1, <1>8, <1>9, <1>10

\* The climb stays in every set that has the first block and keeps the parents of
\* left kids, and does not end at a left kid.
LEMMA ClimbIn ==
    ASSUME NEW t \in Trees, NEW U \in SUBSET Index, Joined(t, U), NEW w, Weighed(t, U, w),
           NEW Y \in SUBSET U, NEW a \in Y, Kid(t, a, "left") = NIL,
           \A j \in Y : j # t.root /\ Kid(t, Up(t, j), "left") = j => Up(t, j) \in Y
    PROVE  \E b \in Y :
            /\ b # t.root => Kid(t, Up(t, b), "left") # b
            /\ GetNextLowerIndex(t, a) = IF b = t.root THEN NIL ELSE Up(t, b)
<1> DEFINE Stops(j) == j = t.root \/ Kid(t, Up(t, j), "left") # j
<1>1. Size \in Nat
  BY TreeAssumption, FS_CardinalityType DEF Size
<1>2. PICK f \in [0 .. Size -> U] :
            /\ f[0] = a
            /\ \A n \in 0 .. Size - 1 :
                f[n + 1] = IF f[n] # t.root /\ Kid(t, Up(t, f[n]), "left") = f[n]
                           THEN Up(t, f[n]) ELSE f[n]
            /\ GetNextLowerIndex(t, a) = IF f[Size] = t.root THEN NIL ELSE Up(t, f[Size])
  BY ClimbWalk
<1>3. \A j \in U : w[j] \in 1 .. Size /\ w[j] \in Nat
  BY DEF Weighed, Graded
<1>4. \A j \in U : j # t.root => w[j] < w[Up(t, j)]
  BY DEF Weighed, Graded
<1> DEFINE At(n) == f[n] \in Y /\ (Stops(f[n]) \/ n + 1 <= w[f[n]])
           X == {n \in Nat : n <= Size => At(n)}
<1>5. 0 \in X
  BY <1>1, <1>2, <1>3
<1>6. ASSUME NEW n \in Nat, n \in X
      PROVE  n + 1 \in X
  <2> SUFFICES ASSUME n + 1 <= Size PROVE At(n + 1)
    OBVIOUS
  <2> DEFINE b == f[n]
             c == f[n + 1]
  <2>1. /\ b \in Y /\ (Stops(b) \/ n + 1 <= w[b])
        /\ c = IF b # t.root /\ Kid(t, Up(t, b), "left") = b THEN Up(t, b) ELSE b
    <3>1. n \in 0 .. Size - 1 /\ At(n)
      BY <1>1, <1>6
    <3>2. QED
      BY <1>2, <3>1
  <2> HIDE DEF b, c
  <2>2. CASE Stops(b)
    <3>1. c = b
      BY <2>1, <2>2
    <3>2. QED
      BY <2>1, <2>2, <3>1 DEF c
  <2>3. CASE ~ Stops(b)
    <3>1. c = Up(t, b) /\ c \in Y /\ w[b] < w[c] /\ n + 1 <= w[b]
      BY <1>4, <2>1, <2>3
    <3>2. (n + 1) + 1 <= w[c]
      BY <1>3, <2>1, <3>1
    <3>3. QED
      BY <3>1, <3>2 DEF c
  <2>4. QED
    BY <2>2, <2>3
<1>7. \A n \in Nat : n \in X
  <2> HIDE DEF X
  <2>1. QED
    BY <1>5, <1>6, NatSetInduction
<1>8. At(Size)
  BY <1>1, <1>7
<1>9. Stops(f[Size])
  <2>1. ~ (Size + 1 <= w[f[Size]])
    BY <1>1, <1>3, <1>8
  <2>2. QED
    BY <1>8, <2>1
<1>10. QED
  BY <1>2, <1>8, <1>9

\* The maximum that is left when a block is removed is another block, or none.
LEMMA MaxWithoutLinks ==
    ASSUME NEW t \in Trees, NEW U \in SUBSET Index, Joined(t, U), NEW w, Weighed(t, U, w),
           t.max \in U \cup {NIL}, NEW a \in U
    PROVE  MaxWithout(t, a) \in (U \ {a}) \cup {NIL}
<1> DEFINE left == Kid(t, a, "left")
           next == GetNextLowerIndex(t, a)
<1>1. \A j \in U : w[j] \in Nat
  BY DEF Weighed, Graded
<1>2. CASE left # NIL
  <2>1. next = Outermost(t, left, "right") /\ "left" \in Sides /\ "right" \in Sides
    BY <1>2, NilNoBlock DEF GetNextLowerIndex, Kid, Sides
  <2>2. left \in U /\ w[left] < w[a]
    BY <1>2, <2>1, Apart DEF Weighed
  <2>3. next \in U /\ w[next] <= w[left]
    BY <2>1, <2>2, OutermostLinks
  <2>4. next # a
    <3> HIDE DEF next, left
    <3>1. QED
      BY <1>1, <2>2, <2>3
  <2>5. QED
    BY <2>3, <2>4 DEF MaxWithout
<1>3. CASE left = NIL
  <2> DEFINE Y == {j \in U : w[a] <= w[j]}
  <2>1. \A j \in U : j # t.root => Up(t, j) \in U /\ w[j] < w[Up(t, j)]
    BY DEF Joined, Weighed, Graded
  <2>2. a \in Y /\ \A j \in Y : j # t.root => Up(t, j) \in Y
    <3>1. a \in Y
      BY <1>1
    <3>2. ASSUME NEW j \in Y, j # t.root
          PROVE  Up(t, j) \in Y
      BY <1>1, <2>1, <3>2
    <3>3. QED
      BY <3>1, <3>2
  <2>3. Y \in SUBSET U /\ \A j \in Y : j \in U /\ w[a] <= w[j]
    OBVIOUS
  <2> HIDE DEF Y
  <2>4. PICK b \in Y : next = IF b = t.root THEN NIL ELSE Up(t, b)
    BY <1>3, <2>2, <2>3, ClimbIn
  <2>5. next = NIL \/ (next \in U /\ w[b] < w[next] /\ w[a] <= w[b])
    BY <2>1, <2>3, <2>4
  <2> HIDE DEF next
  <2>6. next \in (U \ {a}) \cup {NIL}
    BY <1>1, <2>3, <2>4, <2>5
  <2>7. QED
    BY <2>6 DEF MaxWithout, next
<1>4. QED
  BY <1>2, <1>3

-----------------------------------------------------------------------------
(* Insertion.                                                              *)

\* The links of u are those of t with a leaf in a place that was free.
Hung(t, u, index, place) ==
    /\ u.root = t.root
    /\ \A j \in Index :
        /\ Up(u, j) = IF j = index THEN place.parent ELSE Up(t, j)
        /\ \A s \in Sides :
            Kid(u, j, s) = IF j = index THEN NIL
                           ELSE IF j = place.parent /\ s = place.side THEN index ELSE Kid(t, j, s)

\* Insertion at a leaf.
LEMMA LinkedLinks ==
    ASSUME NEW t \in Trees, NEW index \in Index, NEW value \in Values,
           LeafPlace(t, value).parent \in Index \ {index}, LeafPlace(t, value).side \in Sides
    PROVE  LET u == Linked(t, index, value)
           IN  /\ u \in Trees /\ u.max \in {t.max, index}
               /\ Hung(t, u, index, LeafPlace(t, value))
<1> DEFINE place == LeafPlace(t, value)
           P == place.parent
           S == place.side
           leaf == Leaf(value, P, "red")
           max == IF ExceedsMax(t, value) THEN index ELSE t.max
           v == SetKid(t, P, S, index)
           w == PutNode(v, index, leaf)
           u == [w EXCEPT !.max = max]
<1>1. P \in Index /\ P # index /\ S \in Sides /\ index \in Links
  BY DEF Links
<1> HIDE DEF P, S, place
<1>2. leaf \in Nodes /\ leaf.parent = P /\ leaf.left = NIL /\ leaf.right = NIL
  BY <1>1 DEF Leaf, Nodes, Links, Colors
<1>3. max \in Links /\ max \in {t.max, index}
  BY LinksTyped DEF Links
<1>4. /\ v \in Trees /\ v.root = t.root
      /\ \A j \in Index :
            /\ Up(v, j) = Up(t, j)
            /\ \A s \in Sides : Kid(v, j, s) = IF j = P /\ s = S THEN index ELSE Kid(t, j, s)
  BY <1>1, SetKidLinks
<1>5. Linked(t, index, value) = u
  <2>1. Linked(t, index, value) =
          [t EXCEPT !.max = max,
                    !.node = [@ EXCEPT ![P][S] = index, ![index] = leaf]]
    BY DEF Linked, place, P, S
  <2>2. QED
    BY <1>1, <2>1 DEF SetKid, PutNode, Trees
<1> HIDE DEF v, leaf, max
<1>6. /\ w \in Trees /\ w.root = v.root
      /\ \A j \in Index : w.node[j] = IF j = index THEN leaf ELSE v.node[j]
  BY <1>2, <1>4, PutNodeLinks
<1> HIDE DEF w
<1>7. u \in Trees /\ u.root = t.root /\ u.max = max /\ u.node = w.node
  BY <1>3, <1>4, <1>6 DEF Trees
<1> HIDE DEF u
<1>8. ASSUME NEW j \in Index
      PROVE  Up(u, j) = IF j = index THEN P ELSE Up(t, j)
  BY <1>2, <1>4, <1>6, <1>7 DEF Up
<1>9. ASSUME NEW j \in Index, NEW s \in Sides
      PROVE  Kid(u, j, s) = IF j = index THEN NIL
                            ELSE IF j = P /\ s = S THEN index ELSE Kid(t, j, s)
  <2>1. leaf[s] = NIL
    BY <1>2 DEF Sides
  <2>2. CASE j = index
    BY <1>6, <1>7, <2>1, <2>2 DEF Kid
  <2>3. CASE j # index
    <3>1. Kid(u, j, s) = Kid(v, j, s)
      BY <1>6, <1>7, <2>3 DEF Kid
    <3>2. QED
      BY <1>4, <2>3, <3>1
  <2>4. QED
    BY <2>2, <2>3
<1>10. Hung(t, u, index, place)
  BY <1>7, <1>8, <1>9 DEF Hung, P, S
<1>11. QED
  BY <1>3, <1>5, <1>7, <1>10 DEF place

\* A new leaf at a free place leaves a tree.
LEMMA HungTree ==
    ASSUME NEW t, NEW u, NEW U \in SUBSET Index, IsTree(t, U),
           NEW index \in Index \ U, NEW place, place.parent \in U, place.side \in Sides,
           Kid(t, place.parent, place.side) = NIL, Hung(t, u, index, place)
    PROVE  IsTree(u, U \cup {index})
<1> DEFINE P == place.parent
           S == place.side
           V == U \cup {index}
<1>1. PICK h : Graded(t, U, h)
  BY DEF IsTree
<1>2. Joined(t, U)
  BY DEF IsTree
<1> DEFINE H == [i \in V |-> IF i = index THEN 0 ELSE h[i] + 1]
<1>3. /\ P \in U /\ S \in Sides /\ Kid(t, P, S) = NIL /\ P # index /\ index # NIL
      /\ t.root \in U /\ t.root # index /\ NIL \notin U
  BY <1>2, NilNoBlock DEF Joined
<1>4. /\ u.root = t.root
      /\ \A j \in V :
            /\ Up(u, j) = IF j = index THEN P ELSE Up(t, j)
            /\ \A s \in Sides : Kid(u, j, s) = IF j = index THEN NIL
                                               ELSE IF j = P /\ s = S THEN index ELSE Kid(t, j, s)
  BY DEF Hung
<1> HIDE DEF P, S
<1>5. ASSUME NEW i \in V, NEW s \in Sides
      PROVE  /\ Kid(u, i, s) \in V \cup {NIL}
             /\ Kid(u, i, s) # NIL => Up(u, Kid(u, i, s)) = i
             /\ Kid(u, i, s) = Kid(u, i, Across(s)) => Kid(u, i, s) = NIL
  <2>1. Across(s) \in Sides /\ Across(s) # s
    BY AcrossSides
  <2>2. CASE i = index
    BY <1>4, <2>2
  <2>3. CASE i # index
    <3>1. /\ i \in U
          /\ Kid(t, i, s) \in U \cup {NIL} /\ Kid(t, i, Across(s)) \in U \cup {NIL}
          /\ Kid(t, i, s) # NIL => Up(t, Kid(t, i, s)) = i
          /\ Kid(t, i, s) = Kid(t, i, Across(s)) => Kid(t, i, s) = NIL
      BY <1>2, <2>1, <2>3 DEF Joined
    <3>2. /\ Kid(u, i, s) = IF i = P /\ s = S THEN index ELSE Kid(t, i, s)
          /\ Kid(u, i, Across(s)) = IF i = P /\ Across(s) = S THEN index ELSE Kid(t, i, Across(s))
      BY <1>4, <2>1, <2>3
    <3>3. CASE i = P /\ s = S
      BY <1>3, <1>4, <2>1, <3>1, <3>2, <3>3
    <3>4. CASE ~ (i = P /\ s = S)
      <4>1. Kid(u, i, s) = Kid(t, i, s) /\ Kid(u, i, s) # index
        BY <1>3, <3>1, <3>2, <3>4
      <4>2. QED
        BY <1>4, <3>1, <3>2, <4>1
    <3>5. QED
      BY <3>3, <3>4
  <2>4. QED
    BY <2>2, <2>3
<1>6. ASSUME NEW i \in V
      PROVE  /\ Up(u, i) = NIL <=> i = u.root
             /\ i # u.root => Up(u, i) \in V /\ \E s \in Sides : Kid(u, Up(u, i), s) = i
             /\ i # u.root => H[i] < H[Up(u, i)]
  <2>1. CASE i = index
    <3>1. Up(u, i) = P /\ Kid(u, P, S) = i
      BY <1>3, <1>4, <2>1
    <3>2. H[i] = 0 /\ H[P] = h[P] + 1 /\ h[P] \in Nat
      BY <1>1, <1>3, <2>1 DEF Graded
    <3> HIDE DEF H
    <3>3. QED
      BY <1>3, <1>4, <2>1, <3>1, <3>2
  <2>2. CASE i # index
    <3>1. i \in U /\ Up(u, i) = Up(t, i) /\ (Up(t, i) = NIL <=> i = t.root)
      BY <1>2, <1>4, <2>2 DEF Joined
    <3>2. ASSUME i # t.root
          PROVE  /\ Up(t, i) \in U /\ H[i] < H[Up(t, i)]
                 /\ \E s \in Sides : Kid(u, Up(t, i), s) = i
      <4>1. Up(t, i) \in U /\ h[i] < h[Up(t, i)] /\ h[i] \in Nat /\ h[Up(t, i)] \in Nat
        BY <1>1, <1>2, <3>1, <3>2 DEF Joined, Graded
      <4>2. H[i] = h[i] + 1 /\ H[Up(t, i)] = h[Up(t, i)] + 1
        BY <1>3, <2>2, <3>1, <4>1
      <4>3. PICK s \in Sides : Kid(t, Up(t, i), s) = i
        BY <1>2, <3>1, <3>2 DEF Joined
      <4>4. Kid(u, Up(t, i), s) = i
        BY <1>3, <1>4, <3>1, <4>1, <4>3
      <4> HIDE DEF H
      <4>5. QED
        BY <4>1, <4>2, <4>4
    <3> HIDE DEF H
    <3>3. QED
      BY <1>4, <3>1, <3>2
  <2>3. QED
    BY <2>1, <2>2
<1>7. Joined(u, V)
  <2>1. u.root \in V \cup {NIL} /\ (V # {} => u.root # NIL)
    BY <1>3, <1>4
  <2> HIDE DEF H, V
  <2>2. QED
    BY <1>5, <1>6, <2>1 DEF Joined
<1>8. Graded(u, V, H)
  <2>1. H \in [V -> Nat]
    <3>1. \A i \in U : h[i] \in Nat
      BY <1>1 DEF Graded
    <3>2. QED
      BY <3>1
  <2> HIDE DEF H, V
  <2>2. QED
    BY <1>6, <2>1 DEF Graded
<1>9. QED
  BY <1>7, <1>8 DEF IsTree

\* A first node.
LEMMA RootTree ==
    ASSUME NEW u, NEW index \in Index, u.root = index, Up(u, index) = NIL,
           \A s \in Sides : Kid(u, index, s) = NIL
    PROVE  IsTree(u, {index})
<1>1. index # NIL
  BY NilNoBlock
<1>2. Joined(u, {index})
  <2>1. \A i \in {index} : i = index
    OBVIOUS
  <2>2. \A i \in {index}, s \in Sides : Kid(u, i, s) = NIL
    BY <2>1
  <2>3. \A i \in {index} : Up(u, i) = NIL /\ i = u.root
    BY <2>1
  <2>4. QED
    BY <1>1, <2>2, <2>3 DEF Joined
<1>3. Graded(u, {index}, [i \in {index} |-> 0])
  BY DEF Graded
<1>4. QED
  BY <1>2, <1>3 DEF IsTree

-----------------------------------------------------------------------------
(* Removal.                                                                *)

\* The links of u are those of t with a kid in the place of its parent a.
Lifted(t, u, a, kid) ==
    LET up == Up(t, a)
        place == Place(t, up, a)
    IN  /\ u.root = IF up = NIL THEN kid ELSE t.root
        /\ \A j \in Index :
            /\ Up(u, j) = IF j = kid THEN up ELSE Up(t, j)
            /\ \A s \in Sides : Kid(u, j, s) = IF j = up /\ s = place THEN kid ELSE Kid(t, j, s)

\* A node with one kid at most gives its place to that kid.
LEMMA SplicedLinks ==
    ASSUME NEW t \in Trees, NEW a \in Index
    PROVE  LET cut == Spliced(t, a)
           IN  /\ cut.tree \in Trees /\ cut.tree.max = t.max
               /\ cut.parent = Up(t, a) /\ cut.color \in Colors
               /\ cut.child = IF Kid(t, a, "left") # NIL THEN Kid(t, a, "left") ELSE Kid(t, a, "right")
               /\ Lifted(t, cut.tree, a, cut.child)
<1> DEFINE kid == IF Kid(t, a, "left") # NIL THEN Kid(t, a, "left") ELSE Kid(t, a, "right")
           up == Up(t, a)
           v == SetParent(t, kid, up)
           u == Relink(v, up, a, kid)
           place == Place(t, up, a)
<1>1. kid \in Links /\ up \in Links /\ a \in Links /\ "left" \in Sides /\ t.node[a].color \in Colors
  BY LinksTyped DEF Links, Sides, Trees, Nodes
<1>2. /\ Spliced(t, a).tree = u /\ Spliced(t, a).child = kid /\ Spliced(t, a).parent = up
      /\ Spliced(t, a).color = t.node[a].color
  BY DEF Spliced, Kid, Up
<1> HIDE DEF kid
<1>3. /\ v \in Trees /\ v.root = t.root /\ v.max = t.max
      /\ \A j \in Index : /\ Up(v, j) = IF j = kid THEN up ELSE Up(t, j)
                          /\ \A s \in Sides : Kid(v, j, s) = Kid(t, j, s)
  BY <1>1, SetParentLinks
<1> HIDE DEF v
<1>4. /\ u \in Trees /\ u.max = v.max /\ u.root = IF up = NIL THEN kid ELSE v.root
      /\ \A j \in Index :
            /\ Up(u, j) = Up(v, j)
            /\ \A s \in Sides :
                Kid(u, j, s) = IF j = up /\ s = Place(v, up, a) THEN kid ELSE Kid(v, j, s)
  <2>1. v \in Trees /\ up \in Links /\ a \in Links /\ kid \in Links
    BY <1>1, <1>3
  <2> HIDE DEF up
  <2>2. QED
    BY <2>1, RelinkLinks
<1> HIDE DEF u
<1>5. up \in Index => Place(v, up, a) = place
  BY <1>1, <1>3 DEF Place
<1>6. Lifted(t, u, a, kid)
  <2>1. u.root = IF up = NIL THEN kid ELSE t.root
    BY <1>3, <1>4
  <2>2. \A j \in Index : Up(u, j) = IF j = kid THEN up ELSE Up(t, j)
    BY <1>3, <1>4
  <2>3. ASSUME NEW j \in Index, NEW s \in Sides
        PROVE  Kid(u, j, s) = IF j = up /\ s = place THEN kid ELSE Kid(t, j, s)
    <3>1. Kid(u, j, s) = IF j = up /\ s = Place(v, up, a) THEN kid ELSE Kid(t, j, s)
      BY <1>3, <1>4
    <3>2. j = up => Place(v, up, a) = place
      BY <1>5
    <3>3. QED
      BY <3>1, <3>2
  <2>4. QED
    BY <2>1, <2>2, <2>3 DEF Lifted
<1>7. QED
  BY <1>1, <1>2, <1>3, <1>4, <1>6 DEF kid

\* A node without kids is the only one below it.
LEMMA LonelyRoot ==
    ASSUME NEW t, NEW U \in SUBSET Index, IsTree(t, U), NEW side \in Sides, t.root \in U,
           Kid(t, t.root, side) = NIL, Kid(t, t.root, Across(side)) = NIL
    PROVE  U = {t.root}
BY BelowRoot, BelowParts, BelowNil DEF IsTree

\* A tree without such a node is a tree.
LEMMA LiftedTree ==
    ASSUME NEW t, NEW u, NEW U \in SUBSET Index, IsTree(t, U), NEW a \in U,
           NEW side \in Sides, Kid(t, a, Across(side)) = NIL, Lifted(t, u, a, Kid(t, a, side))
    PROVE  IsTree(u, U \ {a})
<1> DEFINE kid == Kid(t, a, side)
           up == Up(t, a)
           place == Place(t, up, a)
           V == U \ {a}
<1>1. PICK h : Graded(t, U, h)
  BY DEF IsTree
<1>2. Joined(t, U)
  BY DEF IsTree
<1> DEFINE H == [i \in V |-> h[i]]
<1>3. /\ NIL \notin U /\ Across(side) \in Sides /\ Sides = {side, Across(side)}
      /\ t.root \in U
  BY <1>2, NilNoBlock, AcrossSides DEF Joined
<1>4. /\ kid \in V \cup {NIL} /\ (kid # NIL => kid # up /\ kid # t.root)
      /\ kid # NIL => kid \in U /\ Up(t, kid) = a /\ h[kid] < h[a] /\ kid # t.root
      /\ up \in V \cup {NIL} /\ (up = NIL <=> a = t.root)
      /\ up # NIL => h[a] < h[up]
  <2>1. kid \in U \cup {NIL} /\ (kid # NIL => Up(t, kid) = a) /\ (up = NIL <=> a = t.root)
    BY <1>2 DEF Joined
  <2>2. kid # a /\ kid # t.root /\ (kid # NIL => kid # up /\ h[kid] < h[a]) /\ up # a
    BY <1>1, <1>2, Apart
  <2>3. up # NIL => up \in U /\ h[a] < h[up]
    BY <1>1, <1>2, <2>1 DEF Joined, Graded
  <2>4. QED
    BY <2>1, <2>2, <2>3
<1>5. \A i \in U : h[i] \in Nat
  BY <1>1 DEF Graded
<1>6. up # NIL => place \in Sides /\ \A s \in Sides : Kid(t, up, s) = a <=> s = place
  <2>1. ASSUME NEW s \in Sides, Kid(t, up, s) = a, up # NIL
        PROVE  \A r \in Sides : Kid(t, up, r) = a <=> r = s
    <3>1. Kid(t, up, s) # Kid(t, up, Across(s)) /\ Sides = {s, Across(s)}
      BY <1>2, <1>3, <1>4, <2>1, AcrossSides DEF Joined
    <3>2. QED
      BY <2>1, <3>1
  <2>2. up # NIL => \E s \in Sides : Kid(t, up, s) = a
    BY <1>2, <1>4 DEF Joined
  <2>3. "left" \in Sides /\ "right" \in Sides /\ \A s \in Sides : s = "left" \/ s = "right"
    BY DEF Sides
  <2>4. QED
    BY <2>1, <2>2, <2>3 DEF Place
<1>7. /\ u.root = IF up = NIL THEN kid ELSE t.root
      /\ \A j \in U :
            /\ Up(u, j) = IF j = kid THEN up ELSE Up(t, j)
            /\ \A s \in Sides : Kid(u, j, s) = IF j = up /\ s = place THEN kid ELSE Kid(t, j, s)
  BY DEF Lifted
<1> HIDE DEF place
<1>8. ASSUME NEW i \in U, Up(t, i) = a
      PROVE  i = kid
  <2>1. i # t.root
    BY <1>2, <1>3, <1>8 DEF Joined
  <2>2. PICK s \in Sides : Kid(t, a, s) = i
    BY <1>2, <1>8, <2>1 DEF Joined
  <2>3. QED
    BY <1>3, <2>2
<1>9. ASSUME NEW i \in V, NEW s \in Sides
      PROVE  /\ Kid(u, i, s) \in V \cup {NIL}
             /\ Kid(u, i, s) # NIL => Up(u, Kid(u, i, s)) = i
             /\ Kid(u, i, s) = Kid(u, i, Across(s)) => Kid(u, i, s) = NIL
  <2>1. Across(s) \in Sides /\ Across(s) # s
    BY AcrossSides
  <2>2. \A r \in Sides :
            /\ Kid(t, i, r) \in U \cup {NIL}
            /\ Kid(t, i, r) # NIL => Up(t, Kid(t, i, r)) = i /\ Kid(t, i, r) # kid
    <3>1. i \in U /\ i # a
      OBVIOUS
    <3>2. QED
      BY <1>2, <1>4, <3>1 DEF Joined
  <2>3. Kid(t, i, s) = Kid(t, i, Across(s)) => Kid(t, i, s) = NIL
    BY <1>2 DEF Joined
  <2>4. \A r \in Sides : Kid(t, i, r) = a => i = up /\ r = place
    BY <1>3, <1>6, <2>2
  <2>5. /\ Kid(u, i, s) = IF i = up /\ s = place THEN kid ELSE Kid(t, i, s)
        /\ Kid(u, i, Across(s)) = IF i = up /\ Across(s) = place THEN kid ELSE Kid(t, i, Across(s))
    BY <1>7, <2>1
  <2> HIDE DEF kid, up
  <2>6. CASE i = up /\ s = place
    BY <1>3, <1>4, <1>7, <2>1, <2>2, <2>5, <2>6
  <2>7. CASE ~ (i = up /\ s = place)
    <3>1. Kid(u, i, s) = Kid(t, i, s) /\ Kid(t, i, s) # a
      BY <2>4, <2>5, <2>7
    <3>2. Kid(u, i, s) # NIL => Kid(t, i, s) \in U /\ Kid(t, i, s) # kid
      BY <2>2, <3>1
    <3>3. QED
      BY <1>7, <2>1, <2>2, <2>3, <2>5, <3>1, <3>2
  <2>8. QED
    BY <2>6, <2>7
<1>10. ASSUME NEW i \in V
       PROVE  /\ Up(u, i) = NIL <=> i = u.root
              /\ i # u.root => Up(u, i) \in V /\ \E s \in Sides : Kid(u, Up(u, i), s) = i
              /\ i # u.root => h[i] < h[Up(u, i)]
  <2>1. i \in U /\ i # a /\ i # NIL
    BY <1>3
  <2>2. CASE i = kid
    <3>1. kid # NIL /\ Up(u, i) = up /\ kid # t.root
      BY <1>4, <1>7, <2>1, <2>2
    <3>2. CASE up = NIL
      BY <1>7, <2>2, <3>1, <3>2
    <3>3. CASE up # NIL
      <4>1. up \in V /\ Kid(u, up, place) = i /\ place \in Sides /\ u.root = t.root
        BY <1>4, <1>6, <1>7, <2>2, <3>3
      <4>2. h[i] \in Nat /\ h[a] \in Nat /\ h[up] \in Nat /\ h[i] < h[a] /\ h[a] < h[up]
        BY <1>4, <1>5, <2>1, <2>2, <3>1, <3>3
      <4> HIDE DEF kid, up
      <4>3. QED
        BY <2>2, <3>1, <3>3, <4>1, <4>2
    <3>4. QED
      BY <3>2, <3>3
  <2>3. CASE i # kid
    <3>1. Up(u, i) = Up(t, i) /\ Up(t, i) # a /\ (Up(t, i) = NIL <=> i = t.root)
      BY <1>2, <1>7, <1>8, <2>1, <2>3 DEF Joined
    <3>2. i = u.root <=> i = t.root
      BY <1>4, <1>7, <2>1, <2>3
    <3>3. ASSUME i # t.root
          PROVE  Up(t, i) \in V /\ h[i] < h[Up(t, i)] /\ \E s \in Sides : Kid(u, Up(t, i), s) = i
      <4>1. Up(t, i) \in V /\ h[i] < h[Up(t, i)]
        BY <1>1, <1>2, <2>1, <3>1, <3>3 DEF Joined, Graded
      <4>2. PICK s \in Sides : Kid(t, Up(t, i), s) = i
        BY <1>2, <2>1, <3>3 DEF Joined
      <4>3. ~ (Up(t, i) = up /\ s = place)
        BY <1>6, <2>1, <4>2, <3>1, <1>3, <4>1
      <4>4. Kid(u, Up(t, i), s) = i
        BY <1>7, <4>1, <4>2, <4>3
      <4>5. QED
        BY <4>1, <4>4
    <3>4. QED
      BY <3>1, <3>2, <3>3
  <2>4. QED
    BY <2>2, <2>3
<1>11. u.root \in V \cup {NIL} /\ (V # {} => u.root # NIL)
  <2>1. CASE up = NIL
    <3>1. a = t.root /\ u.root = kid
      BY <1>4, <1>7, <2>1
    <3>2. kid = NIL => V = {}
      BY <1>3, <3>1, LonelyRoot
    <3>3. QED
      BY <1>4, <3>1, <3>2
  <2>2. CASE up # NIL
    BY <1>3, <1>4, <1>7, <2>2
  <2>3. QED
    BY <2>1, <2>2
<1>12. Joined(u, V)
  <2> HIDE DEF V
  <2>1. QED
    BY <1>9, <1>10, <1>11 DEF Joined
<1>13. Graded(u, V, H)
  <2>1. H \in [V -> Nat] /\ \A i \in V : H[i] = h[i]
    BY <1>5
  <2> HIDE DEF H, V
  <2>2. QED
    BY <1>10, <2>1 DEF Graded
<1>14. QED
  BY <1>12, <1>13 DEF IsTree

\* Block b instead of a.
Instead(i, a, b) == IF i = a THEN b ELSE i

\* The links of u are those of t with b instead of a.
Renamed(t, u, U, a, b) ==
    /\ u.root = Instead(t.root, a, b)
    /\ \A i \in U :
        LET j == Instead(i, a, b)
        IN  /\ Up(u, j) = Instead(Up(t, i), a, b)
            /\ \A s \in Sides : Kid(u, j, s) = Instead(Kid(t, i, s), a, b)

\* A tree in which one block takes the place of another is a tree.
LEMMA RenamedTree ==
    ASSUME NEW t, NEW u, NEW U \in SUBSET Index, IsTree(t, U),
           NEW a \in U, NEW b \in Index \ U, Renamed(t, u, U, a, b)
    PROVE  IsTree(u, (U \ {a}) \cup {b})
<1> DEFINE New(i) == Instead(i, a, b)
           Old(i) == Instead(i, b, a)
           V == (U \ {a}) \cup {b}
<1>1. PICK h : Graded(t, U, h)
  BY DEF IsTree
<1>2. Joined(t, U)
  BY DEF IsTree
<1> DEFINE H == [i \in V |-> h[Old(i)]]
<1>3. /\ NIL \notin U /\ NIL \notin V /\ t.root \in U /\ New(NIL) = NIL
      /\ \A i \in U \cup {NIL} : New(i) \in V \cup {NIL} /\ (New(i) = NIL <=> i = NIL)
      /\ \A i, j \in U \cup {NIL} : New(i) = New(j) => i = j
      /\ \A i \in U : New(i) \in V /\ Old(New(i)) = i
      /\ \A i \in V : Old(i) \in U /\ New(Old(i)) = i
  BY <1>2, NilNoBlock DEF Instead, Joined
<1>4. /\ u.root = New(t.root)
      /\ \A i \in U : /\ Up(u, New(i)) = New(Up(t, i))
                      /\ \A s \in Sides : Kid(u, New(i), s) = New(Kid(t, i, s))
  BY DEF Renamed
<1> HIDE DEF New, Old
<1>5. ASSUME NEW j \in V, NEW s \in Sides
      PROVE  /\ Kid(u, j, s) \in V \cup {NIL}
             /\ Kid(u, j, s) # NIL => Up(u, Kid(u, j, s)) = j
             /\ Kid(u, j, s) = Kid(u, j, Across(s)) => Kid(u, j, s) = NIL
  <2> DEFINE i == Old(j)
  <2>1. i \in U /\ New(i) = j /\ Across(s) \in Sides
    BY <1>3, AcrossSides
  <2>2. /\ Kid(t, i, s) \in U \cup {NIL} /\ Kid(t, i, Across(s)) \in U \cup {NIL}
        /\ Kid(t, i, s) # NIL => Up(t, Kid(t, i, s)) = i
        /\ Kid(t, i, s) = Kid(t, i, Across(s)) => Kid(t, i, s) = NIL
    BY <1>2, <2>1 DEF Joined
  <2>3. Kid(u, j, s) = New(Kid(t, i, s)) /\ Kid(u, j, Across(s)) = New(Kid(t, i, Across(s)))
    BY <1>4, <2>1
  <2>4. Kid(t, i, s) # NIL => Up(u, New(Kid(t, i, s))) = New(i)
    BY <1>4, <2>2
  <2> HIDE DEF i, V
  <2>5. QED
    BY <1>3, <2>1, <2>2, <2>3, <2>4
<1>6. ASSUME NEW j \in V
      PROVE  /\ Up(u, j) = NIL <=> j = u.root
             /\ j # u.root => Up(u, j) \in V /\ \E s \in Sides : Kid(u, Up(u, j), s) = j
             /\ j # u.root => H[j] < H[Up(u, j)]
  <2> DEFINE i == Old(j)
             k == Up(t, i)
  <2>1. i \in U /\ New(i) = j /\ Up(u, j) = New(k)
    BY <1>3, <1>4
  <2>2. (k = NIL <=> i = t.root) /\ k \in U \cup {NIL}
    BY <1>2, <2>1 DEF Joined
  <2>3. j = u.root <=> i = t.root
    BY <1>3, <1>4, <2>1
  <2>4. ASSUME i # t.root
        PROVE  /\ Up(u, j) \in V /\ \E s \in Sides : Kid(u, Up(u, j), s) = j
               /\ H[j] < H[Up(u, j)]
    <3>1. k \in U /\ h[i] < h[k]
      BY <1>1, <1>2, <2>1, <2>4 DEF Joined, Graded
    <3>2. PICK s \in Sides : Kid(t, k, s) = i
      BY <1>2, <2>1, <2>4 DEF Joined
    <3>3. Up(u, j) \in V /\ Kid(u, Up(u, j), s) = j
      BY <1>3, <1>4, <2>1, <3>1, <3>2
    <3>4. H[j] = h[i] /\ H[Up(u, j)] = h[k]
      BY <1>3, <2>1, <3>1, <3>3
    <3> HIDE DEF H, i, k, V
    <3>5. QED
      BY <3>1, <3>3, <3>4
  <2> HIDE DEF H, i, k, V
  <2>5. QED
    BY <1>3, <2>1, <2>2, <2>3, <2>4
<1>7. Joined(u, V)
  <2>1. u.root \in V \cup {NIL} /\ u.root # NIL
    BY <1>3, <1>4
  <2> HIDE DEF V, H
  <2>2. QED
    BY <1>5, <1>6, <2>1 DEF Joined
<1>8. Graded(u, V, H)
  <2>1. H \in [V -> Nat]
    <3>1. \A i \in V : h[Old(i)] \in Nat
      BY <1>1, <1>3 DEF Graded
    <3>2. QED
      BY <3>1
  <2> HIDE DEF V, H
  <2>2. QED
    BY <1>6, <2>1 DEF Graded
<1>9. QED
  BY <1>7, <1>8 DEF IsTree

\* The successor of a node with two kids is the right one of them, or a left kid
\* further down; it has no left kid itself.
LEMMA SuccessorLinks ==
    ASSUME NEW t \in Trees, NEW U \in SUBSET Index, IsTree(t, U), NEW a \in U, IsInternal(t, a)
    PROVE  LET next == Outermost(t, t.node[a].right, "left")
               above == Up(t, next)
           IN  /\ next \in U \ {a} /\ Kid(t, next, "left") = NIL
               /\ next # t.root /\ next # Up(t, a) /\ next # Kid(t, a, "left")
               /\ above = a => next = Kid(t, a, "right")
               /\ above # a => /\ above \in U /\ Kid(t, above, "left") = next
                               /\ above # Up(t, a) /\ next # Kid(t, a, "right")
<1> DEFINE right == Kid(t, a, "right")
           left == Kid(t, a, "left")
           next == Outermost(t, right, "left")
           above == Up(t, next)
           w == Weights(t, U)
<1>1. Joined(t, U) /\ Graded(t, U, w) /\ Weighed(t, U, w)
  BY WeightsGraded DEF IsTree, Weighed
<1> HIDE DEF w
<1>2. /\ "left" \in Sides /\ "right" \in Sides /\ "left" # "right" /\ NIL \notin U
      /\ left # NIL /\ right # NIL
  BY NilNoBlock DEF Sides, IsInternal, Kid
<1>3. \A i \in U : w[i] \in Nat
  BY <1>1 DEF Graded
<1>4. /\ right \in U /\ left \in U /\ w[right] < w[a] /\ right # left
      /\ Up(t, right) = a /\ Up(t, left) = a
  <2>1. Across("right") = "left"
    BY DEF Across
  <2>2. QED
    BY <1>1, <1>2, <2>1, Apart DEF Joined
<1>5. /\ next \in U /\ Kid(t, next, "left") = NIL /\ w[next] <= w[right]
      /\ next = right \/ \E i \in U : Kid(t, i, "left") = next /\ w[i] <= w[right]
  BY <1>1, <1>2, <1>4, OutermostLinks
<1> HIDE DEF next, left, right
<1>6. next # a /\ w[next] < w[a]
  BY <1>3, <1>4, <1>5
<1>7. a # t.root => Up(t, a) \in U /\ w[a] < w[Up(t, a)]
  BY <1>1 DEF Joined, Graded
<1>8. (a = t.root => Up(t, a) = NIL) /\ t.root \in U
  BY <1>1 DEF Joined
<1>9. next # t.root
  <2>1. CASE next = right
    BY <1>1, <1>2, <1>4, <2>1 DEF Joined
  <2>2. CASE next # right
    BY <1>1, <1>2, <1>5, <2>2 DEF Joined
  <2>3. QED
    BY <2>1, <2>2
<1>10. next # Up(t, a)
  BY <1>2, <1>3, <1>5, <1>6, <1>7, <1>8
<1>11. CASE next = right
  BY <1>4, <1>5, <1>6, <1>9, <1>10, <1>11 DEF next, left, right, Kid
<1>12. CASE next # right
  <2>1. PICK i \in U : Kid(t, i, "left") = next /\ w[i] <= w[right]
    BY <1>5, <1>12
  <2>2. above = i
    BY <1>1, <1>2, <1>5, <2>1 DEF Joined
  <2>3. i # a /\ i # Up(t, a)
    BY <1>2, <1>3, <1>4, <1>7, <1>8, <2>1
  <2>4. next # left
    BY <1>4, <2>2, <2>3
  <2> HIDE DEF above
  <2>5. /\ next \in U \ {a} /\ Kid(t, next, "left") = NIL /\ next # t.root /\ next # Up(t, a)
        /\ next # left /\ above # a /\ above \in U /\ Kid(t, above, "left") = next
        /\ above # Up(t, a) /\ next # right
    BY <1>5, <1>6, <1>9, <1>10, <1>12, <2>1, <2>2, <2>3, <2>4
  <2>6. QED
    BY <2>5 DEF above, next, left, right, Kid
<1>13. QED
  BY <1>11, <1>12

\* The links of u are those of t with the successor next of a in the place of a,
\* and its kid in the place of next.
Succeeded(t, u, a, next) ==
    LET left == Kid(t, a, "left")
        right == Kid(t, a, "right")
        up == Up(t, a)
        kid == Kid(t, next, "right")
        near == Up(t, next) = a
        above == IF near THEN next ELSE Up(t, next)
    IN  /\ u.root = IF up = NIL THEN next ELSE t.root
        /\ \A j \in Index :
            /\ Up(u, j) = IF j = next THEN up ELSE IF j = left THEN next
                          ELSE IF j = kid THEN above ELSE IF j = right THEN next ELSE Up(t, j)
            /\ \A s \in Sides :
                Kid(u, j, s) = IF j = next
                               THEN IF s = "left" THEN left ELSE IF near THEN kid ELSE right
                               ELSE IF j = up /\ s = Place(t, up, a) THEN next
                               ELSE IF ~ near /\ j = above /\ s = "left" THEN kid ELSE Kid(t, j, s)

\* Writing a node twice is writing it once.
LEMMA PutNodeTwice ==
    ASSUME NEW t \in Trees, NEW i \in Index, NEW m \in Nodes, NEW n \in Nodes
    PROVE  PutNode(t, i, m).node[i] = m /\ PutNode(PutNode(t, i, m), i, n) = PutNode(t, i, n)
BY DEF PutNode, Trees

\* Writing four fields of a node is writing the node.
SetFields(t, i, up, left, right, color) ==
    [t EXCEPT !.node[i].parent = up, !.node[i].left = left,
              !.node[i].right = right, !.node[i].color = color]

WithFields(node, up, left, right, color) ==
    [node EXCEPT !.parent = up, !.left = left, !.right = right, !.color = color]

LEMMA PutFields ==
    ASSUME NEW t \in Trees, NEW i \in Index, NEW up \in Links, NEW left \in Links,
           NEW right \in Links, NEW color \in Colors
    PROVE  LET n == WithFields(t.node[i], up, left, right, color)
           IN  /\ n \in Nodes /\ n.parent = up /\ n["left"] = left /\ n["right"] = right
               /\ SetFields(t, i, up, left, right, color) = PutNode(t, i, n)
<1> DEFINE n1 == [t.node[i] EXCEPT !.parent = up]
           n2 == [n1 EXCEPT !.left = left]
           n3 == [n2 EXCEPT !.right = right]
           n4 == [n3 EXCEPT !.color = color]
           t1 == [t EXCEPT !.node[i].parent = up]
           t2 == [t1 EXCEPT !.node[i].left = left]
           t3 == [t2 EXCEPT !.node[i].right = right]
           t4 == [t3 EXCEPT !.node[i].color = color]
<1>1. n1 \in Nodes /\ n2 \in Nodes /\ n3 \in Nodes /\ n4 \in Nodes
  <2>1. n1 \in Nodes
    BY DEF Trees, Nodes
  <2> HIDE DEF n1
  <2>2. n2 \in Nodes
    BY <2>1 DEF Nodes
  <2> HIDE DEF n2
  <2>3. n3 \in Nodes
    BY <2>2 DEF Nodes
  <2> HIDE DEF n3
  <2>4. n4 \in Nodes
    BY <2>3 DEF Nodes
  <2>5. QED
    BY <2>1, <2>2, <2>3, <2>4
<1>2. t1 = PutNode(t, i, n1)
  BY DEF PutNode
<1> HIDE DEF t1
<1>3. t2 = PutNode(t1, i, n2)
  <2>1. t1.node[i] = n1
    BY <1>1, <1>2, PutNodeTwice
  <2>2. t2 = PutNode(t1, i, [t1.node[i] EXCEPT !.left = left])
    BY DEF PutNode
  <2> HIDE DEF n1
  <2>3. QED
    BY <2>1, <2>2
<1> HIDE DEF n1
<1>4. t2 = PutNode(t, i, n2)
  <2> HIDE DEF n2, t2
  <2>1. QED
    BY <1>1, <1>2, <1>3, PutNodeTwice
<1> HIDE DEF t2
<1>5. t3 = PutNode(t2, i, n3)
  <2>1. t2.node[i] = n2
    BY <1>1, <1>4, PutNodeTwice
  <2>2. t3 = PutNode(t2, i, [t2.node[i] EXCEPT !.right = right])
    BY DEF PutNode
  <2> HIDE DEF n2
  <2>3. QED
    BY <2>1, <2>2
<1> HIDE DEF n2
<1>6. t3 = PutNode(t, i, n3)
  <2> HIDE DEF n3, t3
  <2>1. QED
    BY <1>1, <1>4, <1>5, PutNodeTwice
<1> HIDE DEF t3
<1>7. t4 = PutNode(t3, i, n4)
  <2>1. t3.node[i] = n3
    BY <1>1, <1>6, PutNodeTwice
  <2>2. t4 = PutNode(t3, i, [t3.node[i] EXCEPT !.color = color])
    BY DEF PutNode
  <2> HIDE DEF n3
  <2>3. QED
    BY <2>1, <2>2
<1> HIDE DEF n3
<1>8. t4 = PutNode(t, i, n4)
  <2> HIDE DEF n4, t4
  <2>1. QED
    BY <1>1, <1>6, <1>7, PutNodeTwice
<1>9. n4.parent = up /\ n4["left"] = left /\ n4["right"] = right
  <2>1. t.node[i] \in Nodes
    BY DEF Trees
  <2>2. QED
    BY <2>1 DEF n1, n2, n3, Nodes
<1>10. n4 = WithFields(t.node[i], up, left, right, color)
  BY DEF n1, n2, n3, WithFields
<1>11. t4 = SetFields(t, i, up, left, right, color)
  BY DEF t1, t2, t3, SetFields
<1> HIDE DEF n4, t4
<1>12. QED
  BY <1>1, <1>8, <1>9, <1>10, <1>11

\* What the transplant needs to know of the successor.
SucceedsNode(t, a, next) ==
    /\ next = Outermost(t, t.node[a].right, "left")
    /\ next \in Index \ {a}
    /\ Up(t, next) \in Index \ {next}
    /\ Up(t, a) \notin {next, Up(t, next)}
    /\ Up(t, next) = a <=> next = Kid(t, a, "right")

LEMMA SuccessorSucceeds ==
    ASSUME NEW t \in Trees, NEW U \in SUBSET Index, IsTree(t, U), NEW a \in U, IsInternal(t, a)
    PROVE  SucceedsNode(t, a, Outermost(t, t.node[a].right, "left"))
<1> DEFINE next == Outermost(t, t.node[a].right, "left")
           p == Up(t, next)
           up == Up(t, a)
<1>1. /\ next \in U /\ next # a /\ next # up
      /\ p = a => next = Kid(t, a, "right")
      /\ p # a => p \in U /\ p # up /\ next # Kid(t, a, "right")
  BY SuccessorLinks
<1> HIDE DEF next
<1>2. Joined(t, U) /\ \E h : Graded(t, U, h)
  BY DEF IsTree
<1>3. p # next /\ up # a
  BY <1>1, <1>2, Apart
<1>4. p \in U /\ p # up /\ (p = a <=> next = Kid(t, a, "right"))
  BY <1>1, <1>3
<1>5. QED
  BY <1>1, <1>3, <1>4 DEF SucceedsNode, next

\* What the removal of an internal node makes of the links: its successor is cut and
\* takes its place.
LEMMA TransplantedLinks ==
    ASSUME NEW t \in Trees, NEW a \in Index, NEW next, SucceedsNode(t, a, next)
    PROVE  LET cut == Transplanted(t, a)
           IN  /\ cut.tree \in Trees /\ cut.tree.max = t.max
               /\ cut.child = Kid(t, next, "right") /\ cut.color \in Colors
               /\ cut.parent = IF Up(t, next) = a THEN next ELSE Up(t, next)
               /\ Succeeded(t, cut.tree, a, next)
<1> DEFINE left == Kid(t, a, "left")
           right == Kid(t, a, "right")
           up == Up(t, a)
           kid == Kid(t, next, "right")
           near == Up(t, next) = a
           above == IF near THEN next ELSE Up(t, next)
           cut == IF near THEN t ELSE SetParent(SetKid(t, above, "left", kid), right, next)
           m1 == SetParent(cut, kid, above)
           m2 == SetParent(m1, left, next)
           third == IF near THEN kid ELSE right
           color == t.node[a].color
           n == WithFields(m2.node[next], up, left, third, color)
           m3 == PutNode(m2, next, n)
           u == Relink(m3, up, a, next)
<1>1. /\ left \in Links /\ right \in Links /\ up \in Links /\ kid \in Links /\ above \in Index
      /\ next \in Index /\ next \in Links /\ a \in Links /\ above \in Links
      /\ next # up /\ above # up /\ near \in BOOLEAN
      /\ "left" \in Sides /\ "right" \in Sides
      /\ t.node[a].color \in Colors /\ t.node[next].color \in Colors
      /\ near => right = next
  BY LinksTyped DEF SucceedsNode, Links, Sides, Trees, Nodes
<1>2. third \in Links /\ color \in Colors
  BY <1>1
<1>3. /\ Transplanted(t, a).child = kid /\ Transplanted(t, a).parent = above
      /\ Transplanted(t, a).color = t.node[next].color
      /\ Transplanted(t, a).tree =
            Relink(SetFields(m2, next, up, left, third, color), up, a, next)
  <2>1. RepairParent(t, a, next) = above
    BY DEF RepairParent, Up
  <2> HIDE DEF above
  <2>2. next = Outermost(t, t.node[a].right, "left")
    BY DEF SucceedsNode
  <2>3. QED
    BY <2>1, <2>2 DEF Transplanted, SetKid, SetFields, Kid, Up
<1>4. near => above = next
  OBVIOUS
<1> HIDE DEF left, right, up, kid, near, above, color
<1>5. /\ cut \in Trees /\ cut.root = t.root /\ cut.max = t.max
      /\ \A j \in Index :
            /\ Up(cut, j) = IF ~ near /\ j = right THEN next ELSE Up(t, j)
            /\ \A s \in Sides :
                Kid(cut, j, s) = IF ~ near /\ j = above /\ s = "left" THEN kid ELSE Kid(t, j, s)
  <2>1. CASE near
    BY <2>1
  <2>2. CASE ~ near
    <3> DEFINE c == SetKid(t, above, "left", kid)
    <3>1. /\ c \in Trees /\ c.root = t.root /\ c.max = t.max
          /\ \A j \in Index :
                /\ Up(c, j) = Up(t, j)
                /\ \A s \in Sides :
                    Kid(c, j, s) = IF j = above /\ s = "left" THEN kid ELSE Kid(t, j, s)
      BY <1>1, SetKidLinks
    <3>2. cut = SetParent(c, right, next)
      BY <2>2
    <3> HIDE DEF c, cut
    <3>3. /\ cut \in Trees /\ cut.root = c.root /\ cut.max = c.max
          /\ \A j \in Index : /\ Up(cut, j) = IF j = right THEN next ELSE Up(c, j)
                              /\ \A s \in Sides : Kid(cut, j, s) = Kid(c, j, s)
      <4>1. c \in Trees /\ right \in Links /\ next \in Links
        BY <1>1, <3>1
      <4>2. QED
        BY <3>2, <4>1, SetParentLinks
    <3>4. QED
      BY <2>2, <3>1, <3>3
  <2>3. QED
    BY <2>1, <2>2
<1> HIDE DEF cut
<1>6. /\ m1 \in Trees /\ m1.root = t.root /\ m1.max = t.max
      /\ \A j \in Index : /\ Up(m1, j) = IF j = kid THEN above ELSE Up(cut, j)
                          /\ \A s \in Sides : Kid(m1, j, s) = Kid(cut, j, s)
  <2>1. cut \in Trees /\ kid \in Links /\ above \in Links
    BY <1>1, <1>5
  <2>2. /\ m1 \in Trees /\ m1.root = cut.root /\ m1.max = cut.max
        /\ \A j \in Index : /\ Up(m1, j) = IF j = kid THEN above ELSE Up(cut, j)
                            /\ \A s \in Sides : Kid(m1, j, s) = Kid(cut, j, s)
    BY <2>1, SetParentLinks
  <2>3. QED
    BY <1>5, <2>2
<1> HIDE DEF m1
<1>7. /\ m2 \in Trees /\ m2.root = t.root /\ m2.max = t.max
      /\ \A j \in Index : /\ Up(m2, j) = IF j = left THEN next ELSE Up(m1, j)
                          /\ \A s \in Sides : Kid(m2, j, s) = Kid(m1, j, s)
  <2>1. m1 \in Trees /\ left \in Links /\ next \in Links
    BY <1>1, <1>6
  <2>2. /\ m2 \in Trees /\ m2.root = m1.root /\ m2.max = m1.max
        /\ \A j \in Index : /\ Up(m2, j) = IF j = left THEN next ELSE Up(m1, j)
                            /\ \A s \in Sides : Kid(m2, j, s) = Kid(m1, j, s)
    BY <2>1, SetParentLinks
  <2>3. QED
    BY <1>6, <2>2
<1> HIDE DEF m2, third
<1>8. /\ n \in Nodes /\ n.parent = up /\ n["left"] = left /\ n["right"] = third
      /\ SetFields(m2, next, up, left, third, color) = m3
  <2>1. m2 \in Trees /\ next \in Index /\ up \in Links /\ left \in Links
        /\ third \in Links /\ color \in Colors
    BY <1>1, <1>2, <1>7
  <2>2. QED
    BY <2>1, PutFields
<1>9. Transplanted(t, a).tree = u
  BY <1>3, <1>8
<1>10. n.parent = up /\ n["left"] = left /\ n["right"] = third
  BY <1>8
<1> HIDE DEF n
<1>11. /\ m3 \in Trees /\ m3.root = t.root /\ m3.max = t.max
       /\ \A j \in Index : /\ Up(m3, j) = IF j = next THEN up ELSE Up(m2, j)
                           /\ \A s \in Sides : Kid(m3, j, s) = IF j = next THEN n[s] ELSE Kid(m2, j, s)
  <2>1. /\ m3 \in Trees /\ m3.root = m2.root /\ m3.max = m2.max
        /\ \A j \in Index : m3.node[j] = IF j = next THEN n ELSE m2.node[j]
    <3>1. m2 \in Trees /\ n \in Nodes /\ next \in Index
      BY <1>1, <1>7, <1>8
    <3>2. QED
      BY <3>1, PutNodeLinks
  <2> HIDE DEF m3
  <2>2. QED
    BY <1>7, <1>10, <2>1 DEF Up, Kid
<1> HIDE DEF m3
<1>12. /\ u \in Trees /\ u.max = m3.max /\ u.root = IF up = NIL THEN next ELSE m3.root
       /\ \A j \in Index :
            /\ Up(u, j) = Up(m3, j)
            /\ \A s \in Sides :
                Kid(u, j, s) = IF j = up /\ s = Place(m3, up, a) THEN next ELSE Kid(m3, j, s)
  <2>1. m3 \in Trees /\ up \in Links /\ a \in Links /\ next \in Links
    BY <1>1, <1>11
  <2>2. QED
    BY <2>1, RelinkLinks
<1> HIDE DEF u
<1>13. up \in Index => Place(m3, up, a) = Place(t, up, a)
  <2> SUFFICES ASSUME up \in Index PROVE Kid(m3, up, "left") = Kid(t, up, "left")
    BY DEF Place
  <2>1. up # next /\ up # above
    BY <1>1
  <2>2. Kid(m3, up, "left") = Kid(m2, up, "left")
    BY <1>1, <1>11, <2>1
  <2>3. Kid(m2, up, "left") = Kid(m1, up, "left")
    BY <1>1, <1>7
  <2>4. Kid(m1, up, "left") = Kid(cut, up, "left")
    BY <1>1, <1>6
  <2>5. Kid(cut, up, "left") = Kid(t, up, "left")
    BY <1>1, <1>5, <2>1
  <2>6. QED
    BY <2>2, <2>3, <2>4, <2>5
<1>14. ASSUME NEW j \in Index
       PROVE  Up(u, j) = IF j = next THEN up ELSE IF j = left THEN next
                         ELSE IF j = kid THEN above ELSE IF j = right THEN next ELSE Up(t, j)
  <2>1. Up(u, j) = IF j = next THEN up ELSE Up(m2, j)
    BY <1>11, <1>12
  <2>2. Up(m2, j) = IF j = left THEN next ELSE Up(m1, j)
    BY <1>7
  <2>3. Up(m1, j) = IF j = kid THEN above ELSE Up(cut, j)
    BY <1>6
  <2>4. Up(cut, j) = IF ~ near /\ j = right THEN next ELSE Up(t, j)
    BY <1>5
  <2>5. near => right = next
    BY <1>1
  <2>6. QED
    BY <2>1, <2>2, <2>3, <2>4, <2>5
<1>15. ASSUME NEW j \in Index, NEW s \in Sides
       PROVE  Kid(u, j, s) = IF j = next
                             THEN IF s = "left" THEN left ELSE IF near THEN kid ELSE right
                             ELSE IF j = up /\ s = Place(t, up, a) THEN next
                             ELSE IF ~ near /\ j = above /\ s = "left" THEN kid ELSE Kid(t, j, s)
  <2>1. s = "left" \/ s = "right"
    BY DEF Sides
  <2>2. CASE j = next
    <3>1. Kid(u, j, s) = n[s]
      BY <1>1, <1>11, <1>12, <2>2
    <3>2. QED
      BY <1>10, <2>1, <2>2, <3>1 DEF third
  <2>3. CASE j # next
    <3>1. Kid(m3, j, s) = IF ~ near /\ j = above /\ s = "left" THEN kid ELSE Kid(t, j, s)
      BY <1>5, <1>6, <1>7, <1>11, <2>3
    <3>2. j = up => Place(m3, up, a) = Place(t, up, a)
      BY <1>13
    <3>3. QED
      BY <1>12, <2>3, <3>1, <3>2
  <2>4. QED
    BY <2>2, <2>3
<1>16. u.root = IF up = NIL THEN next ELSE t.root
  BY <1>11, <1>12
<1>17. Succeeded(t, u, a, next)
  BY <1>14, <1>15, <1>16 DEF Succeeded, left, right, up, kid, near, above
<1>18. /\ u \in Trees /\ u.max = t.max
       /\ Transplanted(t, a).child = kid /\ Transplanted(t, a).color \in Colors
       /\ Transplanted(t, a).parent = above
  BY <1>1, <1>3, <1>11, <1>12
<1>19. QED
  BY <1>9, <1>17, <1>18 DEF kid, near, above

\* The links of u are those of t without a: a kid moves up, or the successor of a,
\* itself cut out before, takes its place.
Without(t, u, U, a) ==
    \/ \E side \in Sides : Kid(t, a, Across(side)) = NIL /\ Lifted(t, u, a, Kid(t, a, side))
    \/ /\ IsInternal(t, a)
       /\ LET next == Outermost(t, t.node[a].right, "left")
          IN  \E v \in Trees :
                Lifted(t, v, next, Kid(t, next, "right")) /\ Renamed(v, u, U \ {next}, a, next)

\* A tree without an internal node is a tree.
LEMMA TransplantedTree ==
    ASSUME NEW t \in Trees, NEW U \in SUBSET Index, IsTree(t, U), NEW a \in U, IsInternal(t, a)
    PROVE  LET cut == Transplanted(t, a)
           IN  /\ cut.tree \in Trees /\ cut.tree.max = t.max /\ IsTree(cut.tree, U \ {a})
               /\ cut.child \in Links /\ cut.color \in Colors /\ cut.parent \in U \ {a}
               /\ cut.child = NIL => \E s \in Sides : Kid(cut.tree, cut.parent, s) = NIL
               /\ Without(t, cut.tree, U, a)
<1> DEFINE next == Outermost(t, t.node[a].right, "left")
           left == Kid(t, a, "left")
           right == Kid(t, a, "right")
           up == Up(t, a)
           p == Up(t, next)
           kid == Kid(t, next, "right")
           near == p = a
           above == IF near THEN next ELSE p
           u == Transplanted(t, a).tree
           v == Spliced(t, next).tree
           W == U \ {next}
           New(i) == Instead(i, a, next)
<1>1. PICK h : Graded(t, U, h)
  BY DEF IsTree
<1>2. Joined(t, U)
  BY DEF IsTree
<1>3. /\ next \in U /\ next # a /\ Kid(t, next, "left") = NIL
      /\ next # t.root /\ next # up /\ next # left
      /\ near => next = right
      /\ ~ near => p \in U /\ Kid(t, p, "left") = next /\ p # up /\ next # right
  BY SuccessorLinks
<1> HIDE DEF next
<1>4. /\ NIL \notin U /\ "left" \in Sides /\ "right" \in Sides /\ "left" # "right"
      /\ Across("right") = "left" /\ Across("left") = "right"
      /\ \A s \in Sides : s = "left" \/ s = "right"
  BY NilNoBlock DEF Sides, Across
<1>5. /\ p \in U /\ p # next /\ up # a /\ (up = NIL <=> a = t.root) /\ up \in U \cup {NIL}
      /\ kid \in U \cup {NIL} /\ kid # next /\ (kid # NIL => Up(t, kid) = next)
      /\ \A i \in U, s \in Sides : Kid(t, i, s) # NIL => Up(t, Kid(t, i, s)) = i
      /\ \A s \in Sides : Kid(t, a, s) # a
      /\ Up(t, next) # next
  BY <1>1, <1>2, <1>3, <1>4, Apart DEF Joined
<1>6. SucceedsNode(t, a, next)
  <2>1. near <=> next = right
    BY <1>3
  <2>2. p # up
    BY <1>3, <1>5
  <2>3. QED
    BY <1>3, <1>5, <2>1, <2>2 DEF SucceedsNode, next
<1>7. /\ u \in Trees /\ u.max = t.max /\ Transplanted(t, a).child = kid
      /\ Transplanted(t, a).color \in Colors /\ Transplanted(t, a).parent = above
      /\ Succeeded(t, u, a, next)
  BY <1>6, TransplantedLinks
<1>8. /\ u.root = IF up = NIL THEN next ELSE t.root
      /\ \A j \in Index :
            /\ Up(u, j) = IF j = next THEN up ELSE IF j = left THEN next
                          ELSE IF j = kid THEN above ELSE IF j = right THEN next ELSE Up(t, j)
            /\ \A s \in Sides :
                Kid(u, j, s) = IF j = next
                               THEN IF s = "left" THEN left ELSE IF near THEN kid ELSE right
                               ELSE IF j = up /\ s = Place(t, up, a) THEN next
                               ELSE IF ~ near /\ j = above /\ s = "left" THEN kid ELSE Kid(t, j, s)
  BY <1>7 DEF Succeeded
<1> HIDE DEF u
<1>9. v \in Trees /\ Lifted(t, v, next, kid)
  <2>1. Spliced(t, next).child = kid
    BY <1>3, SplicedLinks
  <2>2. QED
    BY <1>3, <2>1, SplicedLinks
<1>10. IsTree(v, W)
  <2> HIDE DEF v
  <2>1. QED
    BY <1>3, <1>4, <1>9, LiftedTree
<1>11. /\ v.root = t.root
       /\ \A j \in Index :
            /\ Up(v, j) = IF j = kid THEN p ELSE Up(t, j)
            /\ \A s \in Sides :
                Kid(v, j, s) = IF j = p /\ s = (IF near THEN "right" ELSE "left")
                               THEN kid ELSE Kid(t, j, s)
  <2>1. p # NIL
    BY <1>4, <1>5
  <2>2. Place(t, p, next) = IF near THEN "right" ELSE "left"
    BY <1>3 DEF Place
  <2>3. /\ v.root = IF p = NIL THEN kid ELSE t.root
        /\ \A j \in Index :
            /\ Up(v, j) = IF j = kid THEN p ELSE Up(t, j)
            /\ \A s \in Sides :
                Kid(v, j, s) = IF j = p /\ s = Place(t, p, next) THEN kid ELSE Kid(t, j, s)
    BY <1>9 DEF Lifted
  <2>4. QED
    BY <2>1, <2>2, <2>3
<1> HIDE DEF v
<1>12. a \in U /\ a \in Index /\ next \in Index /\ U \subseteq Index
  BY <1>3
<1>13. /\ \A s \in Sides : Kid(t, a, s) # a
       /\ kid # a
       /\ left # NIL /\ right # NIL /\ left \in U /\ right \in U
       /\ Up(t, left) = a /\ Up(t, right) = a
       /\ left # kid
       /\ ~ near => right # kid
  <2>1. left # NIL /\ right # NIL
    BY DEF IsInternal, Kid
  <2>2. left \in U /\ right \in U /\ Up(t, left) = a /\ Up(t, right) = a
    BY <1>2, <1>4, <2>1 DEF Joined
  <2>3. kid # a
    BY <1>3, <1>4, <1>5, <1>12
  <2>4. QED
    BY <1>3, <1>4, <1>5, <2>1, <2>2, <2>3
<1>14. \A i \in U : Up(t, i) = a => i = left \/ i = right
  <2> SUFFICES ASSUME NEW i \in U, Up(t, i) = a PROVE i = left \/ i = right
    OBVIOUS
  <2>1. i # t.root
    BY <1>2, <1>4 DEF Joined
  <2>2. \E s \in Sides : Kid(t, a, s) = i
    BY <1>2, <2>1 DEF Joined
  <2>3. QED
    BY <1>4, <2>2
<1>15. \A i \in U, s \in Sides : Kid(t, i, s) = a => i = up /\ s = Place(t, up, a)
  <2> SUFFICES ASSUME NEW i \in U, NEW s \in Sides, Kid(t, i, s) = a
               PROVE  i = up /\ s = Place(t, up, a)
    OBVIOUS
  <2>1. i = up /\ a # t.root
    BY <1>4, <1>5
  <2>2. QED
    BY <1>2, <2>1, JoinedSides
<1>16. up # NIL => Kid(t, up, Place(t, up, a)) = a /\ Place(t, up, a) \in Sides
  BY <1>2, <1>5, JoinedSides
<1> HIDE DEF left, right, kid, up, p
<1>17. ASSUME NEW i \in W
       PROVE  Up(u, New(i)) = New(Up(v, i))
  <2>1. i \in U /\ i \in Index /\ i # next
    OBVIOUS
  <2>2. CASE i = a
    <3>1. New(i) = next /\ New(up) = up
      BY <1>5, <2>2 DEF Instead
    <3>2. Up(v, i) = up
      BY <1>11, <1>12, <1>13, <2>2 DEF up
    <3>3. Up(u, next) = up
      BY <1>8, <1>12
    <3>4. QED
      BY <3>1, <3>2, <3>3
  <2>3. CASE i # a
    <3>1. New(i) = i
      BY <2>3 DEF Instead
    <3>2. /\ Up(v, i) = IF i = kid THEN p ELSE Up(t, i)
          /\ Up(u, i) = IF i = left THEN next ELSE IF i = kid THEN above
                        ELSE IF i = right THEN next ELSE Up(t, i)
      BY <1>8, <1>11, <2>1
    <3>3. CASE i = left
      <4>1. New(a) = next /\ Up(v, i) = a /\ Up(u, i) = next
        BY <1>13, <3>2, <3>3 DEF Instead
      <4>2. QED
        BY <3>1, <4>1
    <3>4. CASE i # left /\ i = kid
      <4>1. Up(v, i) = p /\ Up(u, i) = above /\ New(p) = above
        BY <3>2, <3>4 DEF Instead
      <4>2. QED
        BY <3>1, <4>1
    <3>5. CASE i # left /\ i # kid /\ i = right
      <4>1. New(a) = next /\ Up(v, i) = a /\ Up(u, i) = next
        BY <1>13, <3>2, <3>5 DEF Instead
      <4>2. QED
        BY <3>1, <4>1
    <3>6. CASE i # left /\ i # kid /\ i # right
      <4>1. Up(t, i) # a
        BY <1>14, <2>1, <3>6
      <4>2. New(Up(t, i)) = Up(t, i)
        BY <4>1 DEF Instead
      <4>3. QED
        BY <3>1, <3>2, <3>6, <4>2
    <3>7. QED
      BY <3>3, <3>4, <3>5, <3>6
  <2>4. QED
    BY <2>2, <2>3
<1>18. ASSUME NEW i \in W, NEW s \in Sides
       PROVE  Kid(u, New(i), s) = New(Kid(v, i, s))
  <2>1. i \in U /\ i \in Index /\ i # next
    OBVIOUS
  <2>2. Kid(v, i, s) = IF i = p /\ s = (IF near THEN "right" ELSE "left")
                       THEN kid ELSE Kid(t, i, s)
    BY <1>11, <2>1
  <2>3. CASE i = a
    <3>1. New(i) = next
      BY <2>3 DEF Instead
    <3>2. Kid(u, next, s) = IF s = "left" THEN left ELSE IF near THEN kid ELSE right
      BY <1>8, <1>12
    <3>3. Kid(v, i, s) = IF s = "left" THEN left ELSE IF near THEN kid ELSE right
      BY <1>4, <2>2, <2>3 DEF left, right
    <3>4. left # a /\ right # a /\ kid # a
      BY <1>4, <1>13 DEF left, right
    <3>5. New(Kid(v, i, s)) = Kid(v, i, s)
      BY <3>3, <3>4 DEF Instead
    <3>6. QED
      BY <3>1, <3>2, <3>3, <3>5
  <2>4. CASE i # a
    <3>1. New(i) = i
      BY <2>4 DEF Instead
    <3>2. Kid(u, i, s) = IF i = up /\ s = Place(t, up, a) THEN next
                         ELSE IF ~ near /\ i = above /\ s = "left" THEN kid ELSE Kid(t, i, s)
      BY <1>8, <2>1
    <3>3. p # up
      BY <1>3, <1>5
    <3>4. CASE i = up /\ s = Place(t, up, a)
      <4>1. Kid(v, i, s) = a
        BY <1>4, <1>16, <2>1, <2>2, <3>3, <3>4
      <4>2. New(a) = next
        BY DEF Instead
      <4>3. QED
        BY <3>1, <3>2, <3>4, <4>1, <4>2
    <3>5. CASE ~ (i = up /\ s = Place(t, up, a))
      <4>1. Kid(t, i, s) # a
        BY <1>15, <2>1, <3>5
      <4>2. Kid(u, i, s) = Kid(v, i, s)
        BY <2>2, <2>4, <3>2, <3>5
      <4>3. Kid(v, i, s) # a
        BY <1>13, <2>2, <4>1
      <4>4. New(Kid(v, i, s)) = Kid(v, i, s)
        BY <4>3 DEF Instead
      <4>5. QED
        BY <3>1, <4>2, <4>4
    <3>6. QED
      BY <3>4, <3>5
  <2>5. QED
    BY <2>3, <2>4
<1>19. u.root = New(v.root)
  BY <1>5, <1>8, <1>11 DEF Instead
<1>20. Renamed(v, u, W, a, next)
  BY <1>17, <1>18, <1>19 DEF Renamed
<1>21. IsTree(u, U \ {a})
  <2>1. W \in SUBSET Index /\ a \in W /\ next \in Index \ W /\ (W \ {a}) \cup {next} = U \ {a}
    BY <1>3, <1>12
  <2>2. IsTree(u, (W \ {a}) \cup {next})
    <3> HIDE DEF W
    <3>1. QED
      BY <1>10, <1>20, <2>1, RenamedTree
  <2>3. QED
    BY <2>1, <2>2
<1>22. above \in U \ {a}
  BY <1>3, <1>5
<1>23. kid = NIL => \E s \in Sides : Kid(u, above, s) = NIL
  <2>1. CASE near
    <3>1. Kid(u, next, "right") = kid
      BY <1>4, <1>8, <1>12, <2>1
    <3>2. QED
      BY <1>4, <2>1, <3>1
  <2>2. CASE ~ near
    <3>1. Kid(u, p, "left") = kid
      BY <1>3, <1>4, <1>5, <1>8, <1>12, <2>2
    <3>2. QED
      BY <1>4, <2>2, <3>1
  <2>3. QED
    BY <2>1, <2>2
<1>24. kid \in Links
  BY <1>5 DEF Links
<1>25. Without(t, u, U, a)
  BY <1>9, <1>20 DEF Without, next, kid
<1>26. QED
  BY <1>7, <1>21, <1>22, <1>23, <1>24, <1>25 DEF u

\* Any removal, before its repair.
LEMMA CutTree ==
    ASSUME NEW t \in Trees, NEW U \in SUBSET Index, IsTree(t, U), NEW a \in U
    PROVE  LET cut == Cut(t, a)
           IN  /\ cut.tree \in Trees /\ cut.tree.max = t.max /\ IsTree(cut.tree, U \ {a})
               /\ cut.child \in Links /\ cut.color \in Colors /\ cut.parent \in (U \ {a}) \cup {NIL}
               /\ cut.child = NIL =>
                    IF cut.parent = NIL THEN cut.tree.root = NIL
                    ELSE \E s \in Sides : Kid(cut.tree, cut.parent, s) = NIL
               /\ Without(t, cut.tree, U, a)
<1>1. NIL \notin U
  BY NilNoBlock
<1>2. CASE IsInternal(t, a)
  <2>1. Cut(t, a) = Transplanted(t, a)
    BY <1>2 DEF Cut
  <2>2. QED
    BY <1>1, <1>2, <2>1, TransplantedTree
<1>3. CASE ~ IsInternal(t, a)
  <2> DEFINE cut == Spliced(t, a)
             up == Up(t, a)
             side == IF Kid(t, a, "left") # NIL THEN "left" ELSE "right"
  <2>1. Cut(t, a) = cut
    BY <1>3 DEF Cut
  <2>2. /\ cut.tree \in Trees /\ cut.tree.max = t.max /\ cut.parent = up /\ cut.color \in Colors
        /\ cut.child = Kid(t, a, side) /\ Lifted(t, cut.tree, a, cut.child)
    BY SplicedLinks
  <2> HIDE DEF cut
  <2>3. side \in Sides /\ Kid(t, a, Across(side)) = NIL
    BY <1>3 DEF Sides, Across, IsInternal, Kid
  <2> HIDE DEF side
  <2>10. Without(t, cut.tree, U, a)
    BY <2>2, <2>3 DEF Without
  <2>4. IsTree(cut.tree, U \ {a})
    BY <2>2, <2>3, LiftedTree
  <2>5. Joined(t, U) /\ \E h : Graded(t, U, h)
    BY DEF IsTree
  <2>6. /\ cut.child \in Links /\ up \in (U \ {a}) \cup {NIL} /\ (up = NIL <=> a = t.root)
    <3>1. up # a
      BY <2>5, Apart
    <3>2. QED
      BY <2>2, <2>3, <2>5, <3>1 DEF Joined, Links
  <2>7. CASE up = NIL
    <3>1. cut.tree.root = cut.child
      BY <2>2, <2>7 DEF Lifted
    <3>2. QED
      BY <2>1, <2>2, <2>4, <2>6, <2>7, <2>10, <3>1
  <2>8. CASE up # NIL
    <3>1. Place(t, up, a) \in Sides /\ up \in Index
      BY <2>5, <2>6, <2>8, JoinedSides
    <3>2. Kid(cut.tree, up, Place(t, up, a)) = cut.child
      BY <2>2, <3>1 DEF Lifted
    <3>3. QED
      BY <2>1, <2>2, <2>4, <2>6, <2>8, <2>10, <3>1, <3>2
  <2>9. QED
    BY <2>7, <2>8
<1>4. QED
  BY <1>2, <1>3

-----------------------------------------------------------------------------
(* The inductive invariant.                                                *)

\* The place under repair is in the tree, next to the parent that is kept with it.
RepairSound(t, U, r) ==
    /\ r \in {Done} \cup [op : {"insert"}, at : U, parent : {NIL}]
                    \cup [op : {"remove"}, at : U \cup {NIL}, parent : U \cup {NIL}]
    /\ r.op = "remove" =>
        /\ r.at # NIL => Up(t, r.at) = r.parent
        /\ r.at = NIL /\ r.parent = NIL => t.root = NIL
        /\ r.at = NIL /\ r.parent # NIL => \E s \in Sides : Kid(t, r.parent, s) = NIL

TreeInv ==
    /\ used \in SUBSET Index
    /\ tree \in Trees
    /\ tree.max \in used \cup {NIL}
    /\ IsTree(tree, used)
    /\ RepairSound(tree, used, repair)

LEMMA ColorTyped ==
    ASSUME NEW t \in Trees, NEW i \in Links
    PROVE  Color(t, i) \in Colors
BY DEF Color, Colors, Trees, Nodes, Links

LEMMA ColoredTree ==
    ASSUME NEW t \in Trees, NEW U \in SUBSET Index, IsTree(t, U), NEW i \in Links, NEW color \in Colors
    PROVE  LET u == SetColor(t, i, color)
           IN  u \in Trees /\ u.max = t.max /\ IsTree(u, U) /\ SameLinks(t, u)
<1> DEFINE u == SetColor(t, i, color)
<1>1. u \in Trees /\ SameLinks(t, u) /\ u.max = t.max
  BY SetColorLinks
<1> HIDE DEF u
<1>2. IsTree(u, U)
  BY <1>1, SameLinksTree
<1>3. QED
  BY <1>1, <1>2 DEF u

LEMMA RotateTree ==
    ASSUME NEW t \in Trees, NEW U \in SUBSET Index, IsTree(t, U), NEW g \in U, NEW side \in Sides,
           Kid(t, g, Across(side)) # NIL
    PROVE  LET u == Rotate(t, g, side)
           IN  u \in Trees /\ u.max = t.max /\ IsTree(u, U) /\ Rotated(t, u, g, side)
<1> DEFINE u == Rotate(t, g, side)
           p == Kid(t, g, Across(side))
<1>1. Across(side) \in Sides
  BY AcrossSides
<1>2. p \in Index \ {g} /\ Up(t, g) \notin {g, p}
  <2>1. Joined(t, U) /\ \E h : Graded(t, U, h)
    BY DEF IsTree
  <2>2. QED
    BY <1>1, <2>1, Apart
<1>3. u \in Trees /\ u.max = t.max /\ Rotated(t, u, g, side)
  BY <1>2, RotateLinks
<1> HIDE DEF u
<1>4. IsTree(u, U)
  BY <1>3, RotatedTree
<1>5. QED
  BY <1>3, <1>4 DEF u

LEMMA RotateDoubleTree ==
    ASSUME NEW t \in Trees, NEW U \in SUBSET Index, IsTree(t, U), NEW g \in U, NEW side \in Sides,
           NEW c1 \in Colors, NEW c2 \in Colors, NEW c3 \in Colors,
           Kid(t, g, side) # NIL, Kid(t, Kid(t, g, side), Across(side)) # NIL
    PROVE  LET u == RotateDouble(t, g, side, c1, c2, c3)
           IN  u \in Trees /\ u.max = t.max /\ IsTree(u, U) /\ Doubled(t, u, g, side)
<1> DEFINE u == RotateDouble(t, g, side, c1, c2, c3)
           p == Kid(t, g, side)
           m == Kid(t, p, Across(side))
           up == Up(t, g)
<1>1. PICK h : Graded(t, U, h)
  BY DEF IsTree
<1>2. Joined(t, U) /\ Across(side) \in Sides
  BY AcrossSides DEF IsTree
<1>3. p \in U /\ p # g /\ up # g /\ up # p /\ h[p] < h[g]
  BY <1>1, <1>2, Apart
<1>4. m \in U /\ m # p /\ h[m] < h[p]
  <2> HIDE DEF p
  <2>1. QED
    BY <1>1, <1>2, <1>3, Apart DEF p
<1>5. g = t.root => up = NIL
  BY <1>2 DEF Joined
<1>6. g # t.root => up \in U /\ h[g] < h[up]
  BY <1>1, <1>2 DEF Joined, Graded
<1>7. \A i \in U : h[i] \in Nat
  BY <1>1 DEF Graded
<1>8. m # g /\ up # m
  <2> HIDE DEF p, m, up
  <2>1. QED
    BY <1>3, <1>4, <1>5, <1>6, <1>7, NilNoBlock
<1>9. u \in Trees /\ u.max = t.max /\ Doubled(t, u, g, side)
  <2>1. p \in Index \ {g} /\ m \in Index \ {g, p} /\ up \notin {g, p, m}
    BY <1>3, <1>4, <1>8
  <2>2. QED
    BY <2>1, RotateDoubleLinks
<1> HIDE DEF u
<1>10. IsTree(u, U)
  BY <1>9, DoubledTree
<1>11. QED
  BY <1>9, <1>10 DEF u

\* Between operations nothing is under repair.
LEMMA DoneSound ==
    ASSUME NEW t, NEW U
    PROVE  RepairSound(t, U, Done)
BY DEF RepairSound, Done

LEMMA InsertingSound ==
    ASSUME NEW t, NEW U, NEW i \in U
    PROVE  RepairSound(t, U, Inserting(i))
BY DEF RepairSound, Inserting

\* A repair step keeps the blocks in use.
LEMMA FixedKeeps ==
    ASSUME TreeInv, NEW t \in Trees, t.max = tree.max, IsTree(t, used),
           NEW r, RepairSound(t, used, r), Fixed(t, r)
    PROVE  TreeInv'
BY DEF TreeInv, Fixed

LEMMA InitTree ==
    Init => TreeInv
<1> SUFFICES ASSUME Init PROVE TreeInv
  OBVIOUS
<1>1. used = {} /\ tree \in Trees /\ tree.root = NIL /\ tree.max = NIL /\ repair = Done
  BY DEF Init, Trees, Links
<1>2. Joined(tree, {})
  BY <1>1 DEF Joined
<1>3. Graded(tree, {}, [i \in {} |-> 0])
  BY DEF Graded
<1>4. IsTree(tree, {})
  BY <1>2, <1>3 DEF IsTree
<1>5. QED
  BY <1>1, <1>4, DoneSound DEF TreeInv

LEMMA InsertRootTree ==
    ASSUME TreeInv, NEW index \in Index, NEW value \in Values, InsertRoot(index, value)
    PROVE  TreeInv'
<1> DEFINE leaf == Leaf(value, NIL, "black")
           max == IF TRACKS_MAX THEN index ELSE NIL
           u == [tree EXCEPT !.root = index, !.max = max, !.node[index] = leaf]
<1>1. tree \in Trees /\ tree.root = NIL /\ repair = Done /\ IsTree(tree, used)
  BY DEF TreeInv, InsertRoot
<1>2. used = {}
  BY <1>1 DEF IsTree, Joined
<1>3. tree' = u /\ used' = {index} /\ repair' = Done
  BY <1>1, <1>2 DEF InsertRoot
<1>4. leaf \in Nodes /\ leaf.parent = NIL /\ leaf["left"] = NIL /\ leaf["right"] = NIL
  BY DEF Leaf, Nodes, Links, Colors
<1>5. max \in Links /\ max \in {index, NIL} /\ index \in Links
  BY DEF Links
<1> HIDE DEF leaf, max
<1>6. u \in Trees /\ u.root = index /\ u.max = max /\ u.node[index] = leaf
  BY <1>1, <1>4, <1>5 DEF Trees
<1> HIDE DEF u
<1>7. Up(u, index) = NIL /\ \A s \in Sides : Kid(u, index, s) = NIL
  BY <1>4, <1>6 DEF Up, Kid, Sides
<1>8. IsTree(u, {index})
  BY <1>6, <1>7, RootTree
<1>9. QED
  BY <1>3, <1>5, <1>6, <1>8, DoneSound DEF TreeInv

LEMMA InsertLeafTree ==
    ASSUME TreeInv, NEW index \in Index, NEW value \in Values, InsertLeaf(index, value)
    PROVE  TreeInv'
<1> DEFINE place == LeafPlace(tree, value)
           u == Linked(tree, index, value)
<1>1. /\ index \notin used /\ tree.root # NIL /\ tree' = u
      /\ used' = used \cup {index} /\ repair' = Inserting(index)
      /\ tree \in Trees /\ used \in SUBSET Index /\ tree.max \in used \cup {NIL}
      /\ IsTree(tree, used)
  BY DEF TreeInv, InsertLeaf
<1>2. Joined(tree, used) /\ Weighed(tree, used, Weights(tree, used))
  BY <1>1, WeightsGraded DEF IsTree, Weighed
<1>3. /\ place.parent \in used /\ place.side \in Sides
      /\ Kid(tree, place.parent, place.side) = NIL
  BY <1>1, <1>2, LeafPlaceFree
<1>4. place.parent \in Index \ {index}
  BY <1>1, <1>3
<1>5. u \in Trees /\ u.max \in {tree.max, index} /\ Hung(tree, u, index, place)
  BY <1>1, <1>3, <1>4, LinkedLinks
<1> HIDE DEF u, place
<1>6. IsTree(u, used \cup {index})
  BY <1>1, <1>3, <1>5, HungTree
<1>7. QED
  BY <1>1, <1>5, <1>6, InsertingSound DEF TreeInv

LEMMA RemoveTree ==
    ASSUME TreeInv, NEW index \in Index, RemoveByIndex(index)
    PROVE  TreeInv'
<1> DEFINE cut == Cut(tree, index)
           closed == SetColor(cut.tree, cut.child, "black")
           max == MaxWithout(tree, index)
           u == [closed EXCEPT !.max = max]
           V == used \ {index}
<1>1. /\ index \in used /\ tree' = u /\ used' = V
      /\ repair' = IF cut.child = NIL /\ cut.color = "black" THEN Removing(NIL, cut.parent) ELSE Done
      /\ tree \in Trees /\ used \in SUBSET Index /\ tree.max \in used \cup {NIL}
      /\ IsTree(tree, used)
  BY DEF TreeInv, RemoveByIndex
<1>2. /\ cut.tree \in Trees /\ cut.tree.max = tree.max /\ IsTree(cut.tree, V)
      /\ cut.child \in Links /\ cut.color \in Colors /\ cut.parent \in V \cup {NIL}
      /\ cut.child = NIL =>
           IF cut.parent = NIL THEN cut.tree.root = NIL
           ELSE \E s \in Sides : Kid(cut.tree, cut.parent, s) = NIL
  BY <1>1, CutTree
<1> HIDE DEF cut
<1>3. max \in V \cup {NIL} /\ max \in Links
  <2>1. Joined(tree, used) /\ Weighed(tree, used, Weights(tree, used))
    BY <1>1, WeightsGraded DEF IsTree, Weighed
  <2>2. max \in V \cup {NIL}
    BY <1>1, <2>1, MaxWithoutLinks
  <2>3. QED
    BY <1>1, <2>2 DEF Links
<1> HIDE DEF max
<1>4. closed \in Trees /\ IsTree(closed, V) /\ SameLinks(cut.tree, closed)
  <2>1. "black" \in Colors /\ V \in SUBSET Index
    BY <1>1 DEF Colors
  <2> HIDE DEF V
  <2>2. QED
    BY <1>2, <2>1, ColoredTree
<1> HIDE DEF closed
<1>5. u \in Trees /\ u.max = max /\ SameLinks(closed, u)
  BY <1>3, <1>4 DEF Trees, SameLinks, Up, Kid
<1> HIDE DEF u
<1>6. V \in SUBSET Index /\ NIL \notin V
  BY <1>1, NilNoBlock
<1>7. IsTree(u, V)
  <2> HIDE DEF V
  <2>1. QED
    BY <1>4, <1>5, <1>6, SameLinksTree
<1>8. RepairSound(u, V, repair')
  <2>1. CASE cut.child = NIL /\ cut.color = "black"
    <3>1. repair' = [op |-> "remove", at |-> NIL, parent |-> cut.parent]
      BY <1>1, <2>1 DEF Removing
    <3>2. cut.parent = NIL => u.root = NIL
      BY <1>2, <1>4, <1>5, <2>1 DEF SameLinks
    <3>3. cut.parent # NIL => \E s \in Sides : Kid(u, cut.parent, s) = NIL
      <4> SUFFICES ASSUME cut.parent # NIL PROVE \E s \in Sides : Kid(u, cut.parent, s) = NIL
        OBVIOUS
      <4>1. PICK s \in Sides : Kid(cut.tree, cut.parent, s) = NIL
        BY <1>2, <2>1
      <4>2. cut.parent \in Index
        BY <1>2, <1>6
      <4>3. Kid(u, cut.parent, s) = NIL
        BY <1>4, <1>5, <4>1, <4>2 DEF SameLinks
      <4>4. QED
        BY <4>3
    <3> HIDE DEF V
    <3>4. QED
      BY <1>2, <3>1, <3>2, <3>3 DEF RepairSound
  <2>2. CASE ~ (cut.child = NIL /\ cut.color = "black")
    BY <1>1, <2>2, DoneSound
  <2>3. QED
    BY <2>1, <2>2
<1>9. QED
  <2>1. used' \in SUBSET Index /\ tree' \in Trees /\ tree'.max \in used' \cup {NIL}
    BY <1>1, <1>3, <1>5, <1>6
  <2>2. IsTree(tree', used') /\ RepairSound(tree', used', repair')
    BY <1>1, <1>7, <1>8
  <2>3. QED
    BY <2>1, <2>2 DEF TreeInv

-----------------------------------------------------------------------------
(* The repair after an insertion.                                          *)

LEMMA InsertFixRootTree ==
    ASSUME TreeInv, InsertFixRoot
    PROVE  TreeInv'
<1> DEFINE top == IF tree.root = repair.at THEN repair.at ELSE FixParent
           u == SetColor(tree, top, "black")
<1>1. tree \in Trees /\ used \in SUBSET Index /\ IsTree(tree, used) /\ repair.at \in used
  BY DEF TreeInv, RepairSound, InsertFixRoot, Done
<1>2. top \in Links /\ "black" \in Colors
  BY <1>1, LinksTyped, ChildIsKid DEF FixParent, Links, Colors
<1>3. Fixed(u, Done)
  BY DEF InsertFixRoot
<1>4. u \in Trees /\ u.max = tree.max /\ IsTree(u, used)
  <2> HIDE DEF top
  <2>1. QED
    BY <1>1, <1>2, ColoredTree
<1> HIDE DEF u
<1>5. QED
  BY <1>3, <1>4, DoneSound, FixedKeeps

LEMMA InsertFixNothingTree ==
    ASSUME TreeInv, InsertFixNothing
    PROVE  TreeInv'
BY DoneSound, FixedKeeps DEF TreeInv, InsertFixNothing

\* Parent and grandparent of a node that needs repair are in the tree.
LEMMA FixFamily ==
    ASSUME TreeInv, NeedsInsertFix
    PROVE  LET p == FixParent
               g == FixGrandparent
           IN  /\ repair.at \in used /\ repair.at # NIL
               /\ p \in used /\ p = Up(tree, repair.at) /\ g \in used /\ g = Up(tree, p)
               /\ FixSide \in Sides /\ Kid(tree, g, FixSide) = p /\ p # NIL
               /\ Kid(tree, p, FixSide) # repair.at => Kid(tree, p, Across(FixSide)) = repair.at
               /\ FixUncle \in Links
               /\ Color(tree, p) \in Colors /\ Color(tree, g) \in Colors
<1> DEFINE at == repair.at
           p == FixParent
           g == FixGrandparent
<1>1. /\ tree \in Trees /\ used \in SUBSET Index /\ Joined(tree, used) /\ at \in used
      /\ NIL \notin used /\ at # tree.root /\ g # NIL
  BY NilNoBlock DEF TreeInv, RepairSound, NeedsInsertFix, Done, IsTree
<1>2. p = Up(tree, at) /\ p \in used
  BY <1>1, ChildIsKid DEF FixParent, Joined
<1> HIDE DEF p
<1>3. g = Up(tree, p)
  BY <1>1, <1>2, ChildIsKid DEF FixGrandparent, p
<1>4. p # tree.root
  BY <1>1, <1>2, <1>3 DEF Joined
<1>5. g \in used
  BY <1>1, <1>2, <1>3, <1>4 DEF Joined
<1> HIDE DEF g
<1>6. FixSide = Place(tree, g, p)
  BY DEF FixSide, Place, Kid, p, g
<1>7. FixSide \in Sides /\ Kid(tree, g, FixSide) = p
  BY <1>1, <1>2, <1>3, <1>4, <1>6, JoinedSides
<1>8. Kid(tree, p, FixSide) # at => Kid(tree, p, Across(FixSide)) = at
  <2>1. \E s \in Sides : Kid(tree, p, s) = at
    BY <1>1, <1>2 DEF Joined
  <2>2. Sides = {FixSide, Across(FixSide)}
    BY <1>7, AcrossSides
  <2>3. QED
    BY <2>1, <2>2
<1>9. FixUncle \in Links
  <2>1. FixUncle = Kid(tree, g, Across(FixSide)) /\ Across(FixSide) \in Sides
    BY <1>7, AcrossSides DEF FixUncle, Kid, g
  <2>2. QED
    BY <1>1, <1>5, <2>1, LinksTyped
<1>10. Color(tree, p) \in Colors /\ Color(tree, g) \in Colors
  BY <1>1, <1>2, <1>5, ColorTyped DEF Links
<1>11. QED
  BY <1>1, <1>2, <1>3, <1>5, <1>7, <1>8, <1>9, <1>10 DEF p, g

LEMMA InsertFixRecolorTree ==
    ASSUME TreeInv, InsertFixRecolor
    PROVE  TreeInv'
<1> DEFINE t1 == SetColor(tree, FixParent, "black")
           t2 == SetColor(t1, FixUncle, "black")
           t3 == SetColor(t2, FixGrandparent, "red")
<1>1. /\ FixParent \in Links /\ FixUncle \in Links /\ FixGrandparent \in used
      /\ FixGrandparent \in Links /\ "black" \in Colors /\ "red" \in Colors
      /\ tree \in Trees /\ used \in SUBSET Index /\ IsTree(tree, used)
  BY FixFamily DEF InsertFixRecolor, TreeInv, Links, Colors
<1>2. Fixed(t3, Inserting(FixGrandparent))
  BY DEF InsertFixRecolor
<1>3. t1 \in Trees /\ t1.max = tree.max /\ IsTree(t1, used)
  BY <1>1, ColoredTree
<1> HIDE DEF t1
<1>4. t2 \in Trees /\ t2.max = tree.max /\ IsTree(t2, used)
  BY <1>1, <1>3, ColoredTree
<1> HIDE DEF t2
<1>5. t3 \in Trees /\ t3.max = tree.max /\ IsTree(t3, used)
  BY <1>1, <1>4, ColoredTree
<1> HIDE DEF t3
<1>6. RepairSound(t3, used, Inserting(FixGrandparent))
  BY <1>1, InsertingSound
<1>7. QED
  BY <1>2, <1>5, <1>6, FixedKeeps

LEMMA InsertFixOuterTree ==
    ASSUME TreeInv, InsertFixOuter
    PROVE  TreeInv'
<1> DEFINE p == FixParent
           g == FixGrandparent
           side == Across(FixSide)
           t1 == Rotate(tree, g, side)
           t2 == SetColor(t1, g, Color(tree, p))
           t3 == SetColor(t2, p, Color(tree, g))
<1>1. /\ p \in Links /\ g \in used /\ g \in Links /\ FixSide \in Sides
      /\ Kid(tree, g, FixSide) = p /\ p # NIL
      /\ Color(tree, p) \in Colors /\ Color(tree, g) \in Colors
      /\ tree \in Trees /\ used \in SUBSET Index /\ IsTree(tree, used)
  BY FixFamily DEF InsertFixOuter, TreeInv, Links
<1>2. Fixed(t3, Done)
  BY DEF InsertFixOuter
<1> HIDE DEF p, g
<1>3. side \in Sides /\ Kid(tree, g, Across(side)) # NIL
  BY <1>1, AcrossSides
<1>4. t1 \in Trees /\ t1.max = tree.max /\ IsTree(t1, used)
  <2> HIDE DEF side
  <2>1. QED
    BY <1>1, <1>3, RotateTree
<1> HIDE DEF t1
<1>5. t2 \in Trees /\ t2.max = tree.max /\ IsTree(t2, used)
  BY <1>1, <1>4, ColoredTree
<1> HIDE DEF t2
<1>6. t3 \in Trees /\ t3.max = tree.max /\ IsTree(t3, used)
  BY <1>1, <1>5, ColoredTree
<1> HIDE DEF t3
<1>7. QED
  BY <1>2, <1>6, DoneSound, FixedKeeps

LEMMA InsertFixInnerTree ==
    ASSUME TreeInv, InsertFixInner
    PROVE  TreeInv'
<1> DEFINE p == FixParent
           g == FixGrandparent
           t1 == RotateDouble(tree, g, FixSide, Color(tree, g), Color(tree, p), "red")
<1>1. /\ g \in used /\ FixSide \in Sides /\ Kid(tree, g, FixSide) = p /\ p # NIL
      /\ Kid(tree, p, FixSide) # repair.at => Kid(tree, p, Across(FixSide)) = repair.at
      /\ repair.at # NIL
      /\ Color(tree, p) \in Colors /\ Color(tree, g) \in Colors /\ "red" \in Colors
      /\ tree \in Trees /\ used \in SUBSET Index /\ IsTree(tree, used)
  BY FixFamily DEF InsertFixInner, TreeInv, Colors
<1>2. Fixed(t1, Done) /\ Kid(tree, p, FixSide) # repair.at
  BY DEF InsertFixInner, Kid
<1> HIDE DEF p, g
<1>3. t1 \in Trees /\ t1.max = tree.max /\ IsTree(t1, used)
  BY <1>1, <1>2, RotateDoubleTree
<1> HIDE DEF t1
<1>4. QED
  BY <1>2, <1>3, DoneSound, FixedKeeps

-----------------------------------------------------------------------------
(* The repair after a removal.                                             *)

LEMMA RemoveFixRootTree ==
    ASSUME TreeInv, RemoveFixRoot
    PROVE  TreeInv'
BY DoneSound, FixedKeeps DEF TreeInv, RemoveFixRoot

\* The place under repair is below its parent, on the side that is repaired.
LEMMA FixPlace ==
    ASSUME TreeInv, NeedsRemoveFix
    PROVE  /\ repair.op = "remove" /\ repair.at \in used \cup {NIL} /\ repair.parent \in used
           /\ FixedSide \in Sides /\ Kid(tree, repair.parent, FixedSide) = repair.at
           /\ FixSibling = Kid(tree, repair.parent, Across(FixedSide))
           /\ FixSibling \in used \cup {NIL}
           /\ repair.at # NIL => Up(tree, repair.at) = repair.parent
<1> DEFINE at == repair.at
           parent == repair.parent
<1>1. /\ tree \in Trees /\ used \in SUBSET Index /\ Joined(tree, used) /\ NIL \notin used
      /\ at # tree.root /\ at \in used \cup {NIL} /\ parent \in used \cup {NIL}
      /\ at # NIL => Up(tree, at) = parent
      /\ at = NIL /\ parent = NIL => tree.root = NIL
      /\ at = NIL /\ parent # NIL => \E s \in Sides : Kid(tree, parent, s) = NIL
      /\ repair.op = "remove"
  BY NilNoBlock DEF TreeInv, RepairSound, NeedsRemoveFix, Done, IsTree
<1>2. parent \in used
  <2>1. CASE at = NIL
    BY <1>1, <2>1
  <2>2. CASE at # NIL
    BY <1>1, <2>2 DEF Joined
  <2>3. QED
    BY <2>1, <2>2
<1>3. \E s \in Sides : Kid(tree, parent, s) = at
  <2>1. CASE at = NIL
    BY <1>1, <1>2, <2>1
  <2>2. CASE at # NIL
    BY <1>1, <2>2 DEF Joined
  <2>3. QED
    BY <2>1, <2>2
<1>4. FixedSide \in Sides /\ Kid(tree, parent, FixedSide) = at
  <2>1. FixedSide = IF Kid(tree, parent, "left") = at THEN "left" ELSE "right"
    BY DEF FixedSide, Kid
  <2>2. QED
    BY <1>3, <2>1 DEF Sides
<1>5. FixSibling = Kid(tree, parent, Across(FixedSide)) /\ Across(FixedSide) \in Sides
  BY <1>4, AcrossSides DEF FixSibling, Kid
<1>6. FixSibling \in used \cup {NIL}
  BY <1>1, <1>2, <1>5 DEF Joined
<1>7. QED
  BY <1>1, <1>2, <1>4, <1>5, <1>6

\* Who is red is a block.
LEMMA RedIsBlock ==
    ASSUME NEW t, NEW i, Color(t, i) = "red"
    PROVE  i # NIL
BY DEF Color

LEMMA RemoveFixRedSiblingTree ==
    ASSUME TreeInv, RemoveFixRedSibling
    PROVE  TreeInv'
<1> DEFINE at == repair.at
           g == repair.parent
           side == FixedSide
           p == FixSibling
           t1 == Rotate(tree, g, side)
           t2 == SetColor(t1, g, "red")
           t3 == SetColor(t2, p, "black")
           r == Removing(at, g)
<1>1. /\ at \in used \cup {NIL} /\ g \in used /\ side \in Sides /\ Kid(tree, g, side) = at
      /\ p = Kid(tree, g, Across(side)) /\ p \in used \cup {NIL}
      /\ at # NIL => Up(tree, at) = g
  BY FixPlace DEF RemoveFixRedSibling
<1>2. Fixed(t3, r) /\ p # NIL
  BY RedIsBlock DEF RemoveFixRedSibling
<1>3. /\ tree \in Trees /\ used \in SUBSET Index /\ IsTree(tree, used) /\ NIL \notin used
      /\ "black" \in Colors /\ "red" \in Colors
  BY NilNoBlock DEF TreeInv, Colors
<1>4. Joined(tree, used) /\ \E h : Graded(tree, used, h)
  BY <1>3 DEF IsTree
<1> HIDE DEF side, p
<1>5. t1 \in Trees /\ t1.max = tree.max /\ IsTree(t1, used) /\ Rotated(tree, t1, g, side)
  BY <1>1, <1>2, <1>3, RotateTree
<1> HIDE DEF t1
<1>6. t2 \in Trees /\ t2.max = tree.max /\ IsTree(t2, used) /\ SameLinks(t1, t2)
  <2>1. g \in Links
    BY <1>1, <1>3 DEF Links
  <2>2. QED
    BY <1>3, <1>5, <2>1, ColoredTree
<1> HIDE DEF t2
<1>7. t3 \in Trees /\ t3.max = tree.max /\ IsTree(t3, used) /\ SameLinks(t2, t3)
  <2>1. p \in Links
    BY <1>1, <1>3 DEF Links
  <2>2. QED
    BY <1>3, <1>6, <2>1, ColoredTree
<1> HIDE DEF t3
<1>8. g \in Index /\ Across(side) # side /\ Across(side) \in Sides
  BY <1>1, <1>3, AcrossSides
<1>9. p # g /\ Up(tree, g) # g
  BY <1>1, <1>3, <1>4, <1>8, Apart
<1>10. Kid(t3, g, side) = at
  <2>1. Kid(t1, g, side) = Kid(tree, g, side)
    BY <1>1, <1>5, <1>8, <1>9 DEF Rotated
  <2>2. QED
    BY <1>1, <1>6, <1>7, <1>8, <2>1 DEF SameLinks
<1>11. at # NIL => Up(t3, at) = g
  BY <1>1, <1>7, <1>10 DEF IsTree, Joined
<1>12. RepairSound(t3, used, r)
  <2>1. r = [op |-> "remove", at |-> at, parent |-> g]
    BY DEF Removing
  <2>2. at = NIL => \E s \in Sides : Kid(t3, g, s) = NIL
    BY <1>1, <1>10
  <2>3. g # NIL
    BY <1>1, <1>3
  <2> HIDE DEF at, g, r
  <2>4. QED
    BY <1>1, <1>11, <2>1, <2>2, <2>3 DEF RepairSound
<1>13. QED
  BY <1>2, <1>7, <1>12, FixedKeeps

LEMMA RemoveFixOuterTree ==
    ASSUME TreeInv, RemoveFixOuter
    PROVE  TreeInv'
<1> DEFINE g == repair.parent
           side == FixedSide
           p == FixSibling
           t1 == SetColor(tree, OuterNephew, "black")
           t2 == SetColor(t1, g, "black")
           t3 == SetColor(t2, p, Color(tree, g))
           t4 == Rotate(t3, g, side)
<1>1. /\ g \in used /\ side \in Sides
      /\ p = Kid(tree, g, Across(side)) /\ p \in used \cup {NIL}
  BY FixPlace DEF RemoveFixOuter
<1>2. Fixed(t4, Done) /\ OuterNephew # NIL
  BY RedIsBlock DEF RemoveFixOuter
<1>3. /\ tree \in Trees /\ used \in SUBSET Index /\ IsTree(tree, used) /\ NIL \notin used
      /\ "black" \in Colors /\ Across(side) \in Sides
  BY <1>1, NilNoBlock, AcrossSides DEF TreeInv, Colors
<1>4. p # NIL
  BY <1>2 DEF OuterNephew, Child
<1>5. OuterNephew \in Links /\ g \in Links /\ p \in Links
  <2>1. p \in Index /\ g \in Index
    BY <1>1, <1>3, <1>4
  <2>2. OuterNephew = Kid(tree, p, Across(side))
    BY <2>1, ChildIsKid DEF OuterNephew
  <2>3. OuterNephew \in Links
    <3> HIDE DEF p, side
    <3>1. QED
      BY <1>3, <2>1, <2>2, LinksTyped
  <2>4. QED
    BY <2>1, <2>3 DEF Links
<1>6. Color(tree, g) \in Colors
  BY <1>3, <1>5, ColorTyped
<1> HIDE DEF side, p, g
<1>7. t1 \in Trees /\ t1.max = tree.max /\ IsTree(t1, used) /\ SameLinks(tree, t1)
  BY <1>3, <1>5, ColoredTree
<1> HIDE DEF t1
<1>8. t2 \in Trees /\ t2.max = tree.max /\ IsTree(t2, used) /\ SameLinks(t1, t2)
  BY <1>3, <1>5, <1>7, ColoredTree
<1> HIDE DEF t2
<1>9. t3 \in Trees /\ t3.max = tree.max /\ IsTree(t3, used) /\ SameLinks(t2, t3)
  BY <1>3, <1>5, <1>6, <1>8, ColoredTree
<1> HIDE DEF t3
<1>10. Kid(t3, g, Across(side)) # NIL
  <2>1. g \in Index
    BY <1>1, <1>3
  <2>2. Kid(t3, g, Across(side)) = Kid(tree, g, Across(side))
    BY <1>3, <1>7, <1>8, <1>9, <2>1 DEF SameLinks
  <2>3. QED
    BY <1>1, <1>4, <2>2
<1>11. t4 \in Trees /\ t4.max = tree.max /\ IsTree(t4, used)
  BY <1>1, <1>3, <1>9, <1>10, RotateTree
<1> HIDE DEF t4
<1>12. QED
  BY <1>2, <1>11, DoneSound, FixedKeeps

LEMMA RemoveFixInnerTree ==
    ASSUME TreeInv, RemoveFixInner
    PROVE  TreeInv'
<1> DEFINE g == repair.parent
           side == Across(FixedSide)
           p == FixSibling
           u == RotateDouble(tree, g, side, Color(tree, g), "black", "black")
<1>1. /\ g \in used /\ FixedSide \in Sides /\ p = Kid(tree, g, side) /\ p \in used \cup {NIL}
  BY FixPlace DEF RemoveFixInner
<1>2. Fixed(u, Done) /\ InnerNephew # NIL
  BY RedIsBlock DEF RemoveFixInner
<1>3. /\ tree \in Trees /\ used \in SUBSET Index /\ IsTree(tree, used) /\ NIL \notin used
      /\ "black" \in Colors /\ side \in Sides /\ Across(side) = FixedSide
  BY <1>1, NilNoBlock, AcrossSides DEF TreeInv, Colors
<1>4. p # NIL
  BY <1>2 DEF InnerNephew, Child
<1>5. Kid(tree, p, Across(side)) # NIL
  <2>1. p \in Index
    BY <1>1, <1>3, <1>4
  <2>2. InnerNephew = Kid(tree, p, FixedSide)
    BY <2>1, ChildIsKid DEF InnerNephew
  <2>3. QED
    BY <1>2, <1>3, <2>2
<1>6. Color(tree, g) \in Colors
  BY <1>1, <1>3, ColorTyped DEF Links
<1> HIDE DEF p, g, side
<1>7. u \in Trees /\ u.max = tree.max /\ IsTree(u, used)
  BY <1>1, <1>3, <1>4, <1>5, <1>6, RotateDoubleTree
<1> HIDE DEF u
<1>8. QED
  BY <1>2, <1>7, DoneSound, FixedKeeps

LEMMA RemoveFixAbsorbTree ==
    ASSUME TreeInv, RemoveFixAbsorb
    PROVE  TreeInv'
<1> DEFINE t1 == SetColor(tree, FixSibling, "red")
           t2 == SetColor(t1, repair.parent, "black")
<1>1. /\ repair.parent \in Links /\ FixSibling \in Links
      /\ tree \in Trees /\ used \in SUBSET Index /\ IsTree(tree, used)
      /\ "black" \in Colors /\ "red" \in Colors
  BY FixPlace DEF RemoveFixAbsorb, BlackNephews, TreeInv, Colors, Links
<1>2. Fixed(t2, Done)
  BY DEF RemoveFixAbsorb
<1>3. t1 \in Trees /\ t1.max = tree.max /\ IsTree(t1, used)
  BY <1>1, ColoredTree
<1> HIDE DEF t1
<1>4. t2 \in Trees /\ t2.max = tree.max /\ IsTree(t2, used)
  BY <1>1, <1>3, ColoredTree
<1> HIDE DEF t2
<1>5. QED
  BY <1>2, <1>4, DoneSound, FixedKeeps

LEMMA RemoveFixPropagateTree ==
    ASSUME TreeInv, RemoveFixPropagate
    PROVE  TreeInv'
<1> DEFINE g == repair.parent
           u == SetColor(tree, FixSibling, "red")
           r == Removing(g, Parent(tree, g))
<1>1. /\ g \in used /\ FixSibling \in Links /\ NIL \notin used
      /\ tree \in Trees /\ used \in SUBSET Index /\ IsTree(tree, used) /\ "red" \in Colors
  BY FixPlace, NilNoBlock DEF RemoveFixPropagate, BlackNephews, TreeInv, Colors, Links
<1>2. Fixed(u, r)
  BY DEF RemoveFixPropagate
<1> HIDE DEF g
<1>3. u \in Trees /\ u.max = tree.max /\ IsTree(u, used) /\ SameLinks(tree, u)
  BY <1>1, ColoredTree
<1> HIDE DEF u
<1>4. r = [op |-> "remove", at |-> g, parent |-> Up(tree, g)] /\ g # NIL
  BY <1>1, ChildIsKid DEF Removing
<1>5. Up(tree, g) \in used \cup {NIL} /\ Up(u, g) = Up(tree, g)
  BY <1>1, <1>3 DEF IsTree, Joined, SameLinks
<1> HIDE DEF r
<1>6. RepairSound(u, used, r)
  BY <1>1, <1>4, <1>5 DEF RepairSound
<1>7. QED
  BY <1>2, <1>3, <1>6, FixedKeeps

-----------------------------------------------------------------------------

\* Every step keeps the invariant.
LEMMA NextTree ==
    ASSUME TreeInv, [Next]_vars
    PROVE  TreeInv'
<1>1. ASSUME NEW index \in Index, NEW value \in Values,
             InsertRoot(index, value) \/ InsertLeaf(index, value)
      PROVE  TreeInv'
  BY <1>1, InsertRootTree, InsertLeafTree
<1>2. ASSUME NEW index \in Index, RemoveByIndex(index)
      PROVE  TreeInv'
  BY <1>2, RemoveTree
<1>3. CASE InsertFix
  BY <1>3, InsertFixRootTree, InsertFixNothingTree, InsertFixRecolorTree, InsertFixOuterTree,
     InsertFixInnerTree DEF InsertFix
<1>4. CASE RemoveFix
  BY <1>4, RemoveFixRootTree, RemoveFixRedSiblingTree, RemoveFixOuterTree, RemoveFixInnerTree,
     RemoveFixAbsorbTree, RemoveFixPropagateTree DEF RemoveFix
<1>5. CASE UNCHANGED vars
  BY <1>5 DEF vars, TreeInv
<1>6. QED
  BY <1>1, <1>2, <1>3, <1>4, <1>5 DEF Next

\* Between operations and after every iteration of insert_fix and remove_fix, the
\* blocks that the caller has inserted hang from the root in one tree, and the
\* repair goes on where the code expects a node.
THEOREM TreeInductive == Spec => []TreeInv
<1>1. Init => TreeInv
  BY InitTree
<1>2. TreeInv /\ [Next]_vars => TreeInv'
  BY NextTree
<1>3. QED
  BY <1>1, <1>2, PTL DEF Spec

-----------------------------------------------------------------------------
(* The order of the nodes.                                                 *)

\* s lists the blocks of S, each once.
Lists(s, S) == s \in Seq(Index) /\ IsInjective(s) /\ ToSet(s) = S

LEMMA NothingListed == Lists(<< >>, {})
BY DEF Lists, IsInjective, ToSet

\* A block between the lists of two sets, apart from each other and from the block.
LEMMA ListsJoined ==
    ASSUME NEW A \in SUBSET Index, NEW B \in SUBSET Index, NEW i \in Index,
           i \notin A, i \notin B, A \cap B = {},
           NEW r, Lists(r, A), NEW s, Lists(s, B)
    PROVE  Lists(r \o << i >> \o s, {i} \cup A \cup B)
<1> DEFINE q == r \o << i >> \o s
           m == Len(r)
           n == Len(s)
<1>1. r \in Seq(Index) /\ s \in Seq(Index) /\ m \in Nat /\ n \in Nat
  BY DEF Lists
<1>2. /\ q \in Seq(Index) /\ Len(q) = m + 1 + n
      /\ \A k \in 1 .. m : q[k] = r[k]
      /\ q[m + 1] = i
      /\ \A k \in 1 .. n : q[m + 1 + k] = s[k]
  BY <1>1
<1>3. /\ \A k \in 1 .. m : r[k] \in A
      /\ \A k \in 1 .. n : s[k] \in B
      /\ \A a \in A : \E k \in 1 .. m : r[k] = a
      /\ \A b \in B : \E k \in 1 .. n : s[k] = b
      /\ \A k, l \in 1 .. m : r[k] = r[l] => k = l
      /\ \A k, l \in 1 .. n : s[k] = s[l] => k = l
  <2>1. DOMAIN r = 1 .. m /\ DOMAIN s = 1 .. n
    BY <1>1
  <2>2. QED
    BY <2>1 DEF Lists, IsInjective, ToSet
<1> HIDE DEF q, m, n
<1>4. DOMAIN q = 1 .. (m + 1 + n)
  BY <1>2
<1>5. ASSUME NEW k \in DOMAIN q
      PROVE  k \in 1 .. m \/ k = m + 1 \/ (k > m + 1 /\ \E l \in 1 .. n : k = m + 1 + l)
  <2>1. k \in 1 .. (m + 1 + n)
    BY <1>4
  <2>2. k \in 1 .. m \/ k = m + 1 \/ (k > m + 1 /\ k - (m + 1) \in 1 .. n)
    BY <1>1, <2>1
  <2>3. k = m + 1 + (k - (m + 1))
    BY <1>1, <2>1
  <2>4. QED
    BY <2>2, <2>3
<1>6. ASSUME NEW k \in DOMAIN q
      PROVE  /\ k \in 1 .. m => q[k] \in A
             /\ k = m + 1 => q[k] = i
             /\ k > m + 1 => q[k] \in B
             /\ q[k] \in {i} \cup A \cup B
  <2>1. k \in 1 .. m => q[k] \in A
    BY <1>2, <1>3
  <2>2. k = m + 1 => q[k] = i
    BY <1>2
  <2>3. ASSUME NEW l \in 1 .. n, k = m + 1 + l
        PROVE  q[k] \in B
    BY <1>2, <1>3, <2>3
  <2>4. k > m + 1 => q[k] \in B
    <3>1. k > m + 1 => k \notin 1 .. m /\ k # m + 1
      BY <1>1, <1>4
    <3>2. QED
      BY <1>5, <2>3, <3>1
  <2>5. QED
    BY <1>5, <2>1, <2>2, <2>3, <2>4
<1>7. ASSUME NEW k \in DOMAIN q, NEW l \in DOMAIN q, q[k] = q[l]
      PROVE  k = l
  <2>1. CASE k \in 1 .. m /\ l \in 1 .. m
    BY <1>2, <1>3, <1>7, <2>1
  <2>2. CASE k = m + 1 /\ l = m + 1
    BY <2>2
  <2>3. ASSUME NEW c \in 1 .. n, NEW d \in 1 .. n, k = m + 1 + c, l = m + 1 + d
        PROVE  k = l
    <3>1. s[c] = s[d]
      BY <1>2, <1>7, <2>3
    <3>2. QED
      BY <1>3, <2>3, <3>1
  <2>4. /\ ~(k \in 1 .. m /\ l = m + 1) /\ ~(l \in 1 .. m /\ k = m + 1)
        /\ ~(k \in 1 .. m /\ l > m + 1) /\ ~(l \in 1 .. m /\ k > m + 1)
        /\ ~(k = m + 1 /\ l > m + 1) /\ ~(l = m + 1 /\ k > m + 1)
    <3>1. \A a \in A : a # i /\ a \notin B
      OBVIOUS
    <3>2. \A b \in B : b # i
      OBVIOUS
    <3>3. QED
      BY <1>6, <1>7, <3>1, <3>2
  <2>5. \A c \in 1 .. n : m + 1 + c > m + 1
    BY <1>1
  <2>6. QED
    BY <1>5, <2>1, <2>2, <2>3, <2>4, <2>5
<1>8. ASSUME NEW j \in {i} \cup A \cup B
      PROVE  \E k \in DOMAIN q : q[k] = j
  <2>1. CASE j = i
    <3>1. m + 1 \in DOMAIN q
      BY <1>1, <1>4
    <3>2. QED
      BY <1>2, <2>1, <3>1
  <2>2. CASE j \in A
    <3>1. PICK k \in 1 .. m : r[k] = j
      BY <1>3, <2>2
    <3>2. k \in DOMAIN q
      BY <1>1, <1>4
    <3>3. QED
      BY <1>2, <3>1, <3>2
  <2>3. CASE j \in B
    <3>1. PICK k \in 1 .. n : s[k] = j
      BY <1>3, <2>3
    <3>2. m + 1 + k \in DOMAIN q
      BY <1>1, <1>4
    <3>3. QED
      BY <1>2, <3>1, <3>2
  <2>4. QED
    BY <2>1, <2>2, <2>3
<1>9. ToSet(q) = {i} \cup A \cup B
  BY <1>6, <1>8 DEF ToSet
<1>10. IsInjective(q)
  BY <1>7 DEF IsInjective
<1>11. QED
  BY <1>2, <1>9, <1>10 DEF q, Lists

\* The recursion of InOrder, for any tree.
LEMMA InOrderWalk ==
    ASSUME NEW t \in Trees
    PROVE  \E part :
            /\ InOrderOf(t) = part[Size][t.root]
            /\ \A n \in 0 .. Size, i \in Links :
                part[n][i] = IF i = NIL \/ n = 0 THEN << >>
                             ELSE part[n - 1][Kid(t, i, "left")] \o << i >> \o part[n - 1][Kid(t, i, "right")]
<1> DEFINE Eq(part) == part = [fuel \in 0 .. Size |-> [i \in Links |->
                IF i = NIL \/ fuel = 0 THEN << >>
                ELSE part[fuel - 1][t.node[i].left] \o << i >> \o part[fuel - 1][t.node[i].right]]]
           part == CHOOSE part : Eq(part)
           L(i) == Kid(t, i, "left")
           R(i) == Kid(t, i, "right")
           S == [Links -> Seq(Index)]
           Step(p) == [i \in Links |-> IF i = NIL THEN << >> ELSE p[L(i)] \o << i >> \o p[R(i)]]
           step == [p \in S |-> Step(p)]
           none == [i \in Links |-> << >>]
<1>1. InOrderOf(t) = part[Size][t.root]
  BY DEF InOrderOf
<1>2. Size \in Nat
  BY TreeAssumption, FS_CardinalityType DEF Size
<1>3. \A i \in Index : /\ t.node[i].left = L(i) /\ t.node[i].right = R(i)
                       /\ L(i) \in Links /\ R(i) \in Links
  BY LinksTyped DEF Kid, Sides
<1>4. none \in S
  OBVIOUS
<1>5. step \in [S -> S]
  <2>1. ASSUME NEW p \in S PROVE Step(p) \in S
    <3>1. ASSUME NEW i \in Links, i # NIL
          PROVE  p[L(i)] \o << i >> \o p[R(i)] \in Seq(Index)
      <4>1. i \in Index
        BY <3>1 DEF Links
      <4>2. p[L(i)] \in Seq(Index) /\ p[R(i)] \in Seq(Index) /\ << i >> \in Seq(Index)
        BY <1>3, <4>1
      <4>3. QED
        BY <4>2
    <3> HIDE DEF L, R
    <3>2. << >> \in Seq(Index)
      OBVIOUS
    <3>3. QED
      BY <3>1, <3>2
  <2> HIDE DEF S, Step
  <2>2. QED
    BY <2>1
<1>6. Links = Index \cup {NIL}
  BY DEF Links
<1>7. \E f : Eq(f)
  <2> HIDE DEF step, none, S
  <2>1. PICK f \in [0 .. Size -> S] : IsIteration(f, none, step, Size)
    BY <1>2, <1>4, <1>5, IterationExists
  <2>2. f = [n \in 0 .. Size |-> IF n = 0 THEN none ELSE step[f[n - 1]]]
    BY <2>1 DEF IsIteration
  <2>3. ASSUME NEW n \in 0 .. Size
        PROVE  (IF n = 0 THEN none ELSE step[f[n - 1]]) = [i \in Links |->
                IF i = NIL \/ n = 0 THEN << >>
                ELSE f[n - 1][t.node[i].left] \o << i >> \o f[n - 1][t.node[i].right]]
    <3>1. CASE n = 0
      BY <3>1 DEF none
    <3>2. CASE n # 0
      <4>1. n - 1 \in 0 .. Size
        BY <1>2, <3>2
      <4>2. f[n - 1] \in S
        BY <4>1
      <4>3. step[f[n - 1]] = Step(f[n - 1])
        <5> HIDE DEF Step
        <5>1. QED
          BY <4>2 DEF step
      <4>4. \A i \in Links : i # NIL => t.node[i].left = L(i) /\ t.node[i].right = R(i)
        BY <1>3, <1>6
      <4> DEFINE g == f[n - 1]
      <4> HIDE DEF g, L, R
      <4>5. Step(g) = [i \in Links |->
                IF i = NIL \/ n = 0 THEN << >>
                ELSE g[t.node[i].left] \o << i >> \o g[t.node[i].right]]
        BY <3>2, <4>4
      <4>6. QED
        BY <3>2, <4>3, <4>5 DEF g
    <3>3. QED
      BY <3>1, <3>2
  <2>4. Eq(f)
    BY <2>2, <2>3
  <2>5. QED
    BY <2>4
<1>8. Eq(part)
  <2> HIDE DEF Eq
  <2>1. QED
    BY <1>7
<1>9. ASSUME NEW n \in 0 .. Size, NEW i \in Links
      PROVE  part[n][i] = IF i = NIL \/ n = 0 THEN << >>
                          ELSE part[n - 1][L(i)] \o << i >> \o part[n - 1][R(i)]
  <2> HIDE DEF part, L, R
  <2> DEFINE g == part[n - 1]
  <2>1. part[n] = [j \in Links |->
            IF j = NIL \/ n = 0 THEN << >>
            ELSE part[n - 1][t.node[j].left] \o << j >> \o part[n - 1][t.node[j].right]]
    BY <1>8
  <2>2. part[n] = [j \in Links |->
            IF j = NIL \/ n = 0 THEN << >>
            ELSE g[t.node[j].left] \o << j >> \o g[t.node[j].right]]
    BY <2>1
  <2> HIDE DEF g
  <2>3. part[n][i] = IF i = NIL \/ n = 0 THEN << >>
                     ELSE g[t.node[i].left] \o << i >> \o g[t.node[i].right]
    BY <2>2
  <2>4. i # NIL => t.node[i].left = L(i) /\ t.node[i].right = R(i)
    BY <1>3, <1>6
  <2>5. QED
    BY <2>3, <2>4 DEF g
<1>10. QED
  BY <1>1, <1>9

\* The walk in order of the blocks in use lists them.
\* With fuel n it lists what is below the blocks of weight n and less.
LEMMA InOrderLists ==
    ASSUME NEW t \in Trees, NEW U \in SUBSET Index, IsTree(t, U)
    PROVE  Lists(InOrderOf(t), U)
<1> DEFINE L(i) == Kid(t, i, "left")
           R(i) == Kid(t, i, "right")
           w == Weights(t, U)
<1>1. PICK part :
            /\ InOrderOf(t) = part[Size][t.root]
            /\ \A n \in 0 .. Size, i \in Links :
                part[n][i] = IF i = NIL \/ n = 0 THEN << >>
                             ELSE part[n - 1][L(i)] \o << i >> \o part[n - 1][R(i)]
  BY InOrderWalk
<1>2. Size \in Nat
  BY TreeAssumption, FS_CardinalityType DEF Size
<1>6. Links = Index \cup {NIL}
  BY DEF Links
<1>9. ASSUME NEW n \in 0 .. Size, NEW i \in Links
      PROVE  part[n][i] = IF i = NIL \/ n = 0 THEN << >>
                          ELSE part[n - 1][L(i)] \o << i >> \o part[n - 1][R(i)]
  BY <1>1
<1>10. Joined(t, U)
  BY DEF IsTree
<1>11. Graded(t, U, w) /\ \A i \in U : w[i] \in 1 .. Size
  BY WeightsGraded
<1>12. \A i \in U, side \in Sides : Kid(t, i, side) # NIL =>
            Kid(t, i, side) \in U /\ w[Kid(t, i, side)] < w[i]
  <2> HIDE DEF w
  <2>1. QED
    BY <1>10, <1>11, Apart DEF Joined
<1> DEFINE X == {n \in Nat : n <= Size =>
                    \A i \in U \cup {NIL} : i = NIL \/ w[i] <= n
                        => Lists(part[n][i], Below(t, U, i))}
<1>13. \A n \in 0 .. Size : Lists(part[n][NIL], Below(t, U, NIL))
  <2>1. \A n \in 0 .. Size : part[n][NIL] = << >>
    BY <1>6, <1>9
  <2>2. QED
    BY <2>1, BelowNil, NothingListed
<1>14. 0 \in X
  <2> HIDE DEF w
  <2>1. \A i \in U : ~(w[i] <= 0)
    BY <1>2, <1>11
  <2>2. 0 \in 0 .. Size
    BY <1>2
  <2>3. QED
    BY <1>13, <2>1, <2>2
<1>15. ASSUME NEW n \in Nat, n \in X
       PROVE  n + 1 \in X
  <2> HIDE DEF w, L, R
  <2> SUFFICES ASSUME n + 1 <= Size, NEW i \in U, w[i] <= n + 1
               PROVE  Lists(part[n + 1][i], Below(t, U, i))
    <3>1. n + 1 <= Size => n + 1 \in 0 .. Size
      BY <1>2
    <3>2. QED
      BY <1>13, <3>1
  <2>1. n + 1 \in 0 .. Size /\ n <= Size /\ n + 1 # 0 /\ (n + 1) - 1 = n
    BY <1>2
  <2>2. i \in Index /\ i \in Links /\ i # NIL
    BY <1>6, NilNoBlock
  <2>3. part[n + 1][i] = part[n][L(i)] \o << i >> \o part[n][R(i)]
    BY <1>9, <2>1, <2>2
  <2>4. \A k \in {L(i), R(i)} : k \in U \cup {NIL} /\ (k = NIL \/ w[k] <= n)
    <3>1. \A k \in {L(i), R(i)} : k # NIL => k \in U /\ w[k] < w[i]
      BY <1>12 DEF L, R, Sides
    <3>2. \A k \in U : w[k] \in Nat
      BY <1>2, <1>11
    <3>3. QED
      BY <3>1, <3>2
  <2>5. /\ Lists(part[n][L(i)], Below(t, U, L(i)))
        /\ Lists(part[n][R(i)], Below(t, U, R(i)))
    BY <1>15, <2>1, <2>4
  <2>6. /\ Below(t, U, i) = {i} \cup Below(t, U, L(i)) \cup Below(t, U, R(i))
        /\ i \notin Below(t, U, L(i)) /\ i \notin Below(t, U, R(i))
        /\ Below(t, U, L(i)) \cap Below(t, U, R(i)) = {}
    <3>1. "left" \in Sides /\ "right" \in Sides /\ Across("left") = "right" /\ Across("right") = "left"
      BY DEF Sides, Across
    <3>2. Below(t, U, i) = {i} \cup Below(t, U, L(i)) \cup Below(t, U, R(i))
      BY <1>10, <3>1, BelowParts DEF L, R
    <3>3. i \notin Below(t, U, L(i)) /\ Below(t, U, L(i)) \cap Below(t, U, R(i)) = {}
      BY <1>10, <1>11, <3>1, BelowApart DEF L, R
    <3>4. i \notin Below(t, U, R(i))
      BY <1>10, <1>11, <3>1, BelowApart DEF R
    <3>5. QED
      BY <3>2, <3>3, <3>4
  <2>7. Below(t, U, L(i)) \in SUBSET Index /\ Below(t, U, R(i)) \in SUBSET Index
    BY DEF Below
  <2>8. QED
    BY <2>2, <2>3, <2>5, <2>6, <2>7, ListsJoined
<1>16. \A n \in Nat : n \in X
  <2> HIDE DEF X
  <2>1. QED
    BY <1>14, <1>15, NatSetInduction
<1>17. t.root \in U \cup {NIL}
  BY <1>10 DEF Joined
<1>18. t.root = NIL \/ w[t.root] <= Size
  <2> HIDE DEF w
  <2>1. QED
    BY <1>2, <1>11, <1>17
<1>19. Lists(part[Size][t.root], Below(t, U, t.root))
  <2> HIDE DEF w
  <2>1. Size \in X /\ Size <= Size
    BY <1>2, <1>16
  <2>2. QED
    BY <1>17, <1>18, <2>1
<1>20. QED
  BY <1>1, <1>19, BelowRoot

\* Rotations, transplants, the insertion of a leaf and the removal of any node keep
\* every block in use reachable, once, and every link down with its link up; no
\* reference to a block that was given back is left in root, maximum or repair.
THEOREM LinksAlwaysSound == Spec => []LinksSound
<1>1. ASSUME TreeInv PROVE LinksSound
  <2>1. used \in SUBSET Index /\ tree \in Trees /\ tree.max \in used \cup {NIL}
        /\ Joined(tree, used) /\ IsTree(tree, used) /\ RepairSound(tree, used, repair)
    BY <1>1 DEF TreeInv, IsTree
  <2>2. tree \in [root : used \cup {NIL}, max : used \cup {NIL}, node : [Index -> Nodes]]
    BY <2>1 DEF Trees, Joined
  <2>3. repair \in {Done} \cup [op : {"insert"}, at : used, parent : {NIL}]
                          \cup [op : {"remove"}, at : used \cup {NIL}, parent : used \cup {NIL}]
    BY <2>1 DEF RepairSound
  <2>4. Lists(InOrder, used)
    BY <2>1, InOrderLists DEF InOrder
  <2>5. tree.root # NIL => tree.node[tree.root].parent = NIL
    BY <2>1 DEF Joined, Up
  <2>6. ASSUME NEW i \in used, NEW side \in Sides, Child(tree, i, side) # NIL
        PROVE  Parent(tree, Child(tree, i, side)) = i
    <3>1. i \in Index /\ Child(tree, i, side) = Kid(tree, i, side)
      BY <2>1, ChildIsKid
    <3>2. Kid(tree, i, side) \in used /\ Up(tree, Kid(tree, i, side)) = i
      BY <2>1, <2>6, <3>1 DEF Joined
    <3>3. QED
      BY <2>1, <3>1, <3>2, ChildIsKid
  <2>7. QED
    BY <2>1, <2>2, <2>3, <2>4, <2>5, <2>6 DEF LinksSound, Lists, Sides
<1>2. QED
  BY <1>1, TreeInductive, PTL

=============================================================================
