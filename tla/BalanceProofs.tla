----------------------------- MODULE BalanceProofs -----------------------------
(***************************************************************************)
(* The colors of the tree: no red node has a red kid and every path down   *)
(* meets as many black nodes, but for the place under repair.  Each block  *)
(* has a level, the number of black nodes on any path below it; a step of  *)
(* a repair is right if levels can be found again for the blocks it moves  *)
(* or paints, and only there they differ.                                  *)
(***************************************************************************)
EXTENDS TreeProofs

-----------------------------------------------------------------------------
(* Colors under the writes.                                                *)

SameColors(t, u) == \A i \in Index : u.node[i].color = t.node[i].color

\* Painting a block.
LEMMA SetColorColors ==
    ASSUME NEW t \in Trees, NEW i \in Links, NEW color \in Colors
    PROVE  \A j \in Links :
            Color(SetColor(t, i, color), j) = IF j = i /\ i # NIL THEN color ELSE Color(t, j)
<1> DEFINE u == [t EXCEPT !.node[i].color = color]
<1>1. CASE i = NIL
  BY <1>1 DEF SetColor
<1>2. CASE i # NIL
  <2>1. SetColor(t, i, color) = u
    BY <1>2 DEF SetColor
  <2>2. \A j \in Index : u.node[j].color = IF j = i THEN color ELSE t.node[j].color
    BY <1>2 DEF Trees, Nodes
  <2> HIDE DEF u
  <2>3. QED
    BY <1>2, <2>1, <2>2 DEF Color, Links
<1>3. QED
  BY <1>1, <1>2

LEMMA SameColorsSame ==
    ASSUME NEW t, NEW u, SameColors(t, u)
    PROVE  \A j \in Links : Color(u, j) = Color(t, j)
BY DEF SameColors, Color, Links

LEMMA SetParentColors ==
    ASSUME NEW t \in Trees, NEW i \in Links, NEW parent
    PROVE  SameColors(t, SetParent(t, i, parent))
<1> DEFINE u == [t EXCEPT !.node[i].parent = parent]
<1>1. CASE i = NIL
  BY <1>1 DEF SetParent, SameColors
<1>2. CASE i # NIL
  <2>1. SetParent(t, i, parent) = u
    BY <1>2 DEF SetParent
  <2>2. \A j \in Index : u.node[j].color = t.node[j].color
    BY <1>2 DEF Trees, Nodes
  <2>3. QED
    BY <2>1, <2>2 DEF SameColors
<1>3. QED
  BY <1>1, <1>2

LEMMA SetKidColors ==
    ASSUME NEW t \in Trees, NEW i \in Index, NEW side \in Sides, NEW kid
    PROVE  SameColors(t, SetKid(t, i, side, kid))
<1> DEFINE n == [t.node[i] EXCEPT ![side] = kid]
           node == [t.node EXCEPT ![i] = n]
           u == [t EXCEPT !.node = node]
<1>1. n.color = t.node[i].color
  <2>1. t.node[i] \in Nodes /\ side # "color"
    BY DEF Trees, Sides
  <2>2. QED
    BY <2>1 DEF Nodes
<1>2. SetKid(t, i, side, kid) = u
  BY DEF SetKid
<1> HIDE DEF n
<1>3. \A j \in Index : node[j] = IF j = i THEN n ELSE t.node[j]
  BY DEF Trees
<1> HIDE DEF node
<1>4. u.node = node
  BY DEF Trees
<1> HIDE DEF u
<1>5. QED
  BY <1>1, <1>2, <1>3, <1>4 DEF SameColors

LEMMA RelinkColors ==
    ASSUME NEW t \in Trees, NEW parent \in Links, NEW old, NEW new
    PROVE  SameColors(t, Relink(t, parent, old, new))
<1>1. CASE parent = NIL
  BY <1>1 DEF Relink, SameColors, Trees
<1>2. CASE parent # NIL
  <2> DEFINE side == IF t.node[parent].left = old THEN "left" ELSE "right"
  <2>1. Relink(t, parent, old, new) = SetKid(t, parent, side, new)
    BY <1>2 DEF Relink, SetKid
  <2>2. side \in Sides /\ parent \in Index
    BY <1>2 DEF Sides, Links
  <2> HIDE DEF side
  <2>3. QED
    BY <2>1, <2>2, SetKidColors
<1>3. QED
  BY <1>1, <1>2

LEMMA RotateColors ==
    ASSUME NEW t \in Trees, NEW g \in Index, NEW side \in Sides, Kid(t, g, Across(side)) # NIL
    PROVE  SameColors(t, Rotate(t, g, side))
<1> DEFINE far == Across(side)
           p == Kid(t, g, far)
           y == Kid(t, p, side)
           up == Up(t, g)
           t1 == SetParent(t, p, up)
           t2 == SetKid(t1, p, side, g)
           t3 == SetParent(t2, g, p)
           t4 == SetKid(t3, g, far, y)
           t5 == SetParent(t4, y, g)
           u == Relink(t5, up, g, p)
<1>1. far \in Sides /\ p \in Index /\ p # NIL /\ g # NIL /\ p \in Links /\ g \in Links
  BY AcrossSides, LinksTyped, NilNoBlock DEF Links
<1>2. y \in Links /\ up \in Links
  BY <1>1, LinksTyped
<1>3. u = Rotate(t, g, side)
  BY <1>1 DEF Rotate, SetParent, SetKid, Kid, Up
<1> HIDE DEF far, p, y, up
<1>4. t1 \in Trees /\ SameColors(t, t1)
  BY <1>1, <1>2, SetParentLinks, SetParentColors
<1> HIDE DEF t1
<1>5. t2 \in Trees /\ SameColors(t1, t2)
  BY <1>1, <1>4, SetKidLinks, SetKidColors
<1> HIDE DEF t2
<1>6. t3 \in Trees /\ SameColors(t2, t3)
  BY <1>1, <1>5, SetParentLinks, SetParentColors
<1> HIDE DEF t3
<1>7. t4 \in Trees /\ SameColors(t3, t4)
  BY <1>1, <1>2, <1>6, SetKidLinks, SetKidColors
<1> HIDE DEF t4
<1>8. t5 \in Trees /\ SameColors(t4, t5)
  BY <1>1, <1>2, <1>7, SetParentLinks, SetParentColors
<1> HIDE DEF t5
<1>9. SameColors(t5, u)
  BY <1>2, <1>8, RelinkColors
<1>10. QED
  BY <1>3, <1>4, <1>5, <1>6, <1>7, <1>8, <1>9 DEF SameColors

LEMMA RotateDoubleColors ==
    ASSUME NEW t \in Trees, NEW g \in Index, NEW side \in Sides,
           NEW c1 \in Colors, NEW c2 \in Colors, NEW c3 \in Colors,
           Kid(t, g, side) \in Index \ {g},
           Kid(t, Kid(t, g, side), Across(side)) \in Index \ {g, Kid(t, g, side)}
    PROVE  LET p == Kid(t, g, side)
               middle == Kid(t, p, Across(side))
           IN  \A j \in Links :
                Color(RotateDouble(t, g, side, c1, c2, c3), j)
                    = IF j = middle THEN c1 ELSE IF j = p THEN c2
                      ELSE IF j = g THEN c3 ELSE Color(t, j)
<1> DEFINE far == Across(side)
           p == Kid(t, g, side)
           middle == Kid(t, p, far)
           toP == Kid(t, middle, side)
           toG == Kid(t, middle, far)
           up == Up(t, g)
           n1 == [t.node[middle] EXCEPT !.color = c1, !.parent = up, ![side] = p, ![far] = g]
           n2 == [t.node[p] EXCEPT !.color = c2, !.parent = middle, ![far] = toP]
           n3 == [t.node[g] EXCEPT !.color = c3, !.parent = middle, ![side] = toG]
           t1 == PutNode(t, middle, n1)
           t2 == PutNode(t1, p, n2)
           t3 == PutNode(t2, g, n3)
           t4 == SetParent(t3, toP, p)
           t5 == SetParent(t4, toG, g)
           u == Relink(t5, up, g, middle)
<1>1. /\ far \in Sides /\ p \in Index /\ middle \in Index /\ p # g /\ middle # g /\ middle # p
      /\ p \in Links /\ g \in Links /\ middle \in Links
  BY AcrossSides DEF Links
<1>2. toP \in Links /\ toG \in Links /\ up \in Links
  BY <1>1, LinksTyped
<1> HIDE DEF far, p, middle, toP, toG, up
<1>3. t.node[middle] \in Nodes /\ t.node[p] \in Nodes /\ t.node[g] \in Nodes
  BY <1>1 DEF Trees
<1>4. /\ n1 \in Nodes /\ n1.color = c1
      /\ n2 \in Nodes /\ n2.color = c2
      /\ n3 \in Nodes /\ n3.color = c3
  <2>1. n1 \in Nodes /\ n1.color = c1
    BY <1>1, <1>2, <1>3 DEF Nodes, Sides
  <2>2. n2 \in Nodes /\ n2.color = c2
    BY <1>1, <1>2, <1>3 DEF Nodes, Sides
  <2>3. n3 \in Nodes /\ n3.color = c3
    BY <1>1, <1>2, <1>3 DEF Nodes, Sides
  <2>4. QED
    BY <2>1, <2>2, <2>3
<1>5. u = RotateDouble(t, g, side, c1, c2, c3)
  <2> DEFINE turned == [t EXCEPT !.node[middle] = n1, !.node[p] = n2, !.node[g] = n3]
  <2>1. RotateDouble(t, g, side, c1, c2, c3)
            = Relink(SetParent(SetParent(turned, toP, p), toG, g), up, g, middle)
    BY DEF RotateDouble, far, p, middle, toP, toG, up, Kid, Up
  <2> HIDE DEF n1, n2, n3
  <2>2. turned = t3
    BY DEF PutNode
  <2> HIDE DEF turned, t3
  <2>3. QED
    BY <2>1, <2>2
<1> HIDE DEF n1, n2, n3
<1>6. t1 \in Trees /\ \A j \in Index : t1.node[j] = IF j = middle THEN n1 ELSE t.node[j]
  BY <1>1, <1>4, PutNodeLinks
<1> HIDE DEF t1
<1>7. t2 \in Trees /\ \A j \in Index : t2.node[j] = IF j = p THEN n2 ELSE t1.node[j]
  BY <1>1, <1>4, <1>6, PutNodeLinks
<1> HIDE DEF t2
<1>8. t3 \in Trees /\ \A j \in Index : t3.node[j] = IF j = g THEN n3 ELSE t2.node[j]
  BY <1>1, <1>4, <1>7, PutNodeLinks
<1> HIDE DEF t3
<1>9. \A j \in Index : t3.node[j].color = IF j = middle THEN c1 ELSE IF j = p THEN c2
                                         ELSE IF j = g THEN c3 ELSE t.node[j].color
  BY <1>1, <1>4, <1>6, <1>7, <1>8
<1>10. t4 \in Trees /\ SameColors(t3, t4)
  BY <1>1, <1>2, <1>8, SetParentLinks, SetParentColors
<1> HIDE DEF t4
<1>11. t5 \in Trees /\ SameColors(t4, t5)
  BY <1>1, <1>2, <1>10, SetParentLinks, SetParentColors
<1> HIDE DEF t5
<1>12. SameColors(t5, u)
  BY <1>2, <1>11, RelinkColors
<1>13. \A j \in Index : u.node[j].color = IF j = middle THEN c1 ELSE IF j = p THEN c2
                                         ELSE IF j = g THEN c3 ELSE t.node[j].color
  BY <1>9, <1>10, <1>11, <1>12 DEF SameColors
<1> HIDE DEF u
<1>14. NIL \notin {middle, p, g}
  BY <1>1, NilNoBlock
<1>15. QED
  BY <1>5, <1>13, <1>14 DEF Color, Links, far, p, middle

LEMMA SplicedColors ==
    ASSUME NEW t \in Trees, NEW a \in Index
    PROVE  SameColors(t, Spliced(t, a).tree)
<1> DEFINE kid == IF Kid(t, a, "left") # NIL THEN Kid(t, a, "left") ELSE Kid(t, a, "right")
           up == Up(t, a)
           v == SetParent(t, kid, up)
           u == Relink(v, up, a, kid)
<1>1. kid \in Links /\ up \in Links
  BY LinksTyped DEF Sides
<1>2. Spliced(t, a).tree = u
  BY DEF Spliced, Kid, Up
<1> HIDE DEF kid, up
<1>3. v \in Trees /\ SameColors(t, v)
  BY <1>1, SetParentLinks, SetParentColors
<1> HIDE DEF v
<1>4. SameColors(v, u)
  BY <1>1, <1>3, RelinkColors
<1>5. QED
  BY <1>2, <1>3, <1>4 DEF SameColors

LEMMA TransplantedColors ==
    ASSUME NEW t \in Trees, NEW a \in Index, NEW next, SucceedsNode(t, a, next)
    PROVE  LET cut == Transplanted(t, a)
           IN  /\ cut.color = t.node[next].color
               /\ \A j \in Index :
                    cut.tree.node[j].color = t.node[IF j = next THEN a ELSE j].color
<1> DEFINE left == Kid(t, a, "left")
           right == Kid(t, a, "right")
           up == Up(t, a)
           kid == Kid(t, next, "right")
           near == Up(t, next) = a
           above == IF near THEN next ELSE Up(t, next)
           cut == IF near THEN t ELSE SetParent(SetKid(t, above, "left", kid), right, next)
           m1 == SetParent(cut, kid, above)
           m2 == SetParent(m1, left, next)
           third == IF near THEN kid ELSE right
           color == t.node[a].color
           n == WithFields(m2.node[next], up, left, third, color)
           m3 == PutNode(m2, next, n)
           u == Relink(m3, up, a, next)
<1>1. /\ left \in Links /\ right \in Links /\ up \in Links /\ kid \in Links /\ above \in Index
      /\ next \in Index /\ next \in Links /\ above \in Links
      /\ "left" \in Sides /\ color \in Colors
  BY LinksTyped DEF SucceedsNode, Links, Sides, Trees, Nodes
<1>2. third \in Links
  BY <1>1
<1>3. /\ Transplanted(t, a).tree = Relink(SetFields(m2, next, up, left, third, color), up, a, next)
      /\ Transplanted(t, a).color = t.node[next].color
  <2>1. RepairParent(t, a, next) = above
    BY DEF RepairParent, Up
  <2> HIDE DEF above
  <2>2. next = Outermost(t, t.node[a].right, "left")
    BY DEF SucceedsNode
  <2>3. QED
    BY <2>1, <2>2 DEF Transplanted, SetKid, SetFields, Kid, Up
<1> HIDE DEF left, right, up, kid, near, above, color
<1>4. cut \in Trees /\ SameColors(t, cut)
  <2>1. CASE near
    BY <2>1 DEF SameColors
  <2>2. CASE ~ near
    <3> DEFINE c == SetKid(t, above, "left", kid)
    <3>1. c \in Trees /\ SameColors(t, c)
      BY <1>1, SetKidLinks, SetKidColors
    <3>2. cut = SetParent(c, right, next)
      BY <2>2
    <3> HIDE DEF c, cut
    <3>3. cut \in Trees /\ SameColors(c, cut)
      BY <1>1, <3>1, <3>2, SetParentLinks, SetParentColors
    <3>4. QED
      BY <3>1, <3>3 DEF SameColors
  <2>3. QED
    BY <2>1, <2>2
<1> HIDE DEF cut
<1>5. m1 \in Trees /\ SameColors(cut, m1)
  BY <1>1, <1>4, SetParentLinks, SetParentColors
<1> HIDE DEF m1
<1>6. m2 \in Trees /\ SameColors(m1, m2)
  BY <1>1, <1>5, SetParentLinks, SetParentColors
<1> HIDE DEF m2, third
<1>7. n \in Nodes /\ SetFields(m2, next, up, left, third, color) = m3
  BY <1>1, <1>2, <1>6, PutFields
<1>8. n.color = color
  <2>1. m2.node[next] \in Nodes
    BY <1>1, <1>6 DEF Trees
  <2>2. QED
    BY <1>1, <1>2, <2>1 DEF WithFields, Nodes
<1>9. Transplanted(t, a).tree = u
  BY <1>3, <1>7
<1> HIDE DEF n
<1>10. m3 \in Trees /\ \A j \in Index : m3.node[j] = IF j = next THEN n ELSE m2.node[j]
  BY <1>1, <1>6, <1>7, PutNodeLinks
<1> HIDE DEF m3
<1>11. SameColors(m3, u)
  BY <1>1, <1>10, RelinkColors
<1>12. \A j \in Index : u.node[j].color = IF j = next THEN color ELSE t.node[j].color
  BY <1>4, <1>5, <1>6, <1>8, <1>10, <1>11 DEF SameColors
<1>13. QED
  BY <1>3, <1>9, <1>12 DEF color

\* No color differs, or only the successor of a removed node takes its color.
LEMMA CutColors ==
    ASSUME NEW t \in Trees, NEW U \in SUBSET Index, IsTree(t, U), NEW a \in U
    PROVE  LET cut == Cut(t, a)
               next == Outermost(t, t.node[a].right, "left")
           IN  /\ ~ IsInternal(t, a) =>
                    SameColors(t, cut.tree) /\ cut.color = t.node[a].color
               /\ IsInternal(t, a) =>
                    /\ cut.color = t.node[next].color
                    /\ \A j \in Index :
                        cut.tree.node[j].color = t.node[IF j = next THEN a ELSE j].color
<1> DEFINE next == Outermost(t, t.node[a].right, "left")
           p == Up(t, next)
           up == Up(t, a)
<1>1. CASE ~ IsInternal(t, a)
  <2>1. Cut(t, a) = Spliced(t, a) /\ a \in Index
    BY <1>1 DEF Cut
  <2>2. Spliced(t, a).color = t.node[a].color
    BY DEF Spliced
  <2>3. QED
    BY <1>1, <2>1, <2>2, SplicedColors
<1>2. CASE IsInternal(t, a)
  <2>1. Cut(t, a) = Transplanted(t, a)
    BY <1>2 DEF Cut
  <2>2. SucceedsNode(t, a, next)
    BY <1>2, SuccessorSucceeds
  <2> HIDE DEF next
  <2>3. QED
    BY <1>2, <2>1, <2>2, TransplantedColors DEF next
<1>3. QED
  BY <1>1, <1>2

-----------------------------------------------------------------------------
(* Levels.                                                                 *)

\* What a block adds to the black nodes on a path.
Dark(t, i) == IF Color(t, i) = "black" THEN 1 ELSE 0

\* What the place of parent q on the side s is short of.
Owed(q, s, i, side) == IF i = q /\ side = s THEN 1 ELSE 0

\* b counts the black nodes on a path down from each block, and on each the same.
Levelled(t, U, b, q, s) ==
    /\ b \in [U \cup {NIL} -> Nat] /\ b[NIL] = 0
    /\ \A i \in U, side \in Sides :
        b[i] = b[Kid(t, i, side)] + Owed(q, s, i, side) + Dark(t, i)

\* A red kid of a red node, or a red root, is x.
Calm(t, U, x) ==
    /\ Color(t, t.root) = "red" => t.root = x
    /\ \A i \in U, side \in Sides :
        Color(t, i) = "red" /\ Color(t, Kid(t, i, side)) = "red" => Kid(t, i, side) = x

LEMMA DarkTyped ==
    ASSUME NEW t, NEW i
    PROVE  Dark(t, i) \in {0, 1} /\ (Dark(t, i) = 1 <=> Color(t, i) = "black")
BY DEF Dark

LEMMA OwedNothing ==
    ASSUME NEW s, NEW i, NEW side, i # NIL
    PROVE  Owed(NIL, s, i, side) = 0
BY DEF Owed

-----------------------------------------------------------------------------
(* Levels under rotations.                                                 *)

\* A rotation changes the kids of the two blocks that change places and of the parent
\* above them.
LEMMA RotatedKids ==
    ASSUME NEW t \in Trees, NEW U \in SUBSET Index, IsTree(t, U), NEW g \in U, NEW side \in Sides,
           Kid(t, g, Across(side)) # NIL, NEW u, Rotated(t, u, g, side)
    PROVE  LET far == Across(side)
               p == Kid(t, g, far)
           IN  /\ p \in U \ {g}
               /\ Kid(u, p, side) = g /\ Kid(u, p, far) = Kid(t, p, far)
               /\ Kid(u, g, side) = Kid(t, g, side) /\ Kid(u, g, far) = Kid(t, p, side)
               /\ \A i \in {Kid(t, p, far), Kid(t, g, side), Kid(t, p, side)} :
                    i \in (U \cup {NIL}) \ {g, p}
               /\ Kid(t, p, far) # NIL =>
                    Kid(t, p, far) \notin {Kid(t, g, side), Kid(t, p, side)}
               /\ \A i \in U \ {g, p}, s \in Sides :
                    \/ Kid(t, i, s) = g /\ Kid(u, i, s) = p
                    \/ /\ Kid(u, i, s) = Kid(t, i, s)
                       /\ Kid(t, i, s) = NIL \/ Kid(t, i, s) \notin {g, p, Kid(t, p, far)}
               /\ \/ t.root = g /\ u.root = p
                  \/ t.root \notin {g, p} /\ u.root = t.root
<1> DEFINE far == Across(side)
           p == Kid(t, g, far)
           y == Kid(t, p, side)
           o == Kid(t, p, far)
           x == Kid(t, g, side)
           up == Up(t, g)
<1>1. PICK h : Graded(t, U, h)
  BY DEF IsTree
<1>2. Joined(t, U) /\ far \in Sides /\ far # side /\ NIL \notin U /\ g \in Index
  BY AcrossSides, NilNoBlock DEF IsTree
<1>3. \A i \in U : h[i] \in Nat
  BY <1>1 DEF Graded
<1>4. /\ p \in U /\ p # g /\ h[p] < h[g] /\ p # up /\ up # g /\ x # p /\ Up(t, p) = g
      /\ x # g /\ (x # NIL => Up(t, x) = g) /\ x \in U \cup {NIL} /\ p # t.root
  BY <1>1, <1>2, Apart DEF Joined
<1> HIDE DEF far, p
<1>5. \A i \in {y, o} : /\ i \in U \cup {NIL} /\ i # p
                        /\ i # NIL => i \in U /\ h[i] < h[p] /\ Up(t, i) = p
  BY <1>1, <1>2, <1>4, Apart DEF Joined
<1>6. \A i \in {y, o} : i # g /\ (i # NIL => i # x)
  BY <1>2, <1>3, <1>4, <1>5
<1>7. o # NIL => o # y
  BY <1>1, <1>2, <1>4, Apart, AcrossSides DEF far, Joined
<1>8. /\ Kid(u, p, side) = g /\ Kid(u, p, far) = o /\ Kid(u, g, side) = x /\ Kid(u, g, far) = y
      /\ u.root = IF up = NIL THEN p ELSE t.root
      /\ \A i \in U \ {g, p}, s \in Sides :
            Kid(u, i, s) = IF i = up /\ s = Place(t, up, g) THEN p ELSE Kid(t, i, s)
  BY <1>2, <1>4 DEF Rotated, far, p
<1>9. ASSUME NEW i \in U \ {g, p}, NEW s \in Sides
      PROVE  \/ Kid(t, i, s) = g /\ Kid(u, i, s) = p
             \/ /\ Kid(u, i, s) = Kid(t, i, s)
                /\ Kid(t, i, s) = NIL \/ Kid(t, i, s) \notin {g, p, o}
  <2>1. Kid(t, i, s) # NIL => Up(t, Kid(t, i, s)) = i
    BY <1>2 DEF Joined
  <2>2. CASE Kid(t, i, s) = g
    <3>1. i = up /\ g # t.root
      BY <1>2, <2>1, <2>2 DEF Joined
    <3>2. s = Place(t, up, g)
      BY <1>2, <2>2, <3>1, JoinedSides
    <3>3. QED
      BY <1>8, <2>2, <3>1, <3>2
  <2>3. CASE Kid(t, i, s) # g
    <3>1. ~ (i = up /\ s = Place(t, up, g))
      <4>1. i = up => g # t.root
        BY <1>2 DEF Joined
      <4>2. QED
        BY <1>2, <2>3, <4>1, JoinedSides
    <3>2. Kid(u, i, s) = Kid(t, i, s)
      BY <1>8, <3>1
    <3>3. Kid(t, i, s) = NIL \/ Kid(t, i, s) \notin {g, p, o}
      BY <1>4, <1>5, <2>1, <2>3
    <3>4. QED
      BY <3>2, <3>3
  <2>4. QED
    BY <2>2, <2>3
<1>10. \/ t.root = g /\ u.root = p
       \/ t.root \notin {g, p} /\ u.root = t.root
  BY <1>2, <1>4, <1>8 DEF Joined
<1>11. QED
  BY <1>4, <1>5, <1>6, <1>7, <1>8, <1>9, <1>10 DEF far, p

\* A rotation leaves all paths equal if the two blocks change colors, and if the black of
\* the one that rises, where it has one, goes to the outer kid and pays what was owed.
LEMMA RotatedLevels ==
    ASSUME NEW t \in Trees, NEW U \in SUBSET Index, IsTree(t, U), NEW g \in U, NEW side \in Sides,
           Kid(t, g, Across(side)) # NIL, NEW u, Rotated(t, u, g, side),
           NEW b, NEW q \in {NIL, g}, Levelled(t, U, b, q, side), NEW r \in {NIL, g},
           Dark(u, g) = Dark(t, Kid(t, g, Across(side))),
           Dark(u, Kid(t, g, Across(side))) = Dark(t, g),
           LET p == Kid(t, g, Across(side))
               o == Kid(t, p, Across(side))
           IN  /\ Dark(u, o) = Dark(t, o) + Dark(t, p)
               /\ \A i \in U \ {g, p, o} : Dark(u, i) = Dark(t, i),
           Owed(q, side, g, side)
                = Owed(r, side, g, side) + Dark(t, Kid(t, g, Across(side)))
    PROVE  \E c : Levelled(u, U, c, r, side)
<1> DEFINE far == Across(side)
           p == Kid(t, g, far)
           y == Kid(t, p, side)
           o == Kid(t, p, far)
           x == Kid(t, g, side)
           M == {g, p, o}
           c == [i \in U \cup {NIL} |-> IF i = g THEN b[p] ELSE IF i = p THEN b[g]
                                        ELSE IF i = o THEN b[o] + Dark(t, p) ELSE b[i]]
<1>1. far \in Sides /\ far # side /\ Sides = {side, far} /\ NIL \notin U
  BY AcrossSides, NilNoBlock
<1>2. /\ p \in U \ {g} /\ Kid(u, p, side) = g /\ Kid(u, p, far) = o
      /\ Kid(u, g, side) = x /\ Kid(u, g, far) = y
      /\ \A i \in {o, x, y} : i \in (U \cup {NIL}) \ {g, p}
      /\ o # NIL => o \notin {x, y}
      /\ \A i \in U \ {g, p}, s \in Sides :
            \/ Kid(t, i, s) = g /\ Kid(u, i, s) = p
            \/ /\ Kid(u, i, s) = Kid(t, i, s)
               /\ Kid(t, i, s) = NIL \/ Kid(t, i, s) \notin {g, p, o}
  BY RotatedKids
<1>3. /\ Dark(u, g) = Dark(t, p) /\ Dark(u, p) = Dark(t, g) /\ Dark(u, o) = Dark(t, o) + Dark(t, p)
      /\ \A i \in U \ M : Dark(u, i) = Dark(t, i)
      /\ Owed(q, side, g, side) = Owed(r, side, g, side) + Dark(t, p)
  OBVIOUS
<1>4. \A i \in U, s \in Sides : /\ i # g \/ s # side => Owed(q, side, i, s) = 0 /\ Owed(r, side, i, s) = 0
                                /\ Owed(q, side, i, s) \in {0, 1} /\ Owed(r, side, i, s) \in {0, 1}
  BY <1>1 DEF Owed
<1>5. \A i : Dark(t, i) \in {0, 1} /\ Dark(u, i) \in {0, 1}
  BY DarkTyped
<1>6. b \in [U \cup {NIL} -> Nat] /\ b[NIL] = 0
  BY DEF Levelled
<1>7. \A i \in U, s \in Sides : b[i] = b[Kid(t, i, s)] + Owed(q, side, i, s) + Dark(t, i)
  BY DEF Levelled
<1> HIDE DEF far, p
<1>8. o = NIL => Dark(t, p) = 0
  BY <1>3, <1>5 DEF Dark, Color
<1> HIDE DEF o
<1>9. c \in [U \cup {NIL} -> Nat] /\ c[NIL] = 0
  <2>1. ASSUME NEW i \in U \cup {NIL} PROVE c[i] \in Nat
    BY <1>2, <1>5, <1>6
  <2>2. c[NIL] = 0
    BY <1>1, <1>2, <1>6, <1>8
  <2>3. QED
    BY <2>1, <2>2
<1>10. /\ c[g] = b[p] /\ c[p] = b[g] /\ c[o] = b[o] + Dark(t, p)
       /\ \A i \in (U \cup {NIL}) \ M : c[i] = b[i]
  BY <1>2
<1>11. c[x] = b[x] /\ c[y] = b[y]
  BY <1>2, <1>6, <1>9, <1>10
<1> HIDE DEF c
<1>12. /\ b[g] = b[x] + Owed(q, side, g, side) + Dark(t, g)
       /\ b[g] = b[p] + Dark(t, g)
       /\ b[p] = b[y] + Dark(t, p) /\ b[p] = b[o] + Dark(t, p)
  <2>1. /\ b[g] = b[p] + Owed(q, side, g, far) + Dark(t, g)
        /\ b[p] = b[y] + Owed(q, side, p, side) + Dark(t, p)
        /\ b[p] = b[o] + Owed(q, side, p, far) + Dark(t, p)
    BY <1>1, <1>2, <1>7 DEF p, o
  <2>2. \A i \in {p, y, o} : i \in U \cup {NIL}
    BY <1>2
  <2>3. QED
    BY <1>1, <1>2, <1>4, <1>5, <1>6, <1>7, <2>1, <2>2
<1>13. \A i \in {g, p, o, x, y} : b[i] \in Nat
  BY <1>2, <1>6
<1>14. ASSUME NEW i \in U \cap M, NEW s \in Sides
       PROVE  c[i] = c[Kid(u, i, s)] + Owed(r, side, i, s) + Dark(u, i)
  <2>1. CASE i = g
    <3>1. CASE s = side
      BY <1>2, <1>3, <1>4, <1>5, <1>10, <1>11, <1>12, <1>13, <2>1, <3>1
    <3>2. CASE s = far
      BY <1>1, <1>2, <1>3, <1>4, <1>5, <1>10, <1>11, <1>12, <1>13, <2>1, <3>2
    <3>3. QED
      BY <1>1, <3>1, <3>2
  <2>2. CASE i = p
    <3>1. Owed(r, side, i, s) = 0
      BY <1>2, <1>4, <2>2
    <3>2. CASE s = side
      BY <1>2, <1>3, <1>5, <1>10, <1>12, <1>13, <2>2, <3>1, <3>2
    <3>3. CASE s = far
      BY <1>2, <1>3, <1>5, <1>10, <1>12, <1>13, <2>2, <3>1, <3>3
    <3>4. QED
      BY <1>1, <3>2, <3>3
  <2>3. CASE i = o
    <3>1. Owed(r, side, i, s) = 0 /\ Owed(q, side, i, s) = 0
      BY <1>2, <1>4, <2>3
    <3>2. b[i] = b[Kid(t, i, s)] + Dark(t, i)
      <4>1. Kid(t, i, s) \in U \cup {NIL}
        BY DEF IsTree, Joined
      <4>2. QED
        BY <1>5, <1>6, <1>7, <3>1, <4>1
    <3>3. Kid(u, i, s) = Kid(t, i, s) /\ c[Kid(t, i, s)] = b[Kid(t, i, s)]
      <4>1. i \in U \ {g, p}
        BY <1>2, <2>3
      <4>2. Kid(t, i, s) # g
        <5>1. PICK h : Graded(t, U, h)
          BY DEF IsTree
        <5>2. Joined(t, U)
          BY DEF IsTree
        <5>3. Up(t, i) = p /\ Up(t, p) = g /\ (Kid(t, i, s) = g => Up(t, g) = i)
          BY <1>1, <1>2, <1>5, <2>3, <5>2, NilNoBlock DEF Joined, p, o
        <5>4. h[p] < h[g] /\ h[i] < h[p] /\ (Kid(t, i, s) # NIL => h[Kid(t, i, s)] < h[i])
          <6>1. i # NIL /\ p # NIL
            BY <1>1, <1>2
          <6>2. QED
            BY <1>1, <1>2, <2>3, <5>1, <5>2, <6>1, Apart DEF p, o
        <5>5. h[p] \in Nat /\ h[g] \in Nat /\ h[i] \in Nat
          BY <1>2, <5>1 DEF Graded
        <5>6. QED
          BY <1>1, <5>4, <5>5
      <4>3. /\ Kid(u, i, s) = Kid(t, i, s)
            /\ Kid(t, i, s) = NIL \/ Kid(t, i, s) \notin M
        BY <1>2, <4>1, <4>2
      <4>4. Kid(t, i, s) \in U \cup {NIL}
        BY DEF IsTree, Joined
      <4>5. QED
        BY <1>6, <1>9, <1>10, <4>3, <4>4
    <3>4. b[Kid(t, i, s)] \in Nat
      <4>1. Kid(t, i, s) \in U \cup {NIL}
        BY DEF IsTree, Joined
      <4>2. QED
        BY <1>6, <4>1
    <3>5. QED
      BY <1>3, <1>5, <1>10, <2>3, <3>1, <3>2, <3>3, <3>4
  <2>4. QED
    BY <2>1, <2>2, <2>3
<1>15. ASSUME NEW i \in U \ M, NEW s \in Sides
       PROVE  c[Kid(u, i, s)] + Owed(r, side, i, s) = b[Kid(t, i, s)] + Owed(q, side, i, s)
  <2>1. Owed(r, side, i, s) = 0 /\ Owed(q, side, i, s) = 0
    BY <1>4
  <2>2. c[Kid(u, i, s)] = b[Kid(t, i, s)]
    <3>1. Kid(t, i, s) \in U \cup {NIL}
      BY DEF IsTree, Joined
    <3>2. \/ Kid(t, i, s) = g /\ Kid(u, i, s) = p
          \/ /\ Kid(u, i, s) = Kid(t, i, s)
             /\ Kid(t, i, s) = NIL \/ Kid(t, i, s) \notin M
      BY <1>2
    <3>3. QED
      BY <1>6, <1>9, <1>10, <3>1, <3>2
  <2>3. QED
    BY <2>1, <2>2
<1>16. \A i \in U \ M : c[i] = b[i] /\ Dark(u, i) = Dark(t, i)
  BY <1>3, <1>10
<1> HIDE DEF M
<1>17. Levelled(u, U, c, r, side)
  <2>1. ASSUME NEW i \in U \ M, NEW s \in Sides
        PROVE  c[i] = c[Kid(u, i, s)] + Owed(r, side, i, s) + Dark(u, i)
    BY <1>7, <1>15, <1>16
  <2>2. \A i \in U, s \in Sides : c[i] = c[Kid(u, i, s)] + Owed(r, side, i, s) + Dark(u, i)
    BY <1>14, <2>1
  <2>3. QED
    BY <1>9, <2>2 DEF Levelled
<1>18. QED
  BY <1>17

\* The same of a double rotation.
LEMMA DoubledKids ==
    ASSUME NEW t \in Trees, NEW U \in SUBSET Index, IsTree(t, U), NEW g \in U, NEW side \in Sides,
           Kid(t, g, side) # NIL, Kid(t, Kid(t, g, side), Across(side)) # NIL,
           NEW u, Doubled(t, u, g, side)
    PROVE  LET far == Across(side)
               p == Kid(t, g, side)
               m == Kid(t, p, far)
           IN  /\ p \in U \ {g} /\ m \in U \ {g, p}
               /\ Kid(u, m, side) = p /\ Kid(u, m, far) = g
               /\ Kid(u, p, side) = Kid(t, p, side) /\ Kid(u, p, far) = Kid(t, m, side)
               /\ Kid(u, g, side) = Kid(t, m, far) /\ Kid(u, g, far) = Kid(t, g, far)
               /\ \A i \in {Kid(t, p, side), Kid(t, m, side), Kid(t, m, far), Kid(t, g, far)} :
                    i \in (U \cup {NIL}) \ {g, p, m}
               /\ \A i \in U \ {g, p, m}, s \in Sides :
                    \/ Kid(t, i, s) = g /\ Kid(u, i, s) = m
                    \/ Kid(u, i, s) = Kid(t, i, s) /\ Kid(t, i, s) \notin {g, p, m}
               /\ \/ t.root = g /\ u.root = m
                  \/ t.root \notin {g, p, m} /\ u.root = t.root
<1> DEFINE far == Across(side)
           p == Kid(t, g, side)
           m == Kid(t, p, far)
           z == Kid(t, p, side)
           a == Kid(t, m, side)
           d == Kid(t, m, far)
           x == Kid(t, g, far)
           up == Up(t, g)
<1>1. PICK h : Graded(t, U, h)
  BY DEF IsTree
<1>2. Joined(t, U) /\ far \in Sides /\ far # side /\ NIL \notin U /\ g \in Index /\ Across(far) = side
  BY AcrossSides, NilNoBlock DEF IsTree
<1>3. \A i \in U : h[i] \in Nat
  BY <1>1 DEF Graded
<1>4. /\ p \in U /\ p # g /\ h[p] < h[g] /\ p # up /\ up # g /\ x # p /\ Up(t, p) = g
      /\ x # g /\ (x # NIL => Up(t, x) = g) /\ x \in U \cup {NIL} /\ p # t.root
  BY <1>1, <1>2, Apart DEF Joined
<1> HIDE DEF far, p
<1>5. /\ m \in U /\ m # p /\ h[m] < h[p] /\ Up(t, m) = p /\ m # t.root
      /\ z \in U \cup {NIL} /\ z # p /\ z # m
      /\ z # NIL => z \in U /\ h[z] < h[p] /\ Up(t, z) = p
  <2>1. m # NIL
    BY DEF p, far
  <2>2. QED
    BY <1>1, <1>2, <1>4, <2>1, Apart DEF Joined
<1> HIDE DEF m
<1>6. \A i \in {a, d} : /\ i \in U \cup {NIL} /\ i # m
                        /\ i # NIL => i \in U /\ h[i] < h[m] /\ Up(t, i) = m
  BY <1>1, <1>2, <1>5, Apart DEF Joined
<1>7. /\ m # g /\ z # g /\ x # m
      /\ \A i \in {a, d} : i # g /\ i # p
  BY <1>2, <1>3, <1>4, <1>5, <1>6
<1>8. up # m
  <2>1. g # t.root => up \in U /\ h[g] < h[up]
    BY <1>1, <1>2 DEF Joined, Graded
  <2>2. g = t.root => up = NIL
    BY <1>2 DEF Joined
  <2>3. QED
    BY <1>2, <1>3, <1>4, <1>5, <2>1, <2>2
<1>9. /\ Kid(u, m, side) = p /\ Kid(u, m, far) = g /\ Kid(u, p, side) = z /\ Kid(u, p, far) = a
      /\ Kid(u, g, side) = d /\ Kid(u, g, far) = x
      /\ u.root = IF up = NIL THEN m ELSE t.root
      /\ \A i \in U \ {g, p, m}, s \in Sides :
            Kid(u, i, s) = IF i = up /\ s = Place(t, up, g) THEN m ELSE Kid(t, i, s)
  BY <1>2, <1>4, <1>5, <1>7, <1>8 DEF Doubled, far, p, m
<1>10. ASSUME NEW i \in U \ {g, p, m}, NEW s \in Sides
       PROVE  \/ Kid(t, i, s) = g /\ Kid(u, i, s) = m
              \/ Kid(u, i, s) = Kid(t, i, s) /\ Kid(t, i, s) \notin {g, p, m}
  <2>1. Kid(t, i, s) # NIL => Up(t, Kid(t, i, s)) = i
    BY <1>2 DEF Joined
  <2>2. CASE Kid(t, i, s) = g
    <3>1. i = up /\ g # t.root
      BY <1>2, <2>1, <2>2 DEF Joined
    <3>2. s = Place(t, up, g)
      BY <1>2, <2>2, <3>1, JoinedSides
    <3>3. QED
      BY <1>9, <2>2, <3>1, <3>2
  <2>3. CASE Kid(t, i, s) # g
    <3>1. ~ (i = up /\ s = Place(t, up, g))
      <4>1. i = up => g # t.root
        BY <1>2 DEF Joined
      <4>2. QED
        BY <1>2, <2>3, <4>1, JoinedSides
    <3>2. Kid(u, i, s) = Kid(t, i, s)
      BY <1>9, <3>1
    <3>3. Kid(t, i, s) \notin {g, p, m}
      BY <1>2, <1>4, <1>5, <2>1, <2>3
    <3>4. QED
      BY <3>2, <3>3
  <2>4. QED
    BY <2>2, <2>3
<1>11. \/ t.root = g /\ u.root = m
       \/ t.root \notin {g, p, m} /\ u.root = t.root
  BY <1>2, <1>4, <1>5, <1>9 DEF Joined
<1>12. QED
  BY <1>2, <1>4, <1>5, <1>6, <1>7, <1>9, <1>10, <1>11 DEF far, p, m

\* A double rotation of a red block leaves all paths equal if it takes the color of g, and
\* g that of its kid on the side, whose black pays what was owed across.
LEMMA DoubledLevels ==
    ASSUME NEW t \in Trees, NEW U \in SUBSET Index, IsTree(t, U), NEW g \in U, NEW side \in Sides,
           Kid(t, g, side) # NIL, Kid(t, Kid(t, g, side), Across(side)) # NIL,
           NEW u, Doubled(t, u, g, side),
           NEW b, NEW q \in {NIL, g}, Levelled(t, U, b, q, Across(side)), NEW r \in {NIL, g},
           LET p == Kid(t, g, side)
               m == Kid(t, p, Across(side))
           IN  /\ Dark(t, m) = 0 /\ Dark(u, m) = Dark(t, g)
               /\ Dark(u, g) = Dark(t, p) /\ Dark(u, p) = Dark(t, p)
               /\ \A i \in U \ {g, p, m} : Dark(u, i) = Dark(t, i)
               /\ Owed(q, Across(side), g, Across(side))
                    = Owed(r, Across(side), g, Across(side)) + Dark(t, p)
    PROVE  \E c : Levelled(u, U, c, r, Across(side))
<1> DEFINE far == Across(side)
           p == Kid(t, g, side)
           m == Kid(t, p, far)
           z == Kid(t, p, side)
           a == Kid(t, m, side)
           d == Kid(t, m, far)
           x == Kid(t, g, far)
           M == {g, p, m}
           c == [i \in U \cup {NIL} |-> IF i = g THEN b[p] ELSE IF i = m THEN b[g] ELSE b[i]]
<1>1. far \in Sides /\ far # side /\ Sides = {side, far} /\ NIL \notin U
  BY AcrossSides, NilNoBlock
<1>2. /\ p \in U \ {g} /\ m \in U \ {g, p}
      /\ Kid(u, m, side) = p /\ Kid(u, m, far) = g /\ Kid(u, p, side) = z /\ Kid(u, p, far) = a
      /\ Kid(u, g, side) = d /\ Kid(u, g, far) = x
      /\ \A i \in {z, a, d, x} : i \in (U \cup {NIL}) \ {g, p, m}
      /\ \A i \in U \ {g, p, m}, s \in Sides :
            \/ Kid(t, i, s) = g /\ Kid(u, i, s) = m
            \/ Kid(u, i, s) = Kid(t, i, s) /\ Kid(t, i, s) \notin {g, p, m}
  BY DoubledKids
<1>3. /\ Dark(t, m) = 0 /\ Dark(u, m) = Dark(t, g) /\ Dark(u, g) = Dark(t, p) /\ Dark(u, p) = Dark(t, p)
      /\ \A i \in U \ M : Dark(u, i) = Dark(t, i)
      /\ Owed(q, far, g, far) = Owed(r, far, g, far) + Dark(t, p)
  OBVIOUS
<1>4. \A i \in U, s \in Sides : /\ i # g \/ s # far => Owed(q, far, i, s) = 0 /\ Owed(r, far, i, s) = 0
                                /\ Owed(q, far, i, s) \in {0, 1} /\ Owed(r, far, i, s) \in {0, 1}
  BY <1>1 DEF Owed
<1>5. \A i : Dark(t, i) \in {0, 1} /\ Dark(u, i) \in {0, 1}
  BY DarkTyped
<1>6. b \in [U \cup {NIL} -> Nat] /\ b[NIL] = 0
  BY DEF Levelled
<1>7. \A i \in U, s \in Sides : b[i] = b[Kid(t, i, s)] + Owed(q, far, i, s) + Dark(t, i)
  BY DEF Levelled
<1> HIDE DEF far, p, m
<1>8. c \in [U \cup {NIL} -> Nat] /\ c[NIL] = 0
  BY <1>1, <1>2, <1>6
<1>9. c[g] = b[p] /\ c[m] = b[g] /\ \A i \in (U \cup {NIL}) \ {g, m} : c[i] = b[i]
  BY <1>2
<1>10. c[z] = b[z] /\ c[a] = b[a] /\ c[d] = b[d] /\ c[x] = b[x] /\ c[p] = b[p]
  BY <1>2, <1>9
<1> HIDE DEF c
<1>11. \A i \in {g, p, m, z, a, d, x} : b[i] \in Nat
  BY <1>2, <1>6
<1>12. /\ b[g] = b[x] + Owed(q, far, g, far) + Dark(t, g)
       /\ b[g] = b[p] + Dark(t, g)
       /\ b[p] = b[z] + Dark(t, p) /\ b[p] = b[m] + Dark(t, p)
       /\ b[m] = b[a] /\ b[m] = b[d]
  <2>1. /\ b[g] = b[p] + Owed(q, far, g, side) + Dark(t, g)
        /\ b[p] = b[z] + Owed(q, far, p, side) + Dark(t, p)
        /\ b[p] = b[m] + Owed(q, far, p, far) + Dark(t, p)
        /\ b[m] = b[a] + Owed(q, far, m, side) + Dark(t, m)
        /\ b[m] = b[d] + Owed(q, far, m, far) + Dark(t, m)
        /\ b[g] = b[x] + Owed(q, far, g, far) + Dark(t, g)
    BY <1>1, <1>2, <1>7 DEF p, m
  <2>2. /\ Owed(q, far, g, side) = 0 /\ Owed(q, far, p, side) = 0 /\ Owed(q, far, p, far) = 0
        /\ Owed(q, far, m, side) = 0 /\ Owed(q, far, m, far) = 0
    BY <1>1, <1>2, <1>4
  <2>3. QED
    BY <1>3, <1>5, <1>11, <2>1, <2>2
<1>13. ASSUME NEW i \in M, NEW s \in Sides
       PROVE  c[i] = c[Kid(u, i, s)] + Owed(r, far, i, s) + Dark(u, i)
  <2>1. CASE i = g
    <3>1. CASE s = side
      BY <1>1, <1>2, <1>3, <1>4, <1>5, <1>9, <1>10, <1>11, <1>12, <2>1, <3>1
    <3>2. CASE s = far
      BY <1>2, <1>3, <1>4, <1>5, <1>9, <1>10, <1>11, <1>12, <2>1, <3>2
    <3>3. QED
      BY <1>1, <3>1, <3>2
  <2>2. CASE i = p
    <3>1. Owed(r, far, i, s) = 0
      BY <1>2, <1>4, <2>2
    <3>2. QED
      BY <1>1, <1>2, <1>3, <1>5, <1>10, <1>11, <1>12, <2>2, <3>1
  <2>3. CASE i = m
    <3>1. Owed(r, far, i, s) = 0
      BY <1>2, <1>4, <2>3
    <3>2. QED
      BY <1>1, <1>2, <1>3, <1>5, <1>9, <1>10, <1>11, <1>12, <2>3, <3>1
  <2>4. QED
    BY <2>1, <2>2, <2>3
<1>14. ASSUME NEW i \in U \ M, NEW s \in Sides
       PROVE  c[i] = c[Kid(u, i, s)] + Owed(r, far, i, s) + Dark(u, i)
  <2>1. Owed(r, far, i, s) = 0 /\ Owed(q, far, i, s) = 0
    BY <1>4
  <2>2. c[Kid(u, i, s)] = b[Kid(t, i, s)]
    <3>1. Kid(t, i, s) \in U \cup {NIL}
      BY DEF IsTree, Joined
    <3>2. \/ Kid(t, i, s) = g /\ Kid(u, i, s) = m
          \/ Kid(u, i, s) = Kid(t, i, s) /\ Kid(t, i, s) \notin {g, p, m}
      BY <1>2
    <3>3. QED
      BY <1>9, <3>1, <3>2
  <2>3. b[i] = b[Kid(t, i, s)] + Owed(q, far, i, s) + Dark(t, i) /\ c[i] = b[i]
    BY <1>7, <1>9
  <2>4. QED
    BY <1>3, <2>1, <2>2, <2>3
<1>15. Levelled(u, U, c, r, far)
  <2>1. \A i \in U, s \in Sides : c[i] = c[Kid(u, i, s)] + Owed(r, far, i, s) + Dark(u, i)
    BY <1>13, <1>14
  <2>2. QED
    BY <1>8, <2>1 DEF Levelled
<1>16. QED
  BY <1>15 DEF far

-----------------------------------------------------------------------------
(* Balance.                                                                *)

\* The node that may be red under a red parent.
Excused(r) == IF r.op = "insert" THEN r.at ELSE NIL

\* The parent whose kid under repair lacks a black node.
Short(r) == IF r.op = "remove" THEN r.parent ELSE NIL

\* The loop invariants of insert_fix and remove_fix.
Balanced(t, U, r) ==
    /\ \E b : Levelled(t, U, b, Short(r), Place(t, r.parent, r.at))
    /\ Calm(t, U, Excused(r))
    /\ r.op = "insert" => Color(t, r.at) = "red"
    /\ r.op = "remove" => Color(t, r.at) = "black"

LEMMA LevelledAll ==
    ASSUME NEW t, NEW U, NIL \notin U, NEW b, NEW s, Levelled(t, U, b, NIL, s), NEW z
    PROVE  Levelled(t, U, b, NIL, z)
<1>1. \A i \in U, side \in Sides : Owed(NIL, s, i, side) = 0 /\ Owed(NIL, z, i, side) = 0
  BY DEF Owed
<1>2. QED
  BY <1>1 DEF Levelled

\* What is balanced when a repair ends.
LEMMA DoneBalanced ==
    ASSUME NEW t, NEW U, NIL \notin U, NEW b, NEW s, Levelled(t, U, b, NIL, s), Calm(t, U, NIL)
    PROVE  Balanced(t, U, Done)
<1>1. Short(Done) = NIL /\ Excused(Done) = NIL /\ Done.op = "none"
  BY DEF Short, Excused, Done
<1>2. Levelled(t, U, b, NIL, Place(t, Done.parent, Done.at))
  BY LevelledAll
<1>3. QED
  BY <1>1, <1>2 DEF Balanced

LEMMA InsertingBalanced ==
    ASSUME NEW t, NEW U, NIL \notin U, NEW b, NEW s, Levelled(t, U, b, NIL, s), NEW i,
           Calm(t, U, i), Color(t, i) = "red"
    PROVE  Balanced(t, U, Inserting(i))
<1> DEFINE r == Inserting(i)
<1>1. Short(r) = NIL /\ Excused(r) = i /\ r.op = "insert" /\ r.at = i
  BY DEF Short, Excused, Inserting
<1> HIDE DEF r
<1>2. Levelled(t, U, b, NIL, Place(t, r.parent, r.at))
  BY LevelledAll
<1>3. QED
  BY <1>1, <1>2 DEF Balanced, r

\* A side that is short of a black node is told from the other by its kid.
LEMMA RemovingBalanced ==
    ASSUME NEW t, NEW U, NEW b, NEW q, NEW s \in Sides, Levelled(t, U, b, q, s),
           q # NIL => q \in U /\ Kid(t, q, "left") \in U \cup {NIL} /\ Kid(t, q, "right") \in U \cup {NIL},
           NIL \notin U, NEW at, q # NIL => Kid(t, q, s) = at, Calm(t, U, NIL),
           Color(t, at) = "black"
    PROVE  Balanced(t, U, Removing(at, q))
<1> DEFINE r == Removing(at, q)
           z == Place(t, q, at)
<1>1. Short(r) = q /\ Excused(r) = NIL /\ r.op = "remove" /\ r.at = at /\ r.parent = q
  BY DEF Short, Excused, Removing
<1> HIDE DEF r
<1>2. Levelled(t, U, b, q, z)
  <2>1. CASE q = NIL
    BY <2>1, LevelledAll
  <2>2. CASE q # NIL
    <3>1. CASE s = "left"
      BY <2>2, <3>1 DEF Place
    <3>2. CASE s = "right"
      <4>1. Owed(q, s, q, "left") = 0 /\ Owed(q, s, q, "right") = 1
        BY <3>2 DEF Owed
      <4>2. /\ b[q] = b[Kid(t, q, "left")] + Owed(q, s, q, "left") + Dark(t, q)
            /\ b[q] = b[Kid(t, q, "right")] + Owed(q, s, q, "right") + Dark(t, q)
            /\ b[Kid(t, q, "left")] \in Nat /\ b[Kid(t, q, "right")] \in Nat
        BY <2>2 DEF Levelled, Sides
      <4>3. b[Kid(t, q, "left")] # b[Kid(t, q, "right")]
        BY <4>1, <4>2, DarkTyped
      <4>4. Kid(t, q, "left") # at
        BY <2>2, <3>2, <4>3
      <4>5. QED
        BY <3>2, <4>4 DEF Place
    <3>3. QED
      BY <3>1, <3>2 DEF Sides
  <2>3. QED
    BY <2>1, <2>2
<1>3. QED
  BY <1>1, <1>2 DEF Balanced, r

\* The tree and the repair that an action starts from.
LEMMA BalanceKnown ==
    ASSUME TreeInv, Balanced(tree, used, repair)
    PROVE  /\ tree \in Trees /\ used \in SUBSET Index /\ IsTree(tree, used) /\ Joined(tree, used)
           /\ NIL \notin used /\ NIL \notin Index /\ used \subseteq Links /\ NIL \in Links
           /\ \A i \in used, side \in Sides :
                /\ Kid(tree, i, side) \in used \cup {NIL} /\ Kid(tree, i, side) \in Links
                /\ Kid(tree, i, side) # NIL => Up(tree, Kid(tree, i, side)) = i
           /\ \A i \in used : Up(tree, i) # i /\ \A side \in Sides : Kid(tree, i, side) # i
           /\ "black" \in Colors /\ "red" \in Colors
           /\ \A i \in Links : Color(tree, i) \in Colors
<1>1. /\ tree \in Trees /\ used \in SUBSET Index /\ IsTree(tree, used) /\ Joined(tree, used)
      /\ NIL \notin used /\ NIL \notin Index
  BY NilNoBlock DEF TreeInv, IsTree
<1>2. \A i \in used : Up(tree, i) # i /\ \A side \in Sides : Kid(tree, i, side) # i
  BY <1>1, Apart DEF IsTree
<1>3. \A i \in Links : Color(tree, i) \in Colors
  BY <1>1, ColorTyped
<1>4. QED
  BY <1>1, <1>2, <1>3 DEF Joined, Links, Colors

\* Painting a block changes no link and no other color.
LEMMA Painted ==
    ASSUME NEW t \in Trees, NEW i \in Links, NEW color \in Colors
    PROVE  LET u == SetColor(t, i, color)
           IN  /\ u \in Trees /\ SameLinks(t, u)
               /\ \A j \in Links : Color(u, j) = IF j = i /\ i # NIL THEN color ELSE Color(t, j)
BY SetColorLinks, SetColorColors

LEMMA InsertFixNothingBalanced ==
    ASSUME TreeInv, Balanced(tree, used, repair), InsertFixNothing
    PROVE  Balanced(tree', used', repair')
<1>1. tree' = tree /\ used' = used /\ repair' = Done /\ repair.op = "insert" /\ repair.at \in used
      /\ Color(tree, FixParent) = "black" /\ tree.root # repair.at
  BY DEF InsertFixNothing, Fixed, TreeInv, RepairSound, Done
<1>2. NIL \notin used /\ Joined(tree, used) /\ used \subseteq Index
  BY BalanceKnown
<1>3. Up(tree, repair.at) = FixParent
  BY <1>1, <1>2, ChildIsKid DEF FixParent
<1>4. PICK b : Levelled(tree, used, b, NIL, Place(tree, repair.parent, repair.at))
  BY <1>1 DEF Balanced, Short
<1>5. Calm(tree, used, NIL)
  <2>1. Calm(tree, used, repair.at)
    BY <1>1 DEF Balanced, Excused
  <2>2. Color(tree, tree.root) # "red"
    BY <1>1, <2>1 DEF Calm
  <2>3. \A i \in used, side \in Sides : Kid(tree, i, side) = repair.at => Color(tree, i) = "black"
    BY <1>1, <1>2, <1>3 DEF Joined
  <2>4. QED
    BY <2>1, <2>2, <2>3 DEF Calm
<1>6. QED
  BY <1>1, <1>2, <1>4, <1>5, DoneBalanced

\* Painting the root black raises it and nothing else.
LEMMA RootPainted ==
    ASSUME NEW t \in Trees, NEW U \in SUBSET Index, IsTree(t, U), NEW b, NEW s,
           Levelled(t, U, b, NIL, s), Calm(t, U, t.root), t.root \in U, Color(t, t.root) = "red"
    PROVE  Balanced(SetColor(t, t.root, "black"), U, Done)
<1> DEFINE u == SetColor(t, t.root, "black")
           c == [i \in U \cup {NIL} |-> IF i = t.root THEN b[i] + 1 ELSE b[i]]
<1>1. NIL \notin U /\ U \cup {NIL} \subseteq Links /\ Joined(t, U) /\ t.root # NIL
  BY NilNoBlock DEF IsTree, Links
<1>2. /\ SameLinks(t, u)
      /\ \A j \in Links : Color(u, j) = IF j = t.root THEN "black" ELSE Color(t, j)
  BY <1>1, Painted DEF Colors
<1> HIDE DEF u
<1>3. /\ u.root = t.root
      /\ \A i \in U, side \in Sides : /\ Kid(u, i, side) = Kid(t, i, side)
                                      /\ Kid(t, i, side) \in U \cup {NIL}
                                      /\ Kid(t, i, side) # t.root
  BY <1>1, <1>2 DEF SameLinks, Joined
<1>4. \A i \in U : Dark(u, i) = IF i = t.root THEN 1 ELSE Dark(t, i)
  BY <1>1, <1>2 DEF Dark
<1>5. /\ Dark(t, t.root) = 0
      /\ b \in [U \cup {NIL} -> Nat] /\ b[NIL] = 0
      /\ \A i \in U, side \in Sides : b[i] = b[Kid(t, i, side)] + Owed(NIL, s, i, side) + Dark(t, i)
      /\ \A i \in U, side \in Sides : Owed(NIL, s, i, side) = 0
      /\ \A i \in U : Dark(t, i) \in Nat
  BY <1>1, OwedNothing DEF Levelled, Dark
<1>6. Levelled(u, U, c, NIL, s)
  <2>1. c \in [U \cup {NIL} -> Nat] /\ c[NIL] = 0
    BY <1>1, <1>5
  <2>2. \A i \in U \cup {NIL} : c[i] = IF i = t.root THEN b[i] + 1 ELSE b[i]
    OBVIOUS
  <2> HIDE DEF c
  <2>3. ASSUME NEW i \in U, NEW side \in Sides
        PROVE  c[i] = c[Kid(u, i, side)] + Owed(NIL, s, i, side) + Dark(u, i)
    <3>1. c[Kid(u, i, side)] = b[Kid(t, i, side)] /\ b[Kid(t, i, side)] \in Nat
      BY <1>3, <1>5, <2>2
    <3>2. QED
      BY <1>4, <1>5, <2>2, <3>1
  <2>4. QED
    BY <2>1, <2>3 DEF Levelled
<1>7. Calm(u, U, NIL)
  <2>1. Color(u, u.root) = "black"
    BY <1>1, <1>2, <1>3
  <2>2. ASSUME NEW i \in U, NEW side \in Sides, Color(u, i) = "red", Color(u, Kid(u, i, side)) = "red"
        PROVE  FALSE
    <3>1. Color(t, i) = "red" /\ Color(t, Kid(t, i, side)) = "red"
      BY <1>1, <1>2, <1>3, <2>2
    <3>2. QED
      BY <1>3, <3>1 DEF Calm
  <2>3. QED
    BY <2>1, <2>2 DEF Calm
<1>8. QED
  BY <1>1, <1>6, <1>7, DoneBalanced DEF u

\* A red root is the node under repair.
LEMMA InsertFixRootBalanced ==
    ASSUME TreeInv, Balanced(tree, used, repair), InsertFixRoot
    PROVE  Balanced(tree', used', repair')
<1>1. repair.op = "insert" /\ used' = used /\ repair' = Done /\ repair.at \in used
  BY DEF InsertFixRoot, Fixed, TreeInv, RepairSound, Done
<1>2. /\ tree \in Trees /\ used \in SUBSET Index /\ IsTree(tree, used) /\ Joined(tree, used)
      /\ NIL \notin used /\ NIL \notin Index
  BY BalanceKnown
<1>3. PICK b : Levelled(tree, used, b, NIL, Place(tree, repair.parent, repair.at))
  BY <1>1 DEF Balanced, Short
<1>4. Calm(tree, used, repair.at) /\ Color(tree, repair.at) = "red"
  BY <1>1 DEF Balanced, Excused
<1>5. tree.root = repair.at
  <2>1. SUFFICES ASSUME tree.root # repair.at
                 PROVE  FALSE
    OBVIOUS
  <2>2. FixParent = Up(tree, repair.at) /\ FixParent \in used /\ FixParent # repair.at
    BY <1>1, <1>2, <2>1, BalanceKnown, ChildIsKid DEF FixParent, Joined
  <2>3. Color(tree, FixParent) = "red" /\ FixGrandparent = NIL
    BY <2>1, <2>2 DEF InsertFixRoot
  <2>4. FixGrandparent = Up(tree, FixParent) /\ FixParent = tree.root
    BY <1>2, <2>2, <2>3, ChildIsKid DEF FixGrandparent, Joined
  <2>5. QED
    BY <1>4, <2>1, <2>3, <2>4 DEF Calm
<1>6. tree' = SetColor(tree, tree.root, "black")
  BY <1>1, <1>5 DEF InsertFixRoot, Fixed
<1>7. Balanced(SetColor(tree, tree.root, "black"), used, Done)
  BY <1>1, <1>2, <1>3, <1>4, <1>5, RootPainted
<1>8. QED
  BY <1>1, <1>6, <1>7

\* The relatives of a node under a red parent.
LEMMA FixColors ==
    ASSUME TreeInv, Balanced(tree, used, repair), NeedsInsertFix
    PROVE  LET p == FixParent
               g == FixGrandparent
               v == FixUncle
           IN  /\ Color(tree, p) = "red" /\ Color(tree, g) = "black" /\ Color(tree, repair.at) = "red"
               /\ repair.at \in used /\ p \in used /\ g \in used /\ FixSide \in Sides
               /\ Kid(tree, g, FixSide) = p /\ Kid(tree, g, Across(FixSide)) = v
               /\ v \in used \cup {NIL}
               /\ p # g /\ p # v /\ g # v /\ repair.at \notin {p, g, v}
               /\ Up(tree, repair.at) = p /\ Up(tree, p) = g /\ (v # NIL => Up(tree, v) = g)
               /\ Calm(tree, used, repair.at) /\ tree.root # repair.at
               /\ \E b : Levelled(tree, used, b, NIL, "left")
<1> DEFINE p == FixParent
           g == FixGrandparent
           v == FixUncle
<1>1. /\ repair.at \in used /\ repair.at # NIL
      /\ p \in used /\ p = Up(tree, repair.at) /\ g \in used /\ g = Up(tree, p)
      /\ FixSide \in Sides /\ Kid(tree, g, FixSide) = p /\ p # NIL
  BY FixFamily
<1>2. /\ v = Kid(tree, g, Across(FixSide)) /\ Across(FixSide) \in Sides
      /\ Color(tree, p) = "red" /\ repair.op = "insert" /\ tree.root # repair.at
  BY <1>1, AcrossSides DEF FixUncle, Kid, NeedsInsertFix
<1> HIDE DEF p, g, v
<1>3. /\ tree \in Trees /\ used \in SUBSET Index /\ IsTree(tree, used) /\ Joined(tree, used)
      /\ NIL \notin used /\ NIL \notin Index
  BY BalanceKnown
<1>4. PICK h : Graded(tree, used, h)
  BY <1>3 DEF IsTree
<1>5. /\ v \in used \cup {NIL} /\ p # g /\ p # v /\ g # v /\ repair.at # p
      /\ (v # NIL => Up(tree, v) = g)
  BY <1>1, <1>2, <1>3, <1>4, Apart DEF Joined
<1>6. repair.at # g
  <2>1. \E side \in Sides : Kid(tree, p, side) = repair.at
    BY <1>1, <1>2, <1>3 DEF Joined
  <2>2. h[repair.at] < h[p] /\ h[p] < h[g] /\ \A i \in used : h[i] \in Nat
    BY <1>1, <1>3, <1>4, <2>1, Apart DEF Graded
  <2>3. QED
    BY <1>1, <2>2
<1>7. repair.at # v
  BY <1>1, <1>5
<1>8. Calm(tree, used, repair.at) /\ Color(tree, repair.at) = "red"
  BY <1>2 DEF Balanced, Excused
<1>9. Color(tree, g) = "black"
  <2>1. Color(tree, g) \in Colors
    BY FixFamily DEF g
  <2>2. Color(tree, g) # "red"
    BY <1>1, <1>2, <1>5, <1>8 DEF Calm
  <2>3. QED
    BY <2>1, <2>2 DEF Colors
<1>10. PICK b : Levelled(tree, used, b, NIL, Place(tree, repair.parent, repair.at))
  BY <1>2 DEF Balanced, Short
<1>11. Levelled(tree, used, b, NIL, "left")
  BY <1>3, <1>10, LevelledAll
<1>12. QED
  BY <1>1, <1>2, <1>5, <1>6, <1>7, <1>8, <1>9, <1>11 DEF p, g, v

\* The grandparent takes over the red of parent and uncle.
LEMMA InsertFixRecolorBalanced ==
    ASSUME TreeInv, Balanced(tree, used, repair), InsertFixRecolor
    PROVE  Balanced(tree', used', repair')
<1> DEFINE p == FixParent
           g == FixGrandparent
           v == FixUncle
           t1 == SetColor(tree, p, "black")
           t2 == SetColor(t1, v, "black")
           u == SetColor(t2, g, "red")
<1>1. /\ tree' = u /\ used' = used /\ repair' = Inserting(g) /\ NeedsInsertFix
      /\ Color(tree, v) = "red"
  BY DEF InsertFixRecolor, Fixed
<1>2. /\ Color(tree, p) = "red" /\ Color(tree, g) = "black" /\ Color(tree, repair.at) = "red"
      /\ p \in used /\ g \in used /\ FixSide \in Sides
      /\ Kid(tree, g, FixSide) = p /\ Kid(tree, g, Across(FixSide)) = v
      /\ v \in used \cup {NIL}
      /\ p # g /\ p # v /\ g # v /\ repair.at \notin {p, g, v}
      /\ Up(tree, repair.at) = p /\ Up(tree, p) = g /\ (v # NIL => Up(tree, v) = g)
      /\ Calm(tree, used, repair.at) /\ tree.root # repair.at
      /\ \E b : Levelled(tree, used, b, NIL, "left")
  BY <1>1, FixColors
<1>3. PICK b : Levelled(tree, used, b, NIL, "left")
  BY <1>2
<1>4. v \in used /\ v # NIL
  BY <1>1, <1>2, RedIsBlock
<1>5. /\ tree \in Trees /\ used \in SUBSET Index /\ IsTree(tree, used) /\ Joined(tree, used)
      /\ NIL \notin used /\ NIL \notin Index /\ used \cup {NIL} \subseteq Links
      /\ "black" \in Colors /\ "red" \in Colors
      /\ \A i \in used : Up(tree, i) # i /\ \A side \in Sides : Kid(tree, i, side) # i
  BY BalanceKnown
<1>6. /\ \A i \in used, side \in Sides :
            /\ Kid(tree, i, side) \in used \cup {NIL}
            /\ Kid(tree, i, side) # NIL => Up(tree, Kid(tree, i, side)) = i
      /\ Sides = {FixSide, Across(FixSide)}
  BY <1>2, <1>5, AcrossSides DEF Joined
<1> HIDE DEF p, g, v
<1>7. t1 \in Trees /\ SameLinks(tree, t1)
      /\ \A j \in Links : Color(t1, j) = IF j = p THEN "black" ELSE Color(tree, j)
  BY <1>2, <1>5, Painted
<1> HIDE DEF t1
<1>8. t2 \in Trees /\ SameLinks(t1, t2)
      /\ \A j \in Links : Color(t2, j) = IF j = v THEN "black" ELSE Color(t1, j)
  BY <1>4, <1>5, <1>7, Painted
<1> HIDE DEF t2
<1>9. SameLinks(t2, u)
      /\ \A j \in Links : Color(u, j) = IF j = g THEN "red" ELSE Color(t2, j)
  BY <1>2, <1>5, <1>8, Painted
<1> HIDE DEF u
<1>10. \A j \in used \cup {NIL} : Color(u, j) = IF j = g THEN "red" ELSE IF j \in {p, v} THEN "black"
                                         ELSE Color(tree, j)
  BY <1>2, <1>5, <1>7, <1>8, <1>9
<1>11. /\ u.root = tree.root
       /\ \A i \in used, side \in Sides : Kid(u, i, side) = Kid(tree, i, side)
  BY <1>5, <1>7, <1>8, <1>9 DEF SameLinks
<1>12. Calm(u, used, g)
  <2>1. Color(u, u.root) = "red" => u.root = g
    <3>1. tree.root \in used \cup {NIL}
      BY <1>5 DEF Joined
    <3>2. QED
      BY <1>2, <1>10, <1>11, <3>1 DEF Calm
  <2>2. ASSUME NEW i \in used, NEW side \in Sides, Color(u, i) = "red", Color(u, Kid(u, i, side)) = "red",
               Kid(u, i, side) # g
        PROVE  FALSE
    <3> DEFINE k == Kid(tree, i, side)
    <3>1. k \in used \cup {NIL} /\ k # g /\ Color(u, k) = "red" /\ (k # NIL => Up(tree, k) = i)
      BY <1>6, <1>11, <2>2
    <3>2. Color(tree, k) = "red" /\ k \notin {p, v}
      BY <1>10, <3>1
    <3>3. i # g
      BY <1>2, <1>6, <3>2
    <3>4. Color(tree, i) = "red" /\ i # p
      BY <1>10, <2>2, <3>3
    <3>5. k = repair.at
      BY <1>2, <3>2, <3>4 DEF Calm
    <3>6. QED
      BY <1>2, <3>1, <3>2, <3>4, <3>5, RedIsBlock
  <2>3. QED
    BY <2>1, <2>2 DEF Calm
<1> DEFINE c == [i \in used \cup {NIL} |-> IF i \in {p, v} THEN b[i] + 1 ELSE b[i]]
<1>13. Levelled(u, used, c, NIL, "left")
  <2>1. /\ b \in [used \cup {NIL} -> Nat] /\ b[NIL] = 0
        /\ \A i \in used, side \in Sides :
            b[i] = b[Kid(tree, i, side)] + Owed(NIL, "left", i, side) + Dark(tree, i)
        /\ \A i \in used, side \in Sides : Owed(NIL, "left", i, side) = 0
        /\ \A i \in used : Dark(tree, i) \in Nat
    BY <1>3, <1>5, OwedNothing DEF Levelled, Dark
  <2>2. /\ \A i \in used : Dark(u, i) = IF i = g THEN 0 ELSE IF i \in {p, v} THEN 1 ELSE Dark(tree, i)
        /\ Dark(tree, g) = 1 /\ Dark(tree, p) = 0 /\ Dark(tree, v) = 0
    BY <1>1, <1>2, <1>10 DEF Dark
  <2>3. c \in [used \cup {NIL} -> Nat] /\ c[NIL] = 0
    BY <1>2, <1>4, <1>5, <2>1
  <2>4. \A i \in used \cup {NIL} : c[i] = IF i \in {p, v} THEN b[i] + 1 ELSE b[i]
    OBVIOUS
  <2> HIDE DEF c
  <2>5. ASSUME NEW i \in used, NEW side \in Sides
        PROVE  c[i] = c[Kid(u, i, side)] + Owed(NIL, "left", i, side) + Dark(u, i)
    <3> DEFINE k == Kid(tree, i, side)
    <3>1. k \in used \cup {NIL} /\ Kid(u, i, side) = k
      BY <1>6, <1>11
    <3>2. b[i] = b[k] + Dark(tree, i) /\ b[k] \in Nat /\ Owed(NIL, "left", i, side) = 0
      BY <2>1, <3>1
    <3>3. CASE i = g
      <4>1. k \in {p, v}
        BY <1>2, <1>6, <3>3
      <4>2. QED
        BY <1>2, <2>2, <2>4, <3>1, <3>2, <3>3, <4>1
    <3>4. CASE i # g
      <4>1. k \notin {p, v}
        BY <1>2, <1>4, <1>5, <1>6, <3>1, <3>4
      <4>2. QED
        BY <2>1, <2>2, <2>4, <3>1, <3>2, <3>4, <4>1
    <3>5. QED
      BY <3>3, <3>4
  <2>6. QED
    BY <2>3, <2>5 DEF Levelled
<1>14. Color(u, g) = "red"
  BY <1>2, <1>10
<1>15. QED
  BY <1>1, <1>5, <1>12, <1>13, <1>14, InsertingBalanced

\* Painting before or after a rotation.
LEMMA RotatedPainted ==
    ASSUME NEW t \in Trees, NEW v, NEW w, NEW u, NEW g \in Index, NEW side \in Sides,
           SameLinks(t, v), Rotated(v, w, g, side), SameLinks(w, u), Kid(t, g, Across(side)) \in Index
    PROVE  Rotated(t, u, g, side)
<1> DEFINE far == Across(side)
           p == Kid(t, g, far)
           y == Kid(t, p, side)
           up == Up(t, g)
<1>1. far \in Sides
  BY AcrossSides
<1>2. Kid(v, g, far) = p /\ Kid(v, p, side) = y /\ Up(v, g) = up /\ v.root = t.root
  BY <1>1 DEF SameLinks
<1>3. up # NIL => Place(v, up, g) = Place(t, up, g)
  BY LinksTyped DEF SameLinks, Place, Sides, Links
<1>4. \A j \in Index : j = up => up # NIL
  BY NilNoBlock
<1> HIDE DEF far, p, y, up
<1>5. /\ u.root = IF up = NIL THEN p ELSE t.root
      /\ \A j \in Index :
            /\ Up(u, j) = IF j = y THEN g ELSE IF j = g THEN p
                          ELSE IF j = p THEN up ELSE Up(t, j)
            /\ \A s \in Sides :
                Kid(u, j, s) = IF j = p /\ s = side THEN g
                               ELSE IF j = g /\ s = far THEN y
                               ELSE IF j = up /\ s = Place(v, up, g) THEN p ELSE Kid(t, j, s)
  BY <1>2 DEF SameLinks, Rotated, far
<1>6. \A j \in Index, s \in Sides :
        Kid(u, j, s) = IF j = p /\ s = side THEN g
                       ELSE IF j = g /\ s = far THEN y
                       ELSE IF j = up /\ s = Place(t, up, g) THEN p ELSE Kid(t, j, s)
  BY <1>3, <1>4, <1>5
<1>7. QED
  BY <1>5, <1>6 DEF Rotated, far, p, y, up

\* A rotation that exchanges the colors of a red block and the black one above it.
LEMMA RotatedCalm ==
    ASSUME NEW t \in Trees, NEW U \in SUBSET Index, IsTree(t, U), NEW g \in U, NEW side \in Sides,
           Kid(t, g, Across(side)) # NIL, NEW u, Rotated(t, u, g, side), NEW x, Calm(t, U, x),
           LET p == Kid(t, g, Across(side))
           IN  /\ Color(t, p) = "red" /\ Color(t, g) = "black"
               /\ Color(u, p) = "black" /\ Color(u, g) = "red"
               /\ Color(t, Kid(t, g, side)) = "black"
               /\ \A i \in U \ {g, p} : Color(u, i) = Color(t, i)
               /\ x = NIL \/ (x = Kid(t, p, Across(side)) /\ t.root # x)
    PROVE  Calm(u, U, NIL)
<1> DEFINE far == Across(side)
           p == Kid(t, g, far)
           o == Kid(t, p, far)
           y == Kid(t, p, side)
<1>1. /\ p \in U \ {g}
      /\ Kid(u, p, side) = g /\ Kid(u, p, far) = o
      /\ Kid(u, g, side) = Kid(t, g, side) /\ Kid(u, g, far) = y
      /\ \A i \in {o, Kid(t, g, side), y} : i \in (U \cup {NIL}) \ {g, p}
      /\ o # NIL => o \notin {Kid(t, g, side), y}
      /\ \A i \in U \ {g, p}, s \in Sides :
            \/ Kid(t, i, s) = g /\ Kid(u, i, s) = p
            \/ /\ Kid(u, i, s) = Kid(t, i, s)
               /\ Kid(t, i, s) = NIL \/ Kid(t, i, s) \notin {g, p, o}
      /\ \/ t.root = g /\ u.root = p
         \/ t.root \notin {g, p} /\ u.root = t.root
  BY RotatedKids
<1>2. /\ Color(t, p) = "red" /\ Color(t, g) = "black" /\ Color(u, p) = "black" /\ Color(u, g) = "red"
      /\ Color(t, Kid(t, g, side)) = "black" /\ (x = NIL \/ (x = o /\ t.root # x))
      /\ \A i \in U \ {g, p} : Color(u, i) = Color(t, i)
  OBVIOUS
<1>3. /\ t.root \in U \cup {NIL} /\ Sides = {side, far} /\ far \in Sides
      /\ \A i \in U, s \in Sides : Kid(t, i, s) \in U \cup {NIL}
  BY AcrossSides DEF IsTree, Joined
<1> HIDE DEF far, p, o, y
<1>4. Color(u, NIL) = "black" /\ Color(t, NIL) = "black"
  BY DEF Color
<1>5. \A i \in (U \cup {NIL}) \ {g, p} : Color(u, i) = Color(t, i)
  BY <1>2, <1>4
<1>6. Color(u, u.root) # "red"
  BY <1>1, <1>2, <1>3, <1>4, <1>5 DEF Calm
<1>7. ASSUME NEW i \in U, NEW s \in Sides, Color(u, i) = "red", Color(u, Kid(u, i, s)) = "red"
      PROVE  FALSE
  <2>1. CASE i = g
    <3>1. Color(t, y) = "red"
      BY <1>1, <1>2, <1>3, <1>5, <1>7, <2>1
    <3>2. y = x
      BY <1>1, <1>2, <1>3, <3>1 DEF Calm, y
    <3>3. QED
      BY <1>1, <1>2, <1>4, <3>1, <3>2
  <2>2. CASE i # g
    <3>1. i # p
      BY <1>2, <1>7
    <3>2. /\ Kid(u, i, s) = Kid(t, i, s)
          /\ Kid(t, i, s) = NIL \/ Kid(t, i, s) \notin {g, p, o}
      BY <1>1, <1>2, <1>7, <2>2, <3>1
    <3>3. Color(t, i) = "red" /\ Color(t, Kid(t, i, s)) = "red"
      BY <1>3, <1>4, <1>5, <1>7, <2>2, <3>1, <3>2
    <3>4. QED
      BY <1>2, <1>4, <3>2, <3>3 DEF Calm
  <2>3. QED
    BY <2>1, <2>2
<1>8. QED
  BY <1>6, <1>7 DEF Calm

\* The parent takes the place and the black of the grandparent.
LEMMA InsertFixOuterBalanced ==
    ASSUME TreeInv, Balanced(tree, used, repair), InsertFixOuter
    PROVE  Balanced(tree', used', repair')
<1> DEFINE p == FixParent
           g == FixGrandparent
           at == repair.at
           side == Across(FixSide)
           w == Rotate(tree, g, side)
           t1 == SetColor(w, g, Color(tree, p))
           u == SetColor(t1, p, Color(tree, g))
<1>1. /\ tree' = u /\ used' = used /\ repair' = Done /\ NeedsInsertFix
      /\ Color(tree, FixUncle) = "black" /\ tree.node[p][FixSide] = at
  BY DEF InsertFixOuter, Fixed
<1>2. /\ Color(tree, p) = "red" /\ Color(tree, g) = "black" /\ Color(tree, at) = "red"
      /\ at \in used /\ p \in used /\ g \in used /\ FixSide \in Sides
      /\ Kid(tree, g, FixSide) = p /\ Kid(tree, g, side) = FixUncle
      /\ p # g /\ at \notin {p, g}
      /\ Calm(tree, used, at) /\ tree.root # at
      /\ \E b : Levelled(tree, used, b, NIL, "left")
  BY <1>1, FixColors
<1>3. PICK b : Levelled(tree, used, b, NIL, "left")
  BY <1>2
<1>4. /\ tree \in Trees /\ used \in SUBSET Index /\ IsTree(tree, used)
      /\ NIL \notin used /\ NIL \notin Index /\ used \cup {NIL} \subseteq Links
      /\ "black" \in Colors /\ "red" \in Colors
  BY BalanceKnown
<1>5. /\ side \in Sides /\ Across(side) = FixSide /\ Kid(tree, g, Across(side)) = p
      /\ Kid(tree, p, Across(side)) = at /\ p \in Index /\ g \in Index /\ p # NIL
  BY <1>1, <1>2, <1>4, AcrossSides DEF Kid
<1> HIDE DEF p, g, at, side
<1>6. w \in Trees /\ Rotated(tree, w, g, side) /\ SameColors(tree, w)
  BY <1>2, <1>4, <1>5, RotateTree, RotateColors
<1>7. \A j \in Links : Color(w, j) = Color(tree, j)
  BY <1>6, SameColorsSame
<1> HIDE DEF w
<1>8. t1 \in Trees /\ SameLinks(w, t1)
      /\ \A j \in Links : Color(t1, j) = IF j = g THEN "red" ELSE Color(w, j)
  BY <1>2, <1>4, <1>6, Painted
<1> HIDE DEF t1
<1>9. SameLinks(t1, u)
      /\ \A j \in Links : Color(u, j) = IF j = p THEN "black" ELSE Color(t1, j)
  BY <1>2, <1>4, <1>8, Painted
<1> HIDE DEF u
<1>10. Rotated(tree, u, g, side)
  <2>1. SameLinks(w, u)
    BY <1>8, <1>9 DEF SameLinks
  <2>2. SameLinks(tree, tree)
    BY DEF SameLinks
  <2>3. QED
    BY <1>4, <1>5, <1>6, <2>1, <2>2, RotatedPainted
<1>11. \A j \in used \cup {NIL} : Color(u, j) = IF j = p THEN "black" ELSE IF j = g THEN "red"
                                                ELSE Color(tree, j)
  BY <1>4, <1>7, <1>8, <1>9
<1>12. Calm(u, used, NIL)
  <2>1. /\ Color(u, p) = "black" /\ Color(u, g) = "red"
        /\ Color(tree, Kid(tree, g, side)) = "black"
        /\ \A i \in used \ {g, p} : Color(u, i) = Color(tree, i)
    BY <1>1, <1>2, <1>11
  <2>2. QED
    BY <1>2, <1>4, <1>5, <1>10, <2>1, RotatedCalm
<1>13. \E c : Levelled(u, used, c, NIL, side)
  <2>1. /\ Dark(tree, p) = 0 /\ Dark(tree, g) = 1 /\ Dark(tree, at) = 0
        /\ Dark(u, p) = 1 /\ Dark(u, g) = 0 /\ Dark(u, at) = 0
        /\ \A i \in used \ {g, p, at} : Dark(u, i) = Dark(tree, i)
    BY <1>2, <1>11 DEF Dark
  <2>2. Levelled(tree, used, b, NIL, side)
    BY <1>3, <1>4, LevelledAll
  <2>3. Owed(NIL, side, g, side) = 0
    BY <1>2, <1>4, OwedNothing
  <2>4. /\ Dark(u, g) = Dark(tree, Kid(tree, g, Across(side)))
        /\ Dark(u, Kid(tree, g, Across(side))) = Dark(tree, g)
        /\ LET pp == Kid(tree, g, Across(side))
               o == Kid(tree, pp, Across(side))
           IN  /\ Dark(u, o) = Dark(tree, o) + Dark(tree, pp)
               /\ \A i \in used \ {g, pp, o} : Dark(u, i) = Dark(tree, i)
        /\ Owed(NIL, side, g, side)
                = Owed(NIL, side, g, side) + Dark(tree, Kid(tree, g, Across(side)))
        /\ Kid(tree, g, Across(side)) # NIL
    BY <1>5, <2>1, <2>3
  <2>5. QED
    BY <1>2, <1>4, <1>5, <1>10, <2>2, <2>4, RotatedLevels
<1>14. QED
  BY <1>1, <1>4, <1>12, <1>13, DoneBalanced

\* A double rotation that gives its red middle the color of the block on top, and both
\* others one color.
LEMMA DoubledBalanced ==
    ASSUME NEW t \in Trees, NEW U \in SUBSET Index, IsTree(t, U), NEW g \in U, NEW side \in Sides,
           Kid(t, g, side) # NIL, Kid(t, Kid(t, g, side), Across(side)) # NIL,
           NEW b, NEW q \in {NIL, g}, Levelled(t, U, b, q, Across(side)), NEW x, Calm(t, U, x),
           LET p == Kid(t, g, side)
               m == Kid(t, p, Across(side))
           IN  /\ Color(t, m) = "red"
               /\ x = NIL \/ (x = m /\ t.root # m)
               /\ Color(t, p) = "red" =>
                    Color(t, g) = "black" /\ Color(t, Kid(t, g, Across(side))) = "black"
               /\ Owed(q, Across(side), g, Across(side)) = Dark(t, p)
    PROVE  LET color == Color(t, Kid(t, g, side))
           IN  Balanced(RotateDouble(t, g, side, Color(t, g), color, color), U, Done)
<1> DEFINE far == Across(side)
           p == Kid(t, g, side)
           m == Kid(t, p, far)
           z == Kid(t, p, side)
           a == Kid(t, m, side)
           d == Kid(t, m, far)
           y == Kid(t, g, far)
           color == Color(t, p)
           top == Color(t, g)
           u == RotateDouble(t, g, side, top, color, color)
<1>1. /\ t.root \in U \cup {NIL} /\ NIL \notin U /\ U \cup {NIL} \subseteq Links /\ U \subseteq Index
      /\ p \in U \cup {NIL} /\ far \in Sides
      /\ \A i \in U, s \in Sides : Kid(t, i, s) \in U \cup {NIL}
  BY NilNoBlock, AcrossSides DEF IsTree, Joined, Links
<1>2. color \in Colors /\ top \in Colors
  BY <1>1, ColorTyped
<1>3. Doubled(t, u, g, side)
  <2> HIDE DEF color, top
  <2>1. QED
    BY <1>2, RotateDoubleTree
<1>4. \A v : Doubled(t, v, g, side) =>
      /\ p \in U \ {g} /\ m \in U \ {g, p}
      /\ Kid(v, m, side) = p /\ Kid(v, m, far) = g /\ Kid(v, p, side) = z /\ Kid(v, p, far) = a
      /\ Kid(v, g, side) = d /\ Kid(v, g, far) = y
      /\ \A i \in {z, a, d, y} : i \in (U \cup {NIL}) \ {g, p, m}
      /\ \A i \in U \ {g, p, m}, s \in Sides :
            \/ Kid(t, i, s) = g /\ Kid(v, i, s) = m
            \/ Kid(v, i, s) = Kid(t, i, s) /\ Kid(t, i, s) \notin {g, p, m}
      /\ \/ t.root = g /\ v.root = m
         \/ t.root \notin {g, p, m} /\ v.root = t.root
  BY DoubledKids
<1>5. /\ p \in U \ {g} /\ m \in U \ {g, p}
      /\ Kid(u, m, side) = p /\ Kid(u, m, far) = g /\ Kid(u, p, side) = z /\ Kid(u, p, far) = a
      /\ Kid(u, g, side) = d /\ Kid(u, g, far) = y
      /\ \A i \in {z, a, d, y} : i \in (U \cup {NIL}) \ {g, p, m}
      /\ \A i \in U \ {g, p, m}, s \in Sides :
            \/ Kid(t, i, s) = g /\ Kid(u, i, s) = m
            \/ Kid(u, i, s) = Kid(t, i, s) /\ Kid(t, i, s) \notin {g, p, m}
      /\ \/ t.root = g /\ u.root = m
         \/ t.root \notin {g, p, m} /\ u.root = t.root
  <2> HIDE DEF p, m, z, a, d, y, u, far
  <2>1. QED
    BY <1>3, <1>4
<1>6. \A j \in Links : Color(u, j) = IF j = m THEN top ELSE IF j \in {p, g} THEN color ELSE Color(t, j)
  <2>1. p \in Index \ {g} /\ m \in Index \ {g, p}
    BY <1>1, <1>5
  <2> HIDE DEF color, top
  <2>2. \A j \in Links :
            Color(u, j) = IF j = m THEN top ELSE IF j = p THEN color
                          ELSE IF j = g THEN color ELSE Color(t, j)
    BY <1>1, <1>2, <2>1, RotateDoubleColors
  <2>3. QED
    BY <2>2
<1>7. /\ Color(t, m) = "red" /\ (x = NIL \/ (x = m /\ t.root # m))
      /\ color = "red" => top = "black" /\ Color(t, y) = "black"
      /\ Owed(q, far, g, far) = Dark(t, p)
  OBVIOUS
<1>8. Dark(u, m) = Dark(t, g) /\ Dark(u, g) = Dark(t, p) /\ Dark(u, p) = Dark(t, p)
      /\ Dark(t, m) = 0 /\ \A i \in U \ {g, p, m} : Dark(u, i) = Dark(t, i)
  <2>1. Color(u, m) = Color(t, g) /\ Color(u, g) = Color(t, p) /\ Color(u, p) = Color(t, p)
        /\ \A i \in U \ {g, p, m} : Color(u, i) = Color(t, i)
    <3> HIDE DEF p, m, u
    <3>1. QED
      BY <1>1, <1>5, <1>6
  <2> HIDE DEF p, m, u
  <2>2. QED
    BY <1>7, <2>1 DEF Dark
<1>9. Owed(NIL, far, g, far) = 0 /\ Dark(t, p) \in {0, 1}
  BY <1>1, OwedNothing, DarkTyped
<1> HIDE DEF u
<1>10. \E c : Levelled(u, U, c, NIL, far)
  <2>1. Owed(q, far, g, far) = Owed(NIL, far, g, far) + Dark(t, p)
    BY <1>7, <1>9
  <2>2. QED
    BY <1>3, <1>8, <2>1, DoubledLevels
<1>11. \A i \in U, s \in Sides : Color(t, i) = "red" /\ Color(t, Kid(t, i, s)) = "red" => Kid(t, i, s) = x
  BY DEF Calm
<1>12. Color(t, p) = "red" /\ Color(t, z) = "red" => z = x
  BY <1>5, <1>11
<1>13. /\ Color(t, m) = "red" /\ Color(t, a) = "red" => a = x
       /\ Color(t, m) = "red" /\ Color(t, d) = "red" => d = x
  <2>1. m \in U
    BY <1>5
  <2> HIDE DEF m
  <2>2. QED
    BY <1>1, <1>11, <2>1
<1> HIDE DEF p, m, z, a, d, y, far
<1>14. Color(u, NIL) = "black" /\ Color(t, NIL) = "black"
  BY DEF Color
<1>15. x \in {NIL, m}
  BY <1>7
<1>16. Calm(u, U, NIL)
  <2>1. Color(u, u.root) # "red"
    BY <1>1, <1>5, <1>6, <1>7, <1>14 DEF Calm
  <2>2. ASSUME NEW i \in U, NEW s \in Sides, Color(u, i) = "red", Color(u, Kid(u, i, s)) = "red"
        PROVE  FALSE
    <3>1. Sides = {side, far}
      BY AcrossSides DEF far
    <3>2. CASE i = m
      <4>1. top = "red" /\ Color(u, Kid(u, i, s)) = color
        BY <1>1, <1>5, <1>6, <2>2, <3>1, <3>2
      <4>2. QED
        BY <1>7, <2>2, <4>1
    <3>3. CASE i = p
      <4>1. Color(t, p) = "red"
        BY <1>1, <1>5, <1>6, <2>2, <3>3
      <4>2. Kid(u, i, s) \in {z, a} /\ Color(t, Kid(u, i, s)) = "red"
        BY <1>1, <1>5, <1>6, <2>2, <3>1, <3>3
      <4>3. Kid(u, i, s) = x
        BY <1>7, <1>12, <1>13, <4>1, <4>2
      <4>4. QED
        BY <1>5, <1>14, <1>15, <4>2, <4>3
    <3>4. CASE i = g
      <4>1. color = "red"
        BY <1>1, <1>5, <1>6, <2>2, <3>4
      <4>2. Kid(u, i, s) \in {d, y} /\ Color(t, Kid(u, i, s)) = "red"
        BY <1>1, <1>5, <1>6, <2>2, <3>1, <3>4
      <4>3. Kid(u, i, s) = d
        BY <1>7, <4>1, <4>2
      <4>4. d = x
        BY <1>7, <1>13, <4>2, <4>3
      <4>5. QED
        BY <1>5, <1>14, <1>15, <4>2, <4>3, <4>4
    <3>5. CASE i \notin {g, p, m}
      <4>1. Color(t, i) = "red"
        BY <1>1, <1>6, <2>2, <3>5
      <4>2. CASE Kid(t, i, s) = g /\ Kid(u, i, s) = m
        <5>1. Color(t, g) = "red"
          BY <1>1, <1>5, <1>6, <2>2, <4>2
        <5>2. QED
          BY <1>1, <1>5, <1>11, <1>15, <4>1, <4>2, <5>1
      <4>3. CASE Kid(u, i, s) = Kid(t, i, s) /\ Kid(t, i, s) \notin {g, p, m}
        <5>1. Color(t, Kid(t, i, s)) = "red"
          BY <1>1, <1>6, <2>2, <4>3
        <5>2. QED
          BY <1>11, <1>14, <1>15, <4>1, <4>3, <5>1
      <4>4. QED
        BY <1>5, <3>5, <4>2, <4>3
    <3>6. QED
      BY <3>2, <3>3, <3>4, <3>5
  <2>3. QED
    BY <2>1, <2>2 DEF Calm
<1>17. Balanced(u, U, Done)
  BY <1>1, <1>10, <1>16, DoneBalanced
<1>18. QED
  BY <1>17 DEF u, p

\* The node takes the place and the black of the grandparent.
LEMMA InsertFixInnerBalanced ==
    ASSUME TreeInv, Balanced(tree, used, repair), InsertFixInner
    PROVE  Balanced(tree', used', repair')
<1> DEFINE p == FixParent
           g == FixGrandparent
           side == FixSide
           far == Across(side)
           u == RotateDouble(tree, g, side, Color(tree, g), Color(tree, p), "red")
<1>1. /\ tree' = u /\ used' = used /\ repair' = Done /\ NeedsInsertFix
      /\ Color(tree, FixUncle) = "black" /\ Kid(tree, p, side) # repair.at
  BY DEF InsertFixInner, Fixed, Kid
<1>2. /\ Color(tree, p) = "red" /\ Color(tree, g) = "black" /\ Color(tree, repair.at) = "red"
      /\ repair.at \in used /\ p \in used /\ g \in used /\ side \in Sides
      /\ Kid(tree, g, side) = p /\ Kid(tree, g, far) = FixUncle
      /\ Calm(tree, used, repair.at) /\ tree.root # repair.at
      /\ \E b : Levelled(tree, used, b, NIL, "left")
  BY <1>1, FixColors
<1>3. PICK b : Levelled(tree, used, b, NIL, "left")
  BY <1>2
<1>4. Kid(tree, p, far) = repair.at
  BY <1>1, FixFamily
<1>5. tree \in Trees /\ used \in SUBSET Index /\ IsTree(tree, used) /\ NIL \notin used
  BY BalanceKnown
<1> HIDE DEF p, g, side, far
<1>6. Levelled(tree, used, b, NIL, far) /\ Owed(NIL, far, g, far) = 0 /\ Dark(tree, p) = 0
  BY <1>2, <1>3, <1>5, LevelledAll, OwedNothing DEF Dark
<1>7. far = Across(side)
  BY DEF far, side
<1>8. Balanced(RotateDouble(tree, g, side, Color(tree, g), Color(tree, p), Color(tree, p)), used, Done)
  <2>1. /\ Kid(tree, g, side) # NIL /\ Kid(tree, Kid(tree, g, side), Across(side)) # NIL
        /\ Levelled(tree, used, b, NIL, Across(side))
        /\ LET pp == Kid(tree, g, side)
               m == Kid(tree, pp, Across(side))
           IN  /\ Color(tree, m) = "red"
               /\ repair.at = NIL \/ (repair.at = m /\ tree.root # m)
               /\ Color(tree, pp) = "red" =>
                    Color(tree, g) = "black" /\ Color(tree, Kid(tree, g, Across(side))) = "black"
               /\ Owed(NIL, Across(side), g, Across(side)) = Dark(tree, pp)
    BY <1>1, <1>2, <1>4, <1>5, <1>6, <1>7
  <2>2. LET color == Color(tree, Kid(tree, g, side))
        IN  Balanced(RotateDouble(tree, g, side, Color(tree, g), color, color), used, Done)
    BY <1>2, <1>5, <2>1, DoubledBalanced
  <2>3. QED
    BY <1>2, <2>2
<1>9. QED
  BY <1>1, <1>2, <1>8

-----------------------------------------------------------------------------
(* The repair after a removal.                                             *)

\* A place at the root may be short: nothing is beside it.
LEMMA RemoveFixRootBalanced ==
    ASSUME TreeInv, Balanced(tree, used, repair), RemoveFixRoot
    PROVE  Balanced(tree', used', repair')
<1>1. tree' = tree /\ used' = used /\ repair' = Done /\ repair.op = "remove" /\ tree.root = repair.at
  BY DEF RemoveFixRoot, Fixed
<1>2. /\ NIL \notin used /\ Joined(tree, used)
  BY BalanceKnown
<1>3. PICK b : Levelled(tree, used, b, repair.parent, Place(tree, repair.parent, repair.at))
  BY <1>1 DEF Balanced, Short
<1>4. Calm(tree, used, NIL)
  BY <1>1 DEF Balanced, Excused
<1>5. used = {} \/ repair.parent = NIL
  BY <1>1, <1>2 DEF TreeInv, RepairSound, Joined
<1>6. Levelled(tree, used, b, NIL, "left")
  <2>1. CASE used = {}
    BY <1>3, <2>1 DEF Levelled
  <2>2. CASE repair.parent = NIL
    BY <1>2, <1>3, <2>2, LevelledAll
  <2>3. QED
    BY <1>5, <2>1, <2>2
<1>7. QED
  BY <1>1, <1>2, <1>4, <1>6, DoneBalanced

\* The relatives of a place that is short of a black node.
LEMMA ShortPlace ==
    ASSUME TreeInv, Balanced(tree, used, repair), NeedsRemoveFix
    PROVE  LET g == repair.parent
               side == FixedSide
           IN  /\ g \in used /\ side \in Sides /\ Kid(tree, g, side) = repair.at
               /\ FixSibling = Kid(tree, g, Across(side)) /\ FixSibling \in used /\ FixSibling # NIL
               /\ FixSibling # g /\ FixSibling # repair.at
               /\ OuterNephew = Kid(tree, FixSibling, Across(side))
               /\ InnerNephew = Kid(tree, FixSibling, side)
               /\ Color(tree, repair.at) = "black" /\ Calm(tree, used, NIL)
               /\ \E b : Levelled(tree, used, b, g, side)
<1> DEFINE g == repair.parent
           side == FixedSide
           s == FixSibling
<1>1. /\ repair.op = "remove" /\ repair.at \in used \cup {NIL} /\ g \in used
      /\ side \in Sides /\ Kid(tree, g, side) = repair.at
      /\ s = Kid(tree, g, Across(side)) /\ s \in used \cup {NIL}
  BY FixPlace
<1>2. /\ tree \in Trees /\ used \in SUBSET Index /\ NIL \notin used
      /\ \A i \in used, z \in Sides : Kid(tree, i, z) # i /\ Kid(tree, i, z) \in used \cup {NIL}
  BY BalanceKnown
<1>3. side = Place(tree, g, repair.at)
  BY DEF FixedSide, Place, Kid
<1>4. PICK b : Levelled(tree, used, b, g, side)
  BY <1>1, <1>3 DEF Balanced, Short
<1>5. s # repair.at
  <2>1. /\ b[g] = b[Kid(tree, g, side)] + Owed(g, side, g, side) + Dark(tree, g)
        /\ b[g] = b[Kid(tree, g, Across(side))] + Owed(g, side, g, Across(side)) + Dark(tree, g)
        /\ b[Kid(tree, g, side)] \in Nat /\ b[Kid(tree, g, Across(side))] \in Nat
    BY <1>1, <1>2, <1>4, AcrossSides DEF Levelled
  <2>2. Owed(g, side, g, side) = 1 /\ Owed(g, side, g, Across(side)) = 0
    BY <1>1, AcrossSides DEF Owed
  <2>3. QED
    BY <1>1, <2>1, <2>2, DarkTyped
<1>6. s # NIL
  <2>1. /\ b[g] = b[Kid(tree, g, side)] + Owed(g, side, g, side) + Dark(tree, g)
        /\ b[g] = b[Kid(tree, g, Across(side))] + Owed(g, side, g, Across(side)) + Dark(tree, g)
        /\ b[Kid(tree, g, side)] \in Nat /\ b[NIL] = 0
    BY <1>1, <1>2, <1>4, AcrossSides DEF Levelled
  <2>2. Owed(g, side, g, side) = 1 /\ Owed(g, side, g, Across(side)) = 0
    BY <1>1, AcrossSides DEF Owed
  <2>3. QED
    BY <1>1, <2>1, <2>2, DarkTyped
<1>7. s # g /\ s \in Index
  BY <1>1, <1>2, <1>6, AcrossSides
<1>8. OuterNephew = Kid(tree, s, Across(side)) /\ InnerNephew = Kid(tree, s, side)
  BY <1>7, ChildIsKid DEF OuterNephew, InnerNephew
<1>9. Color(tree, repair.at) = "black" /\ Calm(tree, used, NIL)
  BY <1>1 DEF Balanced, Excused
<1>10. QED
  BY <1>1, <1>4, <1>5, <1>6, <1>7, <1>8, <1>9

\* The red sibling becomes the grandparent: the place is as short as it was.
LEMMA RemoveFixRedSiblingBalanced ==
    ASSUME TreeInv, Balanced(tree, used, repair), RemoveFixRedSibling
    PROVE  Balanced(tree', used', repair')
<1> DEFINE g == repair.parent
           side == FixedSide
           p == FixSibling
           o == OuterNephew
           w == Rotate(tree, g, side)
           t1 == SetColor(w, g, "red")
           u == SetColor(t1, p, "black")
<1>1. /\ tree' = u /\ used' = used /\ repair' = Removing(repair.at, g) /\ NeedsRemoveFix
      /\ Color(tree, p) = "red"
  BY DEF RemoveFixRedSibling, Fixed
<1>2. /\ g \in used /\ side \in Sides /\ Kid(tree, g, side) = repair.at
      /\ p = Kid(tree, g, Across(side)) /\ p \in used /\ p # NIL /\ p # g /\ p # repair.at
      /\ o = Kid(tree, p, Across(side))
      /\ Color(tree, repair.at) = "black" /\ Calm(tree, used, NIL)
      /\ \E b : Levelled(tree, used, b, g, side)
  BY <1>1, ShortPlace
<1>3. PICK b : Levelled(tree, used, b, g, side)
  BY <1>2
<1>4. /\ tree \in Trees /\ used \in SUBSET Index /\ IsTree(tree, used)
      /\ NIL \notin used /\ NIL \notin Index /\ used \cup {NIL} \subseteq Links
      /\ "black" \in Colors /\ "red" \in Colors
      /\ \A i \in used, s \in Sides : Kid(tree, i, s) \in used \cup {NIL}
      /\ \A i \in Links : Color(tree, i) \in Colors
  BY BalanceKnown
<1>5. /\ p \in Index /\ g \in Index /\ Across(side) \in Sides
      /\ p \in Links /\ g \in Links /\ g # NIL
  BY <1>2, <1>4, AcrossSides
<1> HIDE DEF p, g, side, o
<1>6. w \in Trees /\ Rotated(tree, w, g, side) /\ SameColors(tree, w)
  BY <1>2, <1>4, <1>5, RotateTree, RotateColors
<1>7. \A j \in Links : Color(w, j) = Color(tree, j)
  BY <1>6, SameColorsSame
<1> HIDE DEF w
<1>8. t1 \in Trees /\ SameLinks(w, t1)
      /\ \A j \in Links : Color(t1, j) = IF j = g THEN "red" ELSE Color(w, j)
  <2>1. w \in Trees /\ g \in Links /\ "red" \in Colors
    BY <1>4, <1>5, <1>6
  <2>2. QED
    BY <1>5, <2>1, Painted
<1> HIDE DEF t1
<1>9. SameLinks(t1, u)
      /\ \A j \in Links : Color(u, j) = IF j = p THEN "black" ELSE Color(t1, j)
  <2>1. t1 \in Trees /\ p \in Links /\ "black" \in Colors /\ p # NIL
    BY <1>2, <1>4, <1>5, <1>8
  <2>2. QED
    BY <2>1, Painted
<1> HIDE DEF u
<1>10. Rotated(tree, u, g, side)
  <2>1. SameLinks(w, u)
    BY <1>8, <1>9 DEF SameLinks
  <2>2. SameLinks(tree, tree)
    BY DEF SameLinks
  <2>3. Kid(tree, g, Across(side)) \in Index
    BY <1>2, <1>5
  <2>4. QED
    BY <1>2, <1>4, <1>5, <1>6, <2>1, <2>2, <2>3, RotatedPainted
<1>11. \A j \in used \cup {NIL} : Color(u, j) = IF j = p THEN "black" ELSE IF j = g THEN "red"
                                                ELSE Color(tree, j)
  BY <1>4, <1>7, <1>8, <1>9
<1>12. Color(tree, g) = "black" /\ Color(tree, o) = "black" /\ o \in used \cup {NIL}
  <2>1. Color(tree, g) # "red" /\ Color(tree, o) # "red"
    <3>1. Color(tree, NIL) = "black"
      BY DEF Color
    <3>2. QED
      BY <1>1, <1>2, <1>5, <3>1 DEF Calm
  <2>2. o \in used \cup {NIL}
    BY <1>2, <1>4, <1>5
  <2>3. QED
    BY <1>2, <1>4, <2>1, <2>2 DEF Colors
<1>13. p \in used \ {g} /\ Kid(u, g, side) = repair.at /\ o \notin {g, p}
       /\ Kid(u, g, Across(side)) \in used \cup {NIL}
  <2>1. Kid(tree, g, Across(side)) # NIL
    BY <1>2
  <2>2. LET far == Across(side)
            q == Kid(tree, g, far)
        IN  /\ q \in used \ {g}
            /\ Kid(u, g, side) = Kid(tree, g, side) /\ Kid(u, g, far) = Kid(tree, q, side)
            /\ \A i \in {Kid(tree, q, far), Kid(tree, g, side), Kid(tree, q, side)} :
                    i \in (used \cup {NIL}) \ {g, q}
    BY <1>2, <1>4, <1>10, <2>1, RotatedKids
  <2>3. QED
    BY <1>2, <2>2
<1>14. Calm(u, used, NIL)
  <2>1. LET q == Kid(tree, g, Across(side))
        IN  /\ Color(tree, q) = "red" /\ Color(tree, g) = "black"
            /\ Color(u, q) = "black" /\ Color(u, g) = "red"
            /\ Color(tree, Kid(tree, g, side)) = "black"
            /\ \A i \in used \ {g, q} : Color(u, i) = Color(tree, i)
            /\ NIL = NIL \/ (NIL = Kid(tree, q, Across(side)) /\ tree.root # NIL)
            /\ q # NIL
    BY <1>1, <1>2, <1>11, <1>12
  <2>2. QED
    BY <1>2, <1>4, <1>5, <1>10, <2>1, RotatedCalm
<1>15. \E c : Levelled(u, used, c, g, side)
  <2>1. /\ Dark(tree, p) = 0 /\ Dark(tree, g) = 1 /\ Dark(tree, o) = 1
        /\ Dark(u, p) = 1 /\ Dark(u, g) = 0 /\ Dark(u, o) = 1
        /\ \A i \in used \ {g, p, o} : Dark(u, i) = Dark(tree, i)
    BY <1>1, <1>2, <1>11, <1>12, <1>13 DEF Dark
  <2>2. Owed(g, side, g, side) = 1
    BY DEF Owed
  <2>3. /\ Dark(u, g) = Dark(tree, Kid(tree, g, Across(side)))
        /\ Dark(u, Kid(tree, g, Across(side))) = Dark(tree, g)
        /\ LET pp == Kid(tree, g, Across(side))
               oo == Kid(tree, pp, Across(side))
           IN  /\ Dark(u, oo) = Dark(tree, oo) + Dark(tree, pp)
               /\ \A i \in used \ {g, pp, oo} : Dark(u, i) = Dark(tree, i)
        /\ Owed(g, side, g, side)
                = Owed(g, side, g, side) + Dark(tree, Kid(tree, g, Across(side)))
        /\ Kid(tree, g, Across(side)) # NIL
    BY <1>2, <2>1, <2>2
  <2>4. QED
    BY <1>2, <1>3, <1>4, <1>10, <2>3, RotatedLevels
<1>16. PICK c : Levelled(u, used, c, g, side)
  BY <1>15
<1>17. Color(u, repair.at) = "black"
  <2>1. repair.at \in used \cup {NIL}
    BY <1>2, <1>4
  <2>2. repair.at # g
    BY <1>2, BalanceKnown DEF g
  <2>3. QED
    BY <1>2, <1>11, <2>1, <2>2
<1>18. Kid(u, g, "left") \in used \cup {NIL} /\ Kid(u, g, "right") \in used \cup {NIL}
  BY <1>2, <1>4, <1>13, AcrossSides DEF Sides
<1>19. Balanced(u, used, Removing(repair.at, g))
  BY <1>2, <1>4, <1>13, <1>14, <1>16, <1>17, <1>18, RemovingBalanced
<1>20. QED
  BY <1>1, <1>19

\* A red outer nephew pays with its color.
LEMMA RemoveFixOuterBalanced ==
    ASSUME TreeInv, Balanced(tree, used, repair), RemoveFixOuter
    PROVE  Balanced(tree', used', repair')
<1> DEFINE g == repair.parent
           side == FixedSide
           p == FixSibling
           o == OuterNephew
           top == Color(tree, g)
           t1 == SetColor(tree, o, "black")
           t2 == SetColor(t1, g, "black")
           w == SetColor(t2, p, top)
           u == Rotate(w, g, side)
<1>1. /\ tree' = u /\ used' = used /\ repair' = Done /\ NeedsRemoveFix
      /\ Color(tree, p) = "black" /\ Color(tree, o) = "red"
  BY DEF RemoveFixOuter, Fixed
<1>2. /\ g \in used /\ side \in Sides
      /\ p = Kid(tree, g, Across(side)) /\ p \in used /\ p # NIL /\ p # g
      /\ o = Kid(tree, p, Across(side))
      /\ Calm(tree, used, NIL)
      /\ \E b : Levelled(tree, used, b, g, side)
  BY <1>1, ShortPlace
<1>3. PICK b : Levelled(tree, used, b, g, side)
  BY <1>2
<1>4. /\ tree \in Trees /\ used \in SUBSET Index /\ IsTree(tree, used) /\ Joined(tree, used)
      /\ NIL \notin used /\ NIL \notin Index /\ used \cup {NIL} \subseteq Links
      /\ "black" \in Colors /\ "red" \in Colors
      /\ \A i \in used, s \in Sides : Kid(tree, i, s) \in used \cup {NIL}
      /\ \A i \in Links : Color(tree, i) \in Colors
  BY BalanceKnown
<1>5. /\ p \in Index /\ g \in Index /\ Across(side) \in Sides
      /\ p \in Links /\ g \in Links /\ g # NIL /\ top \in Colors
      /\ o # NIL /\ o \in used /\ o \in Links
  BY <1>1, <1>2, <1>4, AcrossSides, RedIsBlock
<1> HIDE DEF p, g, side, o, top
<1>6. t1 \in Trees /\ SameLinks(tree, t1)
      /\ \A j \in Links : Color(t1, j) = IF j = o THEN "black" ELSE Color(tree, j)
  <2>1. tree \in Trees /\ o \in Links /\ "black" \in Colors /\ o # NIL
    BY <1>4, <1>5
  <2>2. QED
    BY <2>1, Painted
<1> HIDE DEF t1
<1>7. t2 \in Trees /\ SameLinks(t1, t2)
      /\ \A j \in Links : Color(t2, j) = IF j = g THEN "black" ELSE Color(t1, j)
  <2>1. t1 \in Trees /\ g \in Links /\ "black" \in Colors /\ g # NIL
    BY <1>4, <1>5, <1>6
  <2>2. QED
    BY <2>1, Painted
<1> HIDE DEF t2
<1>8. w \in Trees /\ SameLinks(t2, w)
      /\ \A j \in Links : Color(w, j) = IF j = p THEN top ELSE Color(t2, j)
  <2>1. t2 \in Trees /\ p \in Links /\ top \in Colors /\ p # NIL
    BY <1>2, <1>5, <1>7
  <2>2. QED
    BY <2>1, Painted
<1> HIDE DEF w
<1>9. SameLinks(tree, w) /\ IsTree(w, used) /\ Kid(w, g, Across(side)) = p
  <2>1. SameLinks(tree, w)
    BY <1>6, <1>7, <1>8 DEF SameLinks
  <2>2. IsTree(w, used)
    BY <1>4, <1>8, <2>1, SameLinksTree
  <2>3. QED
    BY <1>2, <1>5, <2>1, <2>2 DEF SameLinks
<1>10. Rotated(w, u, g, side) /\ SameColors(w, u)
  BY <1>2, <1>4, <1>5, <1>8, <1>9, RotateTree, RotateColors
<1>11. \A j \in Links : Color(u, j) = Color(w, j)
  BY <1>10, SameColorsSame
<1> HIDE DEF u
<1>12. Rotated(tree, u, g, side)
  <2>1. SameLinks(u, u)
    BY DEF SameLinks
  <2>2. Kid(tree, g, Across(side)) \in Index
    BY <1>2, <1>5
  <2>3. QED
    BY <1>2, <1>4, <1>5, <1>9, <1>10, <2>1, <2>2, RotatedPainted
<1>13. /\ p \in used \ {g} /\ o \in used \ {g, p}
       /\ Kid(u, p, side) = g /\ Kid(u, p, Across(side)) = o
       /\ \A i \in used \ {g, p}, s \in Sides :
            \/ Kid(tree, i, s) = g /\ Kid(u, i, s) = p
            \/ /\ Kid(u, i, s) = Kid(tree, i, s)
               /\ Kid(tree, i, s) = NIL \/ Kid(tree, i, s) \notin {g, p, o}
       /\ \/ tree.root = g /\ u.root = p
          \/ tree.root \notin {g, p} /\ u.root = tree.root
  <2>1. Kid(tree, g, Across(side)) # NIL
    BY <1>2
  <2>2. LET far == Across(side)
            q == Kid(tree, g, far)
        IN  /\ q \in used \ {g}
            /\ Kid(u, q, side) = g /\ Kid(u, q, far) = Kid(tree, q, far)
            /\ \A i \in {Kid(tree, q, far), Kid(tree, g, side), Kid(tree, q, side)} :
                    i \in (used \cup {NIL}) \ {g, q}
            /\ \A i \in used \ {g, q}, s \in Sides :
                    \/ Kid(tree, i, s) = g /\ Kid(u, i, s) = q
                    \/ /\ Kid(u, i, s) = Kid(tree, i, s)
                       /\ Kid(tree, i, s) = NIL \/ Kid(tree, i, s) \notin {g, q, Kid(tree, q, far)}
            /\ \/ tree.root = g /\ u.root = q
               \/ tree.root \notin {g, q} /\ u.root = tree.root
    BY <1>2, <1>4, <1>12, <2>1, RotatedKids
  <2>3. QED
    BY <1>2, <1>5, <2>2
<1>14. \A j \in used \cup {NIL} : Color(u, j) = IF j = p THEN top ELSE IF j \in {g, o} THEN "black"
                                                ELSE Color(tree, j)
  BY <1>4, <1>6, <1>7, <1>8, <1>11
<1>15. Color(tree, NIL) = "black" /\ Color(u, NIL) = "black"
  BY DEF Color
<1>16. Calm(u, used, NIL)
  <2>1. Color(u, u.root) # "red"
    <3>1. Color(tree, tree.root) # "red" /\ tree.root \in used \cup {NIL}
      BY <1>2, <1>4, <1>15 DEF Calm, Joined
    <3>2. QED
      BY <1>2, <1>13, <1>14, <3>1 DEF top
  <2>2. ASSUME NEW i \in used, NEW s \in Sides, Color(u, i) = "red", Color(u, Kid(u, i, s)) = "red"
        PROVE  FALSE
    <3>1. i \notin {g, o}
      BY <1>13, <1>14, <2>2
    <3>2. CASE i = p
      BY <1>2, <1>5, <1>13, <1>14, <2>2, <3>2, AcrossSides
    <3>3. CASE i # p
      <4>1. Color(tree, i) = "red"
        BY <1>14, <2>2, <3>1, <3>3
      <4>2. CASE Kid(tree, i, s) = g /\ Kid(u, i, s) = p
        <5>1. Color(tree, g) = "red"
          BY <1>2, <1>14, <2>2, <4>2 DEF top
        <5>2. QED
          BY <1>2, <1>5, <4>1, <4>2, <5>1 DEF Calm
      <4>3. CASE /\ Kid(u, i, s) = Kid(tree, i, s)
                 /\ Kid(tree, i, s) = NIL \/ Kid(tree, i, s) \notin {g, p, o}
        <5>1. Color(tree, Kid(tree, i, s)) = "red"
          BY <1>4, <1>14, <1>15, <2>2, <4>3
        <5>2. QED
          BY <1>2, <1>15, <4>1, <5>1 DEF Calm
      <4>4. QED
        BY <1>13, <3>1, <3>3, <4>2, <4>3
    <3>4. QED
      BY <3>2, <3>3
  <2>3. QED
    BY <2>1, <2>2 DEF Calm
<1>17. \E c : Levelled(u, used, c, NIL, side)
  <2>1. /\ Dark(tree, p) = 1 /\ Dark(tree, o) = 0
        /\ Dark(u, p) = Dark(tree, g) /\ Dark(u, g) = 1 /\ Dark(u, o) = 1
        /\ \A i \in used \ {g, p, o} : Dark(u, i) = Dark(tree, i)
    BY <1>1, <1>2, <1>5, <1>13, <1>14 DEF Dark, top
  <2>2. Owed(g, side, g, side) = 1 /\ Owed(NIL, side, g, side) = 0
    BY <1>5 DEF Owed
  <2>3. /\ Dark(u, g) = Dark(tree, Kid(tree, g, Across(side)))
        /\ Dark(u, Kid(tree, g, Across(side))) = Dark(tree, g)
        /\ LET pp == Kid(tree, g, Across(side))
               oo == Kid(tree, pp, Across(side))
           IN  /\ Dark(u, oo) = Dark(tree, oo) + Dark(tree, pp)
               /\ \A i \in used \ {g, pp, oo} : Dark(u, i) = Dark(tree, i)
        /\ Owed(g, side, g, side)
                = Owed(NIL, side, g, side) + Dark(tree, Kid(tree, g, Across(side)))
        /\ Kid(tree, g, Across(side)) # NIL
    BY <1>2, <2>1, <2>2
  <2>4. QED
    BY <1>2, <1>3, <1>4, <1>12, <2>3, RotatedLevels
<1>18. QED
  BY <1>1, <1>4, <1>16, <1>17, DoneBalanced

\* A red inner nephew takes the place and color of the parent.
LEMMA RemoveFixInnerBalanced ==
    ASSUME TreeInv, Balanced(tree, used, repair), RemoveFixInner
    PROVE  Balanced(tree', used', repair')
<1> DEFINE g == repair.parent
           far == FixedSide
           side == Across(far)
           p == FixSibling
           m == InnerNephew
           u == RotateDouble(tree, g, side, Color(tree, g), "black", "black")
<1>1. /\ tree' = u /\ used' = used /\ repair' = Done /\ NeedsRemoveFix
      /\ Color(tree, p) = "black" /\ Color(tree, m) = "red"
  BY DEF RemoveFixInner, Fixed
<1>2. /\ g \in used /\ far \in Sides
      /\ p = Kid(tree, g, side) /\ p \in used /\ p # NIL
      /\ m = Kid(tree, p, far)
      /\ Calm(tree, used, NIL)
      /\ \E b : Levelled(tree, used, b, g, far)
  BY <1>1, ShortPlace
<1>3. PICK b : Levelled(tree, used, b, g, far)
  BY <1>2
<1>4. tree \in Trees /\ used \in SUBSET Index /\ IsTree(tree, used) /\ NIL \notin used
  BY BalanceKnown
<1>5. m # NIL /\ side \in Sides /\ Across(side) = far
  BY <1>1, <1>2, AcrossSides, RedIsBlock
<1> HIDE DEF p, g, side, far, m
<1>6. Owed(g, far, g, far) = 1 /\ Dark(tree, p) = 1
  BY <1>1 DEF Owed, Dark
<1>7. /\ Kid(tree, g, side) # NIL /\ Kid(tree, Kid(tree, g, side), Across(side)) # NIL
      /\ Levelled(tree, used, b, g, Across(side))
      /\ LET pp == Kid(tree, g, side)
             mm == Kid(tree, pp, Across(side))
         IN  /\ Color(tree, mm) = "red"
             /\ NIL = NIL \/ (NIL = mm /\ tree.root # mm)
             /\ Color(tree, pp) = "red" =>
                    Color(tree, g) = "black" /\ Color(tree, Kid(tree, g, Across(side))) = "black"
             /\ Owed(g, Across(side), g, Across(side)) = Dark(tree, pp)
  BY <1>1, <1>2, <1>3, <1>5, <1>6
<1>8. LET color == Color(tree, Kid(tree, g, side))
      IN  Balanced(RotateDouble(tree, g, side, Color(tree, g), color, color), used, Done)
  BY <1>2, <1>4, <1>5, <1>7, DoubledBalanced
<1>9. QED
  BY <1>1, <1>2, <1>8

\* A red sibling and a black parent: the two sides are level, and if the parent was black
\* already, its own place is now short.
LEMMA SiblingPainted ==
    ASSUME TreeInv, Balanced(tree, used, repair), BlackNephews,
           NEW u, SameLinks(tree, u),
           \A j \in used \cup {NIL} :
            Color(u, j) = IF j = FixSibling THEN "red" ELSE IF j = repair.parent THEN "black"
                          ELSE Color(tree, j)
    PROVE  LET g == repair.parent
               q == IF Color(tree, g) = "black" THEN Up(tree, g) ELSE NIL
           IN  /\ Calm(u, used, NIL)
               /\ \E c : Levelled(u, used, c, q, Place(tree, Up(tree, g), g))
<1> DEFINE g == repair.parent
           side == FixedSide
           p == FixSibling
           up == Up(tree, g)
           q == IF Color(tree, g) = "black" THEN up ELSE NIL
           z == Place(tree, up, g)
<1>1. /\ NeedsRemoveFix /\ Color(tree, p) = "black"
      /\ Color(tree, OuterNephew) = "black" /\ Color(tree, InnerNephew) = "black"
  BY DEF BlackNephews
<1>2. /\ g \in used /\ side \in Sides /\ Kid(tree, g, side) = repair.at
      /\ p = Kid(tree, g, Across(side)) /\ p \in used /\ p # NIL /\ p # g /\ p # repair.at
      /\ OuterNephew = Kid(tree, p, Across(side)) /\ InnerNephew = Kid(tree, p, side)
      /\ Calm(tree, used, NIL)
      /\ \E b : Levelled(tree, used, b, g, side)
  BY <1>1, ShortPlace
<1>3. PICK b : Levelled(tree, used, b, g, side)
  BY <1>2
<1>4. /\ tree \in Trees /\ used \in SUBSET Index /\ IsTree(tree, used) /\ Joined(tree, used)
      /\ NIL \notin used
      /\ \A i \in used, s \in Sides :
            /\ Kid(tree, i, s) \in used \cup {NIL}
            /\ Kid(tree, i, s) # NIL => Up(tree, Kid(tree, i, s)) = i
      /\ \A i \in used : Up(tree, i) # i /\ \A s \in Sides : Kid(tree, i, s) # i
  BY BalanceKnown
<1>5. Sides = {side, Across(side)} /\ Across(side) \in Sides /\ Across(side) # side
  BY <1>2, AcrossSides
<1>6. \A j \in used \cup {NIL} : Color(u, j) = IF j = p THEN "red" ELSE IF j = g THEN "black"
                                               ELSE Color(tree, j)
  OBVIOUS
<1>7. \A s \in Sides : Color(tree, Kid(tree, p, s)) = "black"
  BY <1>1, <1>2, <1>5
<1>8. /\ u.root = tree.root
      /\ \A i \in used, s \in Sides : Kid(u, i, s) = Kid(tree, i, s)
  BY <1>4 DEF SameLinks
<1>9. p # tree.root /\ Up(tree, p) = g
  BY <1>2, <1>4, <1>5 DEF Joined
<1>10. \A i \in used, s \in Sides : Kid(tree, i, s) = g => i = up /\ s = z /\ g # tree.root
  <2>1. \A i \in used, s \in Sides : Kid(tree, i, s) = g => i = up /\ g # tree.root
    BY <1>2, <1>4 DEF Joined
  <2>2. QED
    BY <1>2, <1>4, <2>1, JoinedSides
<1>11. \A i \in used : i = up => Kid(tree, i, z) = g
  <2>1. \A i \in used : i = up => g # tree.root
    BY <1>2, <1>4 DEF Joined
  <2>2. QED
    BY <1>2, <1>4, <2>1, JoinedSides
<1>12. Color(tree, NIL) = "black"
  BY DEF Color
<1> HIDE DEF g, side, p, up, z
<1>13. Calm(u, used, NIL)
  <2>1. Color(u, u.root) # "red"
    <3>1. Color(tree, tree.root) # "red" /\ tree.root \in used \cup {NIL}
      BY <1>2, <1>4, <1>12 DEF Calm, Joined
    <3>2. QED
      BY <1>6, <1>8, <1>9, <3>1
  <2>2. ASSUME NEW i \in used, NEW s \in Sides, Color(u, i) = "red", Color(u, Kid(u, i, s)) = "red"
        PROVE  FALSE
    <3> DEFINE k == Kid(tree, i, s)
    <3>1. k \in used \cup {NIL} /\ Color(u, k) = "red" /\ (k # NIL => Up(tree, k) = i) /\ k # i
      BY <1>4, <1>8, <2>2
    <3>2. k # NIL
      BY <1>2, <1>4, <1>6, <1>12, <3>1
    <3>3. i # g
      BY <1>2, <1>6, <2>2
    <3>4. k # p
      BY <1>9, <3>1, <3>2, <3>3
    <3>5. Color(tree, k) = "red"
      BY <1>6, <3>1, <3>4
    <3>6. i # p
      BY <1>7, <3>5
    <3>7. Color(tree, i) = "red"
      BY <1>6, <2>2, <3>3, <3>6
    <3>8. QED
      BY <1>2, <3>2, <3>5, <3>7 DEF Calm
  <2>3. QED
    BY <2>1, <2>2 DEF Calm
<1> DEFINE c == [i \in used \cup {NIL} |-> IF i = p THEN b[repair.at] ELSE IF i = g THEN b[p] ELSE b[i]]
<1>14. Levelled(u, used, c, q, z)
  <2>1. /\ b \in [used \cup {NIL} -> Nat] /\ b[NIL] = 0 /\ repair.at \in used \cup {NIL}
        /\ \A i \in used, s \in Sides :
            b[i] = b[Kid(tree, i, s)] + Owed(g, side, i, s) + Dark(tree, i)
        /\ \A i \in used \cup {NIL} : b[i] \in Nat
    BY <1>2, <1>3, <1>4 DEF Levelled
  <2>2. /\ \A i \in used : Dark(u, i) = IF i = p THEN 0 ELSE IF i = g THEN 1 ELSE Dark(tree, i)
        /\ Dark(tree, p) = 1
    BY <1>1, <1>2, <1>6 DEF Dark
  <2>3. c \in [used \cup {NIL} -> Nat] /\ c[NIL] = 0
    BY <1>2, <1>4, <2>1
  <2>4. \A i \in used \cup {NIL} : c[i] = IF i = p THEN b[repair.at] ELSE IF i = g THEN b[p] ELSE b[i]
    OBVIOUS
  <2>5. /\ Owed(g, side, g, side) = 1 /\ Owed(g, side, g, Across(side)) = 0
        /\ \A i \in used, s \in Sides : i # g => Owed(g, side, i, s) = 0
    BY <1>5 DEF Owed
  <2>6. b[p] = b[repair.at] + 1 /\ b[g] = b[p] + Dark(tree, g)
    <3>1. /\ b[g] = b[repair.at] + Owed(g, side, g, side) + Dark(tree, g)
          /\ b[g] = b[p] + Owed(g, side, g, Across(side)) + Dark(tree, g)
      BY <1>2, <1>5, <2>1
    <3>2. Dark(tree, g) \in Nat /\ b[p] \in Nat /\ b[repair.at] \in Nat
      BY <1>2, <2>1, DarkTyped
    <3>3. QED
      BY <2>5, <3>1, <3>2
  <2> HIDE DEF c
  <2>7. ASSUME NEW i \in used, NEW s \in Sides
        PROVE  c[i] = c[Kid(u, i, s)] + Owed(q, z, i, s) + Dark(u, i)
    <3> DEFINE k == Kid(tree, i, s)
    <3>1. k \in used \cup {NIL} /\ Kid(u, i, s) = k /\ k # i
      BY <1>4, <1>8
    <3>2. b[i] = b[k] + Owed(g, side, i, s) + Dark(tree, i)
      BY <2>1
    <3>3. Dark(tree, i) \in Nat /\ b[k] \in Nat /\ b[i] \in Nat /\ b[p] \in Nat /\ b[repair.at] \in Nat
      BY <1>2, <2>1, <3>1, DarkTyped
    <3> HIDE DEF k
    <3>4. CASE i = g
      <4>1. Owed(q, z, i, s) = 0
        <5>1. i # up /\ i # NIL
          BY <1>2, <1>4, <3>4 DEF up
        <5>2. QED
          BY <5>1 DEF Owed
      <4>2. c[k] = b[repair.at]
        <5>1. k = repair.at \/ k = p
          BY <1>2, <1>5, <3>4 DEF k
        <5>2. QED
          BY <1>2, <2>1, <2>4, <3>1, <3>4, <5>1
      <4>3. c[i] = b[p] /\ Dark(u, i) = 1
        BY <1>2, <2>2, <2>4, <3>4
      <4>4. QED
        BY <2>6, <3>1, <3>3, <4>1, <4>2, <4>3
    <3>5. CASE i # g
      <4>1. Owed(g, side, i, s) = 0 /\ k # p
        <5>1. k # p
          BY <1>2, <1>4, <1>9, <3>1, <3>5 DEF k
        <5>2. QED
          BY <2>5, <3>5, <5>1
      <4>2. CASE k = g
        <5>1. i # p
          <6>1. i = up /\ g # tree.root
            BY <1>10, <4>2 DEF k
          <6>2. PICK h : Graded(tree, used, h)
            BY <1>4 DEF IsTree
          <6>3. h[g] < h[up] /\ h[p] < h[g] /\ h[g] \in Nat /\ h[p] \in Nat /\ h[up] \in Nat
            BY <1>2, <1>9, <6>1, <6>2 DEF Graded, up
          <6>4. QED
            BY <6>1, <6>3
        <5>2. Owed(q, z, i, s) = Dark(tree, g)
          <6>1. i = up /\ s = z /\ i # NIL
            BY <1>4, <1>10, <4>2 DEF k
          <6>2. QED
            BY <6>1 DEF Owed, Dark
        <5>3. c[i] = b[i] /\ c[k] = b[p] /\ Dark(u, i) = Dark(tree, i)
          BY <1>2, <2>2, <2>4, <3>5, <4>2, <5>1
        <5>4. Dark(tree, g) \in Nat
          BY DarkTyped
        <5>5. QED
          BY <2>6, <3>1, <3>2, <3>3, <4>1, <4>2, <5>2, <5>3, <5>4
      <4>3. CASE k # g
        <5>1. Owed(q, z, i, s) = 0
          <6>1. ~ (i = up /\ s = z) /\ i # NIL
            BY <1>4, <1>11, <4>3 DEF k
          <6>2. QED
            BY <6>1 DEF Owed
        <5>2. c[k] = b[k]
          BY <2>4, <3>1, <4>1, <4>3
        <5>3. CASE i = p
          <6>1. c[i] = b[repair.at] /\ Dark(u, i) = 0
            BY <2>2, <2>4, <5>3
          <6>2. QED
            BY <2>2, <2>6, <3>1, <3>2, <3>3, <4>1, <5>1, <5>2, <5>3, <6>1
        <5>4. CASE i # p
          <6>1. c[i] = b[i] /\ Dark(u, i) = Dark(tree, i)
            BY <2>2, <2>4, <3>5, <5>4
          <6>2. QED
            BY <3>1, <3>2, <3>3, <4>1, <5>1, <5>2, <6>1
        <5>5. QED
          BY <5>3, <5>4
      <4>4. QED
        BY <4>2, <4>3
    <3>6. QED
      BY <3>4, <3>5
  <2>8. QED
    BY <2>3, <2>7 DEF Levelled
<1>15. QED
  BY <1>13, <1>14 DEF g, up, z

\* A red parent pays with its color.
LEMMA RemoveFixAbsorbBalanced ==
    ASSUME TreeInv, Balanced(tree, used, repair), RemoveFixAbsorb
    PROVE  Balanced(tree', used', repair')
<1> DEFINE g == repair.parent
           p == FixSibling
           t1 == SetColor(tree, p, "red")
           u == SetColor(t1, g, "black")
<1>1. /\ tree' = u /\ used' = used /\ repair' = Done /\ BlackNephews /\ NeedsRemoveFix
      /\ Color(tree, g) = "red"
  BY DEF RemoveFixAbsorb, BlackNephews, Fixed
<1>2. g \in used /\ p \in used /\ p # NIL /\ p # g
  BY <1>1, ShortPlace
<1>3. /\ tree \in Trees /\ used \in SUBSET Index /\ NIL \notin used /\ used \cup {NIL} \subseteq Links
      /\ "black" \in Colors /\ "red" \in Colors
  BY BalanceKnown
<1> HIDE DEF p, g
<1>4. t1 \in Trees /\ SameLinks(tree, t1)
      /\ \A j \in Links : Color(t1, j) = IF j = p THEN "red" ELSE Color(tree, j)
  <2>1. tree \in Trees /\ p \in Links /\ "red" \in Colors /\ p # NIL
    BY <1>2, <1>3
  <2>2. QED
    BY <2>1, Painted
<1> HIDE DEF t1
<1>5. SameLinks(t1, u)
      /\ \A j \in Links : Color(u, j) = IF j = g THEN "black" ELSE Color(t1, j)
  <2>1. t1 \in Trees /\ g \in Links /\ "black" \in Colors /\ g # NIL
    BY <1>2, <1>3, <1>4
  <2>2. QED
    BY <2>1, Painted
<1> HIDE DEF u
<1>6. /\ SameLinks(tree, u)
      /\ \A j \in used \cup {NIL} : Color(u, j) = IF j = p THEN "red" ELSE IF j = g THEN "black"
                                                  ELSE Color(tree, j)
  <2>1. SameLinks(tree, u)
    BY <1>4, <1>5 DEF SameLinks
  <2>2. QED
    BY <1>2, <1>3, <1>4, <1>5, <2>1
<1>7. /\ Calm(u, used, NIL)
      /\ \E c : Levelled(u, used, c, IF Color(tree, g) = "black" THEN Up(tree, g) ELSE NIL,
                         Place(tree, Up(tree, g), g))
  BY <1>1, <1>6, SiblingPainted DEF g, p
<1>8. \E c : Levelled(u, used, c, NIL, Place(tree, Up(tree, g), g))
  BY <1>1, <1>7
<1>9. QED
  BY <1>1, <1>3, <1>7, <1>8, DoneBalanced

\* Under a black parent the place of the parent is short.
LEMMA RemoveFixPropagateBalanced ==
    ASSUME TreeInv, Balanced(tree, used, repair), RemoveFixPropagate
    PROVE  Balanced(tree', used', repair')
<1> DEFINE g == repair.parent
           p == FixSibling
           up == Up(tree, g)
           z == Place(tree, up, g)
           u == SetColor(tree, p, "red")
<1>1. /\ tree' = u /\ used' = used /\ repair' = Removing(g, Parent(tree, g))
      /\ BlackNephews /\ NeedsRemoveFix /\ Color(tree, g) = "black"
  BY DEF RemoveFixPropagate, BlackNephews, Fixed
<1>2. g \in used /\ p \in used /\ p # NIL /\ p # g
  BY <1>1, ShortPlace
<1>3. /\ tree \in Trees /\ used \in SUBSET Index /\ NIL \notin used /\ used \cup {NIL} \subseteq Links
      /\ "red" \in Colors /\ Joined(tree, used)
  BY BalanceKnown
<1>4. /\ up # NIL => up \in used /\ Kid(tree, up, z) = g
      /\ z \in Sides /\ Parent(tree, g) = up
  <2>1. z \in Sides
    BY DEF Place, Sides
  <2>2. Parent(tree, g) = up
    BY <1>2, <1>3, ChildIsKid
  <2>3. up # NIL => up \in used /\ Kid(tree, up, z) = g
    <3>1. up # NIL => g # tree.root
      BY <1>2, <1>3 DEF Joined
    <3>2. QED
      BY <1>2, <1>3, <3>1, JoinedSides DEF Joined
  <2>4. QED
    BY <2>1, <2>2, <2>3
<1> HIDE DEF p, g, up, z
<1>5. /\ SameLinks(tree, u)
      /\ \A j \in Links : Color(u, j) = IF j = p THEN "red" ELSE Color(tree, j)
  <2>1. tree \in Trees /\ p \in Links /\ "red" \in Colors /\ p # NIL
    BY <1>2, <1>3
  <2>2. QED
    BY <2>1, Painted
<1> HIDE DEF u
<1>6. \A j \in used \cup {NIL} : Color(u, j) = IF j = p THEN "red" ELSE IF j = g THEN "black"
                                               ELSE Color(tree, j)
  BY <1>1, <1>3, <1>5
<1>7. /\ Calm(u, used, NIL)
      /\ \E c : Levelled(u, used, c, IF Color(tree, g) = "black" THEN up ELSE NIL, z)
  BY <1>1, <1>5, <1>6, SiblingPainted DEF g, p, up, z
<1>8. PICK c : Levelled(u, used, c, up, z)
  BY <1>1, <1>7
<1>9. /\ up # NIL => up \in used /\ Kid(u, up, "left") \in used \cup {NIL}
                               /\ Kid(u, up, "right") \in used \cup {NIL}
      /\ up # NIL => Kid(u, up, z) = g
  BY <1>3, <1>4, <1>5 DEF SameLinks, Joined, Sides
<1>10. Color(u, g) = "black"
  BY <1>2, <1>6
<1>11. Balanced(u, used, Removing(g, up))
  BY <1>3, <1>4, <1>7, <1>8, <1>9, <1>10, RemovingBalanced
<1>12. QED
  BY <1>1, <1>4, <1>11

-----------------------------------------------------------------------------
(* Insertions.                                                             *)

LEMMA InitBalanced ==
    Init => Balanced(tree, used, repair)
<1> SUFFICES ASSUME Init PROVE Balanced(tree, used, repair)
  OBVIOUS
<1>1. used = {} /\ tree.root = NIL /\ repair = Done
  BY DEF Init
<1>2. Levelled(tree, {}, [i \in {NIL} |-> 0], NIL, "left")
  BY DEF Levelled
<1>3. Calm(tree, {}, NIL)
  BY <1>1 DEF Calm
<1>4. QED
  BY <1>1, <1>2, <1>3, DoneBalanced

\* A single black root.
LEMMA InsertRootBalanced ==
    ASSUME TreeInv, Balanced(tree, used, repair), NEW index \in Index, NEW value \in Values,
           InsertRoot(index, value)
    PROVE  Balanced(tree', used', repair')
<1> DEFINE leaf == Leaf(value, NIL, "black")
           max == IF TRACKS_MAX THEN index ELSE NIL
           u == [tree EXCEPT !.root = index, !.max = max, !.node[index] = leaf]
           b == [i \in {index} \cup {NIL} |-> IF i = index THEN 1 ELSE 0]
<1>1. tree \in Trees /\ tree.root = NIL /\ repair = Done /\ Joined(tree, used) /\ NIL \notin Index
  BY BalanceKnown DEF InsertRoot
<1>2. used = {}
  BY <1>1 DEF Joined
<1>3. tree' = u /\ used' = {index} /\ repair' = Done
  BY <1>1, <1>2 DEF InsertRoot
<1>4. leaf["left"] = NIL /\ leaf["right"] = NIL /\ leaf.color = "black"
  BY DEF Leaf
<1> HIDE DEF leaf, max
<1>5. u.root = index /\ u.node[index] = leaf
  BY <1>1 DEF Trees
<1> HIDE DEF u
<1>6. Color(u, index) = "black" /\ \A s \in Sides : Kid(u, index, s) = NIL
  BY <1>1, <1>4, <1>5 DEF Color, Kid, Sides
<1>7. Levelled(u, {index}, b, NIL, "left")
  <2>1. b \in [{index} \cup {NIL} -> Nat] /\ b[NIL] = 0 /\ b[index] = 1
    BY <1>1
  <2> HIDE DEF b
  <2>2. Dark(u, index) = 1 /\ \A s \in Sides : Owed(NIL, "left", index, s) = 0
    BY <1>1, <1>6, OwedNothing DEF Dark
  <2>3. \A s \in Sides : b[index] = b[Kid(u, index, s)] + Owed(NIL, "left", index, s) + Dark(u, index)
    BY <1>6, <2>1, <2>2
  <2>4. QED
    BY <2>1, <2>3 DEF Levelled
<1>8. Calm(u, {index}, NIL)
  BY <1>5, <1>6 DEF Calm
<1>9. QED
  BY <1>1, <1>3, <1>7, <1>8, DoneBalanced

\* The new leaf is red.
LEMMA LinkedColors ==
    ASSUME NEW t \in Trees, NEW index \in Index, NEW value,
           LeafPlace(t, value).parent \in Index \ {index}, LeafPlace(t, value).side \in Sides
    PROVE  \A j \in Index : Linked(t, index, value).node[j].color
                                = IF j = index THEN "red" ELSE t.node[j].color
<1> DEFINE place == LeafPlace(t, value)
           P == place.parent
           S == place.side
           leaf == Leaf(value, P, "red")
           max == IF ExceedsMax(t, value) THEN index ELSE t.max
           v == SetKid(t, P, S, index)
           node == [v.node EXCEPT ![index] = leaf]
           u == [v EXCEPT !.max = max, !.node = node]
<1>1. P \in Index /\ P # index /\ S \in Sides /\ index \in Links
  BY DEF Links
<1> HIDE DEF P, S, place
<1>2. leaf.color = "red"
  BY DEF Leaf
<1>3. v \in Trees /\ SameColors(t, v)
  BY <1>1, SetKidLinks, SetKidColors
<1>4. Linked(t, index, value) = u
  <2>1. Linked(t, index, value) =
          [t EXCEPT !.max = max,
                    !.node = [@ EXCEPT ![P][S] = index, ![index] = leaf]]
    BY DEF Linked, place, P, S
  <2>2. QED
    BY <1>1, <2>1 DEF SetKid, Trees
<1> HIDE DEF v, leaf, max
<1>5. \A j \in Index : node[j] = IF j = index THEN leaf ELSE v.node[j]
  BY <1>3 DEF Trees
<1> HIDE DEF node
<1>6. u.node = node
  BY <1>3 DEF Trees
<1> HIDE DEF u
<1>7. QED
  BY <1>2, <1>3, <1>4, <1>5, <1>6 DEF SameColors

\* A red leaf lengthens no path.
LEMMA InsertLeafBalanced ==
    ASSUME TreeInv, Balanced(tree, used, repair), NEW index \in Index, NEW value \in Values,
           InsertLeaf(index, value)
    PROVE  Balanced(tree', used', repair')
<1> DEFINE place == LeafPlace(tree, value)
           P == place.parent
           S == place.side
           u == Linked(tree, index, value)
           V == used \cup {index}
<1>1. /\ index \notin used /\ tree.root # NIL /\ tree' = u
      /\ used' = V /\ repair' = Inserting(index) /\ repair = Done
      /\ tree.max \in used \cup {NIL}
  BY DEF TreeInv, InsertLeaf
<1>2. /\ tree \in Trees /\ used \in SUBSET Index /\ IsTree(tree, used) /\ Joined(tree, used)
      /\ NIL \notin used /\ NIL \notin Index
      /\ \A i \in used, s \in Sides : Kid(tree, i, s) \in used \cup {NIL}
  BY BalanceKnown
<1>3. /\ P \in used /\ S \in Sides /\ Kid(tree, P, S) = NIL
  <2>1. Weighed(tree, used, Weights(tree, used))
    BY <1>2, WeightsGraded DEF IsTree, Weighed
  <2>2. QED
    BY <1>1, <1>2, <2>1, LeafPlaceFree
<1>4. P \in Index \ {index}
  BY <1>1, <1>2, <1>3
<1>5. Hung(tree, u, index, place)
  BY <1>2, <1>3, <1>4, LinkedLinks
<1>6. \A j \in Index : u.node[j].color = IF j = index THEN "red" ELSE tree.node[j].color
  BY <1>2, <1>3, <1>4, LinkedColors
<1> HIDE DEF u
<1>7. /\ u.root = tree.root
      /\ \A j \in Index, s \in Sides :
            Kid(u, j, s) = IF j = index THEN NIL
                           ELSE IF j = P /\ s = S THEN index ELSE Kid(tree, j, s)
  BY <1>5 DEF Hung
<1> HIDE DEF P, S, place
<1>8. \A j \in Index \cup {NIL} : Color(u, j) = IF j = index THEN "red" ELSE Color(tree, j)
  BY <1>2, <1>6 DEF Color
<1>9. Calm(tree, used, NIL)
  BY <1>1 DEF Balanced, Excused, Done
<1>10. Color(tree, NIL) = "black" /\ Color(u, NIL) = "black"
  BY DEF Color
<1>11. Calm(u, V, index)
  <2>1. Color(u, u.root) # "red"
    <3>1. tree.root \in used /\ Color(tree, tree.root) # "red"
      BY <1>1, <1>2, <1>9 DEF Calm, Joined
    <3>2. QED
      BY <1>1, <1>2, <1>7, <1>8, <3>1
  <2>2. ASSUME NEW i \in V, NEW s \in Sides, Color(u, i) = "red", Color(u, Kid(u, i, s)) = "red",
               Kid(u, i, s) # index
        PROVE  FALSE
    <3>1. i # index
      BY <1>7, <1>10, <2>2
    <3>2. i \in used /\ Kid(u, i, s) = Kid(tree, i, s)
      BY <1>2, <1>7, <2>2, <3>1
    <3>3. Color(tree, i) = "red" /\ Color(tree, Kid(tree, i, s)) = "red"
      BY <1>2, <1>8, <2>2, <3>1, <3>2
    <3>4. QED
      BY <1>9, <1>10, <3>2, <3>3 DEF Calm
  <2>3. QED
    BY <2>1, <2>2 DEF Calm
<1>12. PICK b : Levelled(tree, used, b, NIL, Place(tree, repair.parent, repair.at))
  BY <1>1 DEF Balanced, Short, Done
<1>13. Levelled(tree, used, b, NIL, "left")
  BY <1>2, <1>12, LevelledAll
<1> DEFINE c == [i \in V \cup {NIL} |-> IF i = index THEN 0 ELSE b[i]]
<1>14. Levelled(u, V, c, NIL, "left")
  <2>1. /\ b \in [used \cup {NIL} -> Nat] /\ b[NIL] = 0
        /\ \A i \in used, s \in Sides :
            b[i] = b[Kid(tree, i, s)] + Owed(NIL, "left", i, s) + Dark(tree, i)
    BY <1>13 DEF Levelled
  <2>2. c \in [V \cup {NIL} -> Nat] /\ c[NIL] = 0 /\ c[index] = 0 /\ \A i \in used : c[i] = b[i]
    BY <1>1, <1>2, <2>1
  <2> HIDE DEF c
  <2>3. Dark(u, index) = 0 /\ \A i \in used : Dark(u, i) = Dark(tree, i)
    BY <1>1, <1>2, <1>8 DEF Dark
  <2>4. \A s \in Sides : c[index] = c[Kid(u, index, s)] + Owed(NIL, "left", index, s) + Dark(u, index)
    <3>1. \A s \in Sides : Kid(u, index, s) = NIL /\ Owed(NIL, "left", index, s) = 0
      BY <1>2, <1>7, OwedNothing
    <3>2. QED
      BY <2>2, <2>3, <3>1
  <2>5. ASSUME NEW i \in used, NEW s \in Sides
        PROVE  c[i] = c[Kid(u, i, s)] + Owed(NIL, "left", i, s) + Dark(u, i)
    <3>1. c[Kid(u, i, s)] = b[Kid(tree, i, s)]
      <4>1. CASE i = P /\ s = S
        BY <1>1, <1>2, <1>3, <1>7, <2>1, <2>2, <4>1
      <4>2. CASE ~ (i = P /\ s = S)
        <5>1. Kid(u, i, s) = Kid(tree, i, s)
          BY <1>1, <1>2, <1>7, <4>2
        <5>2. QED
          BY <1>2, <2>1, <2>2, <5>1
      <4>3. QED
        BY <4>1, <4>2
    <3>2. QED
      BY <2>1, <2>2, <2>3, <3>1
  <2>6. QED
    BY <2>2, <2>4, <2>5 DEF Levelled
<1>15. Color(u, index) = "red" /\ NIL \notin V
  BY <1>2, <1>8
<1> HIDE DEF V, c
<1>16. QED
  BY <1>1, <1>11, <1>14, <1>15, InsertingBalanced

-----------------------------------------------------------------------------
(* Removals.                                                               *)

\* A tree with the same links and the colors one wants.
LEMMA RecoloredExists ==
    ASSUME NEW t \in Trees, NEW f \in [Index -> Colors]
    PROVE  \E u \in Trees : SameLinks(t, u) /\ \A i \in Index : Color(u, i) = f[i]
<1> DEFINE node == [i \in Index |-> [t.node[i] EXCEPT !.color = f[i]]]
           u == [t EXCEPT !.node = node]
<1>1. \A i \in Index : /\ node[i] \in Nodes /\ node[i].color = f[i]
                       /\ node[i].parent = t.node[i].parent
                       /\ node[i].left = t.node[i].left /\ node[i].right = t.node[i].right
  BY DEF Trees, Nodes
<1>2. node \in [Index -> Nodes]
  BY <1>1
<1> HIDE DEF node
<1>3. u \in Trees /\ u.node = node /\ u.root = t.root
  BY <1>2 DEF Trees
<1> HIDE DEF u
<1>4. SameLinks(t, u)
  BY <1>1, <1>3 DEF SameLinks, Up, Kid, Sides
<1>5. \A i \in Index : Color(u, i) = f[i]
  BY <1>1, <1>3, NilNoBlock DEF Color
<1>6. QED
  BY <1>3, <1>4, <1>5

\* Where a node with at most one kid is cut out, a kid pays for it with its color, and
\* without one the place is short of what the node took away.
LEMMA LiftedLevels ==
    ASSUME NEW t \in Trees, NEW U \in SUBSET Index, IsTree(t, U), NEW a \in U, NEW side \in Sides,
           Kid(t, a, Across(side)) = NIL, NEW w, Lifted(t, w, a, Kid(t, a, side)),
           \A i \in (U \ {a}) \cup {NIL} :
                Color(w, i) = IF i = Kid(t, a, side) THEN "black" ELSE Color(t, i),
           NEW b, NEW s, Levelled(t, U, b, NIL, s), Calm(t, U, NIL)
    PROVE  LET up == Up(t, a)
               q == IF Kid(t, a, side) = NIL /\ Color(t, a) = "black" THEN up ELSE NIL
           IN  /\ Calm(w, U \ {a}, NIL)
               /\ \E c : Levelled(w, U \ {a}, c, q, Place(t, up, a))
<1> DEFINE up == Up(t, a)
           k == Kid(t, a, side)
           z == Place(t, up, a)
           q == IF k = NIL /\ Color(t, a) = "black" THEN up ELSE NIL
           V == U \ {a}
           c == [i \in V \cup {NIL} |-> IF i = k /\ k # NIL THEN 1 ELSE b[i]]
<1>1. /\ NIL \notin U /\ Joined(t, U) /\ \E h : Graded(t, U, h)
      /\ Sides = {side, Across(side)} /\ Across(side) \in Sides
      /\ \A i \in U : Color(t, i) \in Colors
  BY NilNoBlock, AcrossSides, ColorTyped DEF IsTree, Links
<1>2. /\ \A i \in U, x \in Sides : /\ Kid(t, i, x) \in U \cup {NIL} /\ Kid(t, i, x) # i
                                   /\ Kid(t, i, x) # NIL => Up(t, Kid(t, i, x)) = i
      /\ t.root \in U \cup {NIL} /\ up # a /\ (up = NIL <=> a = t.root)
  BY <1>1, Apart DEF Joined
<1>3. \A i \in U, x \in Sides : Kid(t, i, x) = a <=> i = up /\ x = z
  <2>1. \A i \in U, x \in Sides : Kid(t, i, x) = a => i = up
    BY <1>1, <1>2
  <2>2. \A i \in U : i = up => a # t.root
    BY <1>1, <1>2
  <2>3. QED
    BY <1>1, <2>1, <2>2, JoinedSides
<1>4. /\ w.root = IF up = NIL THEN k ELSE t.root
      /\ \A i \in U, x \in Sides : Kid(w, i, x) = IF i = up /\ x = z THEN k ELSE Kid(t, i, x)
  BY DEF Lifted
<1>5. Color(t, NIL) = "black" /\ k \in V \cup {NIL}
  BY <1>2 DEF Color
<1>6. \A i \in V \cup {NIL} : Color(w, i) = IF i = k THEN "black" ELSE Color(t, i)
  OBVIOUS
<1>7. /\ b \in [U \cup {NIL} -> Nat] /\ b[NIL] = 0
      /\ \A i \in U, x \in Sides : b[i] = b[Kid(t, i, x)] + Owed(NIL, s, i, x) + Dark(t, i)
  BY DEF Levelled
<1>8. /\ \A i \in U, x \in Sides : Owed(NIL, s, i, x) = 0
      /\ \A i \in U : b[i] \in Nat /\ Dark(t, i) \in Nat
  BY <1>1, <1>7, OwedNothing, DarkTyped
<1>9. b[a] = b[k] + Dark(t, a) /\ b[a] = Dark(t, a) /\ b[k] \in Nat
  BY <1>1, <1>5, <1>7, <1>8
<1>10. k # NIL => b[k] = 0 /\ Dark(t, k) = 0 /\ Color(t, k) = "red" /\ Color(t, a) = "black"
  <2> SUFFICES ASSUME k # NIL
               PROVE  b[k] = 0 /\ Dark(t, k) = 0 /\ Color(t, k) = "red" /\ Color(t, a) = "black"
    OBVIOUS
  <2>1. k \in U /\ b[k] = 0
    BY <1>5, <1>8, <1>9
  <2> HIDE DEF k
  <2>2. Kid(t, k, side) \in U \cup {NIL} /\ b[Kid(t, k, side)] \in Nat
    BY <1>2, <1>7, <2>1
  <2>3. Dark(t, k) = 0
    BY <1>7, <1>8, <2>1, <2>2
  <2>4. Color(t, k) = "red"
    BY <1>1, <2>1, <2>3 DEF Dark, Colors
  <2>5. Color(t, a) # "red"
    BY <2>4 DEF Calm, k
  <2>6. QED
    BY <1>1, <2>1, <2>3, <2>4, <2>5 DEF Colors
<1>11. \A i \in V, x \in Sides : k # NIL => Kid(t, i, x) # k
  BY <1>1, <1>2
<1> HIDE DEF k, up, z
<1>12. Calm(w, V, NIL)
  <2>1. Color(w, w.root) # "red"
    <3>1. CASE up = NIL
      BY <1>4, <1>5, <1>6, <3>1
    <3>2. CASE up # NIL
      <4>1. t.root \in V \cup {NIL} /\ w.root = t.root
        BY <1>2, <1>4, <3>2
      <4>2. Color(t, t.root) # "red"
        BY <1>1, <1>5, <4>1 DEF Calm
      <4>3. QED
        BY <1>6, <4>1, <4>2
    <3>3. QED
      BY <3>1, <3>2
  <2>2. ASSUME NEW i \in V, NEW x \in Sides, Color(w, i) = "red", Color(w, Kid(w, i, x)) = "red"
        PROVE  FALSE
    <3>1. Color(t, i) = "red"
      BY <1>6, <2>2
    <3>2. ~ (i = up /\ x = z)
      BY <1>4, <1>5, <1>6, <2>2
    <3>3. Kid(w, i, x) = Kid(t, i, x) /\ Kid(t, i, x) \in V \cup {NIL}
      BY <1>2, <1>3, <1>4, <3>2
    <3>4. Color(t, Kid(t, i, x)) = "red"
      BY <1>6, <2>2, <3>3
    <3>5. QED
      BY <1>5, <3>1, <3>4 DEF Calm
  <2>3. QED
    BY <2>1, <2>2 DEF Calm
<1>13. Levelled(w, V, c, q, z)
  <2>1. c \in [V \cup {NIL} -> Nat] /\ c[NIL] = 0
    BY <1>1, <1>7
  <2>2. \A i \in V \cup {NIL} : c[i] = IF i = k /\ k # NIL THEN 1 ELSE b[i]
    OBVIOUS
  <2> HIDE DEF c
  <2>3. \A i \in V : Dark(w, i) = IF i = k THEN 1 ELSE Dark(t, i)
    BY <1>6 DEF Dark
  <2>4. ASSUME NEW i \in V, NEW x \in Sides
        PROVE  c[Kid(w, i, x)] + Owed(q, z, i, x) = b[Kid(t, i, x)]
    <3>1. CASE i = up /\ x = z
      <4>1. Kid(w, i, x) = k /\ Kid(t, i, x) = a
        BY <1>3, <1>4, <3>1
      <4>2. CASE k = NIL
        <5>1. Owed(q, z, i, x) = Dark(t, a)
          BY <1>1, <3>1, <4>2 DEF Owed, Dark
        <5>2. QED
          BY <1>8, <1>9, <2>1, <4>1, <4>2, <5>1
      <4>3. CASE k # NIL
        <5>1. Owed(q, z, i, x) = 0 /\ Dark(t, a) = 1 /\ c[k] = 1
          BY <1>1, <1>5, <1>10, <2>2, <4>3 DEF Owed, Dark
        <5>2. QED
          BY <1>9, <4>1, <5>1
      <4>4. QED
        BY <4>2, <4>3
    <3>2. CASE ~ (i = up /\ x = z)
      <4>1. Kid(w, i, x) = Kid(t, i, x) /\ Kid(t, i, x) \in V \cup {NIL}
        BY <1>2, <1>3, <1>4, <3>2
      <4>2. Owed(q, z, i, x) = 0
        BY <1>1, <3>2 DEF Owed
      <4>3. c[Kid(t, i, x)] = b[Kid(t, i, x)] /\ b[Kid(t, i, x)] \in Nat
        BY <1>7, <1>11, <2>2, <4>1
      <4>4. QED
        BY <4>1, <4>2, <4>3
    <3>3. QED
      BY <3>1, <3>2
  <2>5. ASSUME NEW i \in V, NEW x \in Sides
        PROVE  c[i] = c[Kid(w, i, x)] + Owed(q, z, i, x) + Dark(w, i)
    <3>1. b[i] = b[Kid(t, i, x)] + Dark(t, i) /\ b[Kid(t, i, x)] \in Nat /\ Dark(t, i) \in Nat
      BY <1>2, <1>7, <1>8
    <3>2. c[Kid(w, i, x)] + Owed(q, z, i, x) = b[Kid(t, i, x)]
      BY <2>4
    <3>3. CASE i = k
      <4>1. k # NIL /\ c[i] = 1 /\ Dark(w, i) = 1 /\ b[i] = 0
        BY <1>1, <1>10, <2>2, <2>3, <3>3
      <4>2. QED
        BY <3>1, <3>2, <4>1
    <3>4. CASE i # k
      <4>1. c[i] = b[i] /\ Dark(w, i) = Dark(t, i)
        BY <2>2, <2>3, <3>4
      <4>2. QED
        BY <3>1, <3>2, <4>1
    <3>5. QED
      BY <3>3, <3>4
  <2>6. QED
    BY <2>1, <2>5 DEF Levelled
<1>14. QED
  BY <1>12, <1>13 DEF k, up, z

\* A block that takes the place and color of another.
LEMMA RenamedLevels ==
    ASSUME NEW t, NEW u, NEW U \in SUBSET Index, Joined(t, U), NEW a \in U, NEW n \in Index \ U,
           Renamed(t, u, U, a, n), \A i \in U : Color(u, Instead(i, a, n)) = Color(t, i),
           NEW b, NEW q \in U \cup {NIL}, NEW z, Levelled(t, U, b, q, z), Calm(t, U, NIL)
    PROVE  /\ Calm(u, (U \ {a}) \cup {n}, NIL)
           /\ \E c : Levelled(u, (U \ {a}) \cup {n}, c, Instead(q, a, n), z)
<1> DEFINE V == (U \ {a}) \cup {n}
           New(i) == Instead(i, a, n)
           c == [j \in V \cup {NIL} |-> IF j = n THEN b[a] ELSE b[j]]
<1>1. /\ NIL \notin U /\ NIL # n /\ \A i \in U, s \in Sides : Kid(t, i, s) \in U \cup {NIL}
      /\ t.root \in U \cup {NIL}
  BY NilNoBlock DEF Joined
<1>2. \A j \in V : \E i \in U : j = New(i)
  BY DEF Instead
<1>3. /\ New(NIL) = NIL
      /\ \A i \in U : New(i) \in V
      /\ \A i \in U \cup {NIL}, j \in U \cup {NIL} : New(i) = New(j) => i = j
  BY <1>1 DEF Instead
<1>4. /\ u.root = New(t.root)
      /\ \A i \in U, s \in Sides : Kid(u, New(i), s) = New(Kid(t, i, s))
  BY DEF Renamed
<1>5. \A i \in U \cup {NIL} : Color(u, New(i)) = Color(t, i)
  BY <1>3 DEF Color
<1>6. /\ b \in [U \cup {NIL} -> Nat] /\ b[NIL] = 0
      /\ \A i \in U, s \in Sides : b[i] = b[Kid(t, i, s)] + Owed(q, z, i, s) + Dark(t, i)
  BY DEF Levelled
<1>7. /\ c \in [V \cup {NIL} -> Nat] /\ c[NIL] = 0
      /\ \A i \in U \cup {NIL} : c[New(i)] = b[i]
  <2>1. c \in [V \cup {NIL} -> Nat] /\ c[NIL] = 0
    BY <1>1, <1>6
  <2>2. \A i \in U \cup {NIL} : c[New(i)] = b[i]
    BY <1>1 DEF Instead
  <2>3. QED
    BY <2>1, <2>2
<1>8. Color(t, NIL) = "black"
  BY DEF Color
<1> HIDE DEF V, New, c
<1>9. Calm(u, V, NIL)
  <2>1. Color(u, u.root) # "red"
    BY <1>1, <1>4, <1>5, <1>8 DEF Calm
  <2>2. ASSUME NEW j \in V, NEW s \in Sides, Color(u, j) = "red", Color(u, Kid(u, j, s)) = "red"
        PROVE  FALSE
    <3>1. PICK i \in U : j = New(i)
      BY <1>2
    <3>2. Color(t, i) = "red" /\ Color(t, Kid(t, i, s)) = "red"
      BY <1>1, <1>4, <1>5, <2>2, <3>1
    <3>3. QED
      BY <1>8, <3>2 DEF Calm
  <2>3. QED
    BY <2>1, <2>2 DEF Calm
<1>10. Levelled(u, V, c, New(q), z)
  <2>1. ASSUME NEW j \in V, NEW s \in Sides
        PROVE  c[j] = c[Kid(u, j, s)] + Owed(New(q), z, j, s) + Dark(u, j)
    <3>1. PICK i \in U : j = New(i)
      BY <1>2
    <3>2. c[j] = b[i] /\ c[Kid(u, j, s)] = b[Kid(t, i, s)]
      BY <1>1, <1>4, <1>7, <3>1
    <3>3. Dark(u, j) = Dark(t, i)
      BY <1>5, <3>1 DEF Dark
    <3>4. Owed(New(q), z, j, s) = Owed(q, z, i, s)
      BY <1>3, <3>1 DEF Owed
    <3>5. QED
      BY <1>6, <3>2, <3>3, <3>4
  <2>2. QED
    BY <1>7, <2>1 DEF Levelled
<1>11. QED
  BY <1>9, <1>10 DEF V, New

\* The tree u is level and calm but for the place that a cut leaves.
CutLeaves(u, V, cut) ==
    /\ Calm(u, V, NIL)
    /\ \E z \in Sides :
        /\ \E c : Levelled(u, V, c,
                          IF cut.child = NIL /\ cut.color = "black" THEN cut.parent ELSE NIL, z)
        /\ cut.child = NIL /\ cut.parent # NIL => Kid(u, cut.parent, z) = NIL

\* A node with at most one kid is cut out.
LEMMA SplicedBalanced ==
    ASSUME NEW t \in Trees, NEW U \in SUBSET Index, IsTree(t, U), NEW a \in U, ~ IsInternal(t, a),
           NEW b, NEW s, Levelled(t, U, b, NIL, s), Calm(t, U, NIL),
           NEW u, SameLinks(Cut(t, a).tree, u),
           \A i \in (U \ {a}) \cup {NIL} : Color(u, i) = IF i = Cut(t, a).child THEN "black"
                                                         ELSE Color(Cut(t, a).tree, i)
    PROVE  CutLeaves(u, U \ {a}, Cut(t, a))
<1> DEFINE cut == Spliced(t, a)
           up == Up(t, a)
           side == IF Kid(t, a, "left") # NIL THEN "left" ELSE "right"
           k == Kid(t, a, side)
           z == Place(t, up, a)
<1>1. Cut(t, a) = cut
  BY DEF Cut
<1>2. /\ cut.tree \in Trees /\ cut.parent = up
      /\ cut.child = k /\ Lifted(t, cut.tree, a, k)
  BY SplicedLinks
<1>3. cut.color = Color(t, a)
  BY NilNoBlock DEF Spliced, Color
<1>4. SameColors(t, cut.tree)
  BY SplicedColors
<1> HIDE DEF cut
<1>5. side \in Sides /\ Kid(t, a, Across(side)) = NIL
  BY DEF Sides, Across, IsInternal, Kid
<1>6. /\ NIL \notin U /\ NIL \notin Index /\ (U \ {a}) \cup {NIL} \subseteq Links
      /\ k \in U \cup {NIL} /\ up \in U \cup {NIL} /\ up # a /\ z \in Sides
      /\ (up # NIL => up \in U)
  <2>1. up # a
    BY Apart DEF IsTree
  <2>2. z \in Sides
    BY DEF Place, Sides
  <2>3. side \in Sides
    BY <1>5
  <2> HIDE DEF side
  <2>4. k \in U \cup {NIL} /\ up \in U \cup {NIL}
    BY <2>3 DEF IsTree, Joined
  <2>5. QED
    BY <2>1, <2>2, <2>4, NilNoBlock DEF Links
<1> HIDE DEF side
<1>7. Lifted(t, u, a, k)
  <2>1. /\ u.root = cut.tree.root
        /\ \A i \in Index : /\ Up(u, i) = Up(cut.tree, i)
                            /\ \A x \in Sides : Kid(u, i, x) = Kid(cut.tree, i, x)
    BY <1>1 DEF SameLinks
  <2>2. QED
    BY <1>2, <2>1 DEF Lifted
<1>8. \A i \in (U \ {a}) \cup {NIL} : Color(u, i) = IF i = k THEN "black" ELSE Color(t, i)
  BY <1>1, <1>2, <1>4, <1>6, SameColorsSame
<1>9. /\ Calm(u, U \ {a}, NIL)
      /\ \E c : Levelled(u, U \ {a}, c, IF k = NIL /\ Color(t, a) = "black" THEN up ELSE NIL, z)
  BY <1>5, <1>7, <1>8, LiftedLevels
<1>10. up # NIL => Kid(u, up, z) = k
  BY <1>6, <1>7 DEF Lifted
<1>11. QED
  BY <1>1, <1>2, <1>3, <1>6, <1>9, <1>10 DEF CutLeaves

\* The successor is cut out and takes the place and color of the node.
LEMMA TransplantedBalanced ==
    ASSUME NEW t \in Trees, NEW U \in SUBSET Index, IsTree(t, U), NEW a \in U, IsInternal(t, a),
           NEW b, NEW s, Levelled(t, U, b, NIL, s), Calm(t, U, NIL),
           NEW u, SameLinks(Cut(t, a).tree, u),
           \A i \in (U \ {a}) \cup {NIL} : Color(u, i) = IF i = Cut(t, a).child THEN "black"
                                                         ELSE Color(Cut(t, a).tree, i)
    PROVE  CutLeaves(u, U \ {a}, Cut(t, a))
<1> DEFINE cut == Cut(t, a)
           n == Outermost(t, t.node[a].right, "left")
           p == Up(t, n)
           k == Kid(t, n, "right")
           W == U \ {n}
           z == Place(t, p, n)
           f == [i \in Index |-> IF i = k THEN "black" ELSE Color(t, i)]
           New(i) == Instead(i, a, n)
<1>1. /\ NIL \notin U /\ NIL \notin Index /\ U \cup {NIL} \subseteq Links /\ Joined(t, U)
      /\ \A i \in Links : Color(t, i) \in Colors
  BY NilNoBlock, ColorTyped DEF IsTree, Links
<1>2. n \in U \ {a} /\ Kid(t, n, "left") = NIL /\ n # t.root /\ n # Up(t, a)
  BY SuccessorLinks
<1>3. SucceedsNode(t, a, n)
  BY SuccessorSucceeds
<1>4. /\ cut.tree \in Trees /\ Without(t, cut.tree, U, a)
  BY CutTree
<1>5. Cut(t, a) = Transplanted(t, a)
  BY DEF Cut
<1>6. /\ cut.color = t.node[n].color
      /\ \A j \in Index : cut.tree.node[j].color = t.node[IF j = n THEN a ELSE j].color
  BY CutColors
<1> HIDE DEF n
<1>7. cut.child = k /\ cut.parent = IF p = a THEN n ELSE p
  BY <1>3, <1>5, TransplantedLinks
<1>8. PICK v \in Trees : Lifted(t, v, n, k) /\ Renamed(v, cut.tree, W, a, n)
  <2>1. ~ \E side \in Sides : Kid(t, a, Across(side)) = NIL
    BY AcrossSides DEF IsInternal, Kid, Sides
  <2>2. QED
    BY <1>4, <2>1 DEF Without, n
<1>9. Sides = {"left", "right"} /\ Across("right") = "left" /\ "right" \in Sides
  BY DEF Sides, Across
<1>10. /\ k \in (U \cup {NIL}) \ {n, a} /\ p \in U /\ p # n /\ z \in Sides
       /\ Kid(t, n, Across("right")) = NIL
  <2>1. k \in U \cup {NIL} /\ (k # NIL => Up(t, k) = n) /\ p \in U
    BY <1>1, <1>2, <1>9 DEF Joined
  <2>2. k # n /\ p # n
    BY <1>1, <1>2, <1>9, Apart DEF IsTree
  <2>3. z \in Sides
    BY DEF Place, Sides
  <2>4. QED
    BY <1>1, <1>2, <1>9, <2>1, <2>2, <2>3
<1> HIDE DEF cut, p, k, z
<1>11. f \in [Index -> Colors]
  BY <1>1 DEF Colors, Links
<1>12. \A i \in Index : f[i] = IF i = k THEN "black" ELSE Color(t, i)
  OBVIOUS
<1> HIDE DEF f
<1>13. PICK w \in Trees : SameLinks(v, w) /\ \A i \in Index : Color(w, i) = f[i]
  BY <1>11, RecoloredExists
<1>14. Lifted(t, w, n, k)
  BY <1>8, <1>13 DEF Lifted, SameLinks
<1>15. W \in SUBSET Index /\ NIL \notin W /\ a \in W /\ n \in Index \ W /\ U \ {a} = (W \ {a}) \cup {n}
  BY <1>1, <1>2
<1>16. Color(t, NIL) = "black" /\ Color(w, NIL) = "black" /\ Color(u, NIL) = "black"
  BY DEF Color
<1>17. \A i \in W \cup {NIL} : Color(w, i) = IF i = k THEN "black" ELSE Color(t, i)
  BY <1>12, <1>13, <1>15, <1>16
<1>18. /\ Calm(w, W, NIL)
       /\ \E c : Levelled(w, W, c, IF k = NIL /\ Color(t, n) = "black" THEN p ELSE NIL, z)
  <2>1. Lifted(t, w, n, Kid(t, n, "right"))
    BY <1>14 DEF k
  <2>2. \A i \in (U \ {n}) \cup {NIL} :
            Color(w, i) = IF i = Kid(t, n, "right") THEN "black" ELSE Color(t, i)
    BY <1>17 DEF k
  <2>3. n \in U
    BY <1>2
  <2>4. QED
    BY <1>9, <1>10, <2>1, <2>2, <2>3, LiftedLevels DEF k, p, z
<1> DEFINE q == IF k = NIL /\ Color(t, n) = "black" THEN p ELSE NIL
<1>19. PICK c : Levelled(w, W, c, q, z)
  BY <1>18
<1>20. q \in W \cup {NIL}
  BY <1>10
<1>21. IsTree(w, W)
  <2>1. n \in U /\ Lifted(t, w, n, Kid(t, n, "right"))
    BY <1>2, <1>14 DEF k
  <2>2. QED
    BY <1>9, <1>10, <2>1, LiftedTree
<1> HIDE DEF W, q
<1>22. Renamed(w, u, W, a, n)
  <2>1. \A i \in W : i \in Index /\ New(i) \in Index
    BY <1>15 DEF Instead
  <2>2. /\ cut.tree.root = New(v.root)
        /\ \A i \in W : /\ Up(cut.tree, New(i)) = New(Up(v, i))
                        /\ \A x \in Sides : Kid(cut.tree, New(i), x) = New(Kid(v, i, x))
    BY <1>8 DEF Renamed
  <2>3. /\ u.root = cut.tree.root
        /\ \A i \in Index : /\ Up(u, i) = Up(cut.tree, i)
                            /\ \A x \in Sides : Kid(u, i, x) = Kid(cut.tree, i, x)
    BY DEF SameLinks, cut
  <2>4. /\ w.root = v.root
        /\ \A i \in Index : /\ Up(w, i) = Up(v, i)
                            /\ \A x \in Sides : Kid(w, i, x) = Kid(v, i, x)
    BY <1>13 DEF SameLinks
  <2> HIDE DEF New
  <2>5. /\ u.root = New(w.root)
        /\ \A i \in W : /\ Up(u, New(i)) = New(Up(w, i))
                        /\ \A x \in Sides : Kid(u, New(i), x) = New(Kid(w, i, x))
    BY <2>1, <2>2, <2>3, <2>4
  <2>6. QED
    BY <2>5 DEF Renamed, New
<1>23. \A i \in (U \ {a}) \cup {NIL} : Color(u, i) = IF i = k THEN "black" ELSE Color(cut.tree, i)
  BY <1>7 DEF cut
<1>24. \A i \in W : Color(u, New(i)) = Color(w, i)
  <2>1. \A j \in Index : Color(cut.tree, j) = Color(t, IF j = n THEN a ELSE j)
    BY <1>1, <1>6, <1>15 DEF Color
  <2>2. CASE TRUE
    <3>1. Color(u, n) = Color(t, a) /\ Color(w, a) = Color(t, a)
      BY <1>2, <1>10, <1>15, <1>17, <1>23, <2>1
    <3>2. ASSUME NEW i \in W, i # a PROVE Color(u, i) = Color(w, i)
      <4>1. i \in U \ {a} /\ i # n /\ i \in Index
        BY <1>15, <3>2
      <4>2. QED
        BY <1>17, <1>23, <2>1, <4>1
    <3>3. QED
      BY <3>1, <3>2 DEF Instead
  <2>3. QED
    BY <2>2
<1>25. /\ Calm(u, (W \ {a}) \cup {n}, NIL)
       /\ \E d : Levelled(u, (W \ {a}) \cup {n}, d, Instead(q, a, n), z)
  <2>1. Joined(w, W)
    BY <1>21 DEF IsTree
  <2>2. QED
    BY <1>15, <1>18, <1>19, <1>20, <1>22, <1>24, <2>1, RenamedLevels
<1>26. Instead(q, a, n) = IF cut.child = NIL /\ cut.color = "black" THEN cut.parent ELSE NIL
  <2>1. cut.color = Color(t, n)
    BY <1>1, <1>2, <1>6 DEF Color
  <2>2. QED
    BY <1>1, <1>2, <1>7, <2>1 DEF Instead, q
<1>27. cut.child = NIL => Kid(u, cut.parent, z) = NIL
  <2> SUFFICES ASSUME k = NIL PROVE Kid(u, New(p), z) = NIL
    BY <1>7 DEF Instead
  <2>1. Kid(w, p, z) = k /\ p \in W
    BY <1>10, <1>14 DEF Lifted, p, z, W
  <2>2. Kid(u, New(p), z) = New(k)
    BY <1>10, <1>22, <2>1 DEF Renamed
  <2>3. QED
    BY <1>1, <2>2 DEF Instead
<1>28. QED
  BY <1>10, <1>15, <1>25, <1>26, <1>27 DEF CutLeaves, cut

\* A removal leaves the paths equal, or the place of the cut one short.
LEMMA RemoveBalanced ==
    ASSUME TreeInv, Balanced(tree, used, repair), NEW index \in Index, RemoveByIndex(index)
    PROVE  Balanced(tree', used', repair')
<1> DEFINE cut == Cut(tree, index)
           closed == SetColor(cut.tree, cut.child, "black")
           max == MaxWithout(tree, index)
           u == [closed EXCEPT !.max = max]
           V == used \ {index}
<1>1. /\ index \in used /\ tree' = u /\ used' = V /\ repair = Done
      /\ repair' = IF cut.child = NIL /\ cut.color = "black" THEN Removing(NIL, cut.parent) ELSE Done
  BY DEF RemoveByIndex
<1>2. /\ tree \in Trees /\ used \in SUBSET Index /\ IsTree(tree, used) /\ NIL \notin used
      /\ NIL \notin Index /\ "black" \in Colors
  BY BalanceKnown
<1>3. Calm(tree, used, NIL) /\ \E b, s : Levelled(tree, used, b, NIL, s)
  BY <1>1 DEF Balanced, Excused, Short, Done
<1>4. PICK b, s : Levelled(tree, used, b, NIL, s)
  BY <1>3
<1>5. /\ cut.tree \in Trees /\ cut.child \in Links
      /\ cut.parent \in V \cup {NIL}
  BY <1>1, <1>2, CutTree
<1> HIDE DEF cut, max
<1>6. /\ closed \in Trees /\ SameLinks(cut.tree, closed)
      /\ \A j \in Links : Color(closed, j) = IF j = cut.child /\ cut.child # NIL THEN "black"
                                             ELSE Color(cut.tree, j)
  BY <1>2, <1>5, Painted
<1> HIDE DEF closed
<1>7. u.root = closed.root /\ u.node = closed.node
  BY <1>6 DEF Trees
<1> HIDE DEF u
<1>8. SameLinks(cut.tree, u)
  BY <1>6, <1>7 DEF SameLinks, Up, Kid
<1>9. V \cup {NIL} \subseteq Links /\ NIL \notin V
  BY <1>2 DEF Links
<1>10. \A i \in V \cup {NIL} : Color(u, i) = IF i = cut.child THEN "black" ELSE Color(cut.tree, i)
  BY <1>6, <1>7, <1>9 DEF Color
<1>11. CutLeaves(u, V, cut)
  <2>1. CASE IsInternal(tree, index)
    BY <1>1, <1>2, <1>3, <1>4, <1>8, <1>10, <2>1, TransplantedBalanced DEF cut
  <2>2. CASE ~ IsInternal(tree, index)
    BY <1>1, <1>2, <1>3, <1>4, <1>8, <1>10, <2>2, SplicedBalanced DEF cut
  <2>3. QED
    BY <2>1, <2>2
<1>12. TreeInv'
  BY RemoveTree
<1>13. \A i \in V, x \in Sides : Kid(u, i, x) \in V \cup {NIL}
  <2>1. IsTree(u, V)
    BY <1>1, <1>12 DEF TreeInv
  <2>2. QED
    BY <2>1 DEF IsTree, Joined
<1> HIDE DEF V
<1>14. PICK z \in Sides :
        /\ \E c : Levelled(u, V, c, IF cut.child = NIL /\ cut.color = "black" THEN cut.parent ELSE NIL, z)
        /\ cut.child = NIL /\ cut.parent # NIL => Kid(u, cut.parent, z) = NIL
  BY <1>11 DEF CutLeaves
<1>15. Calm(u, V, NIL)
  BY <1>11 DEF CutLeaves
<1>16. CASE cut.child = NIL /\ cut.color = "black"
  <2>1. PICK c : Levelled(u, V, c, cut.parent, z)
    BY <1>14, <1>16
  <2>2. /\ cut.parent # NIL => /\ cut.parent \in V
                               /\ Kid(u, cut.parent, "left") \in V \cup {NIL}
                               /\ Kid(u, cut.parent, "right") \in V \cup {NIL}
        /\ cut.parent # NIL => Kid(u, cut.parent, z) = NIL
    BY <1>5, <1>13, <1>14, <1>16 DEF Sides
  <2>3. Color(u, NIL) = "black"
    BY DEF Color
  <2>4. Balanced(u, V, Removing(NIL, cut.parent))
    BY <1>9, <1>15, <2>1, <2>2, <2>3, RemovingBalanced
  <2>5. QED
    BY <1>1, <1>16, <2>4
<1>17. CASE ~ (cut.child = NIL /\ cut.color = "black")
  <2>1. PICK c : Levelled(u, V, c, NIL, z)
    BY <1>14, <1>17
  <2>2. Balanced(u, V, Done)
    BY <1>9, <1>15, <2>1, DoneBalanced
  <2>3. QED
    BY <1>1, <1>17, <2>2
<1>18. QED
  BY <1>16, <1>17

-----------------------------------------------------------------------------
(* The inductive invariant.                                                *)

BalanceInv == TreeInv /\ Balanced(tree, used, repair)

LEMMA NextBalanced ==
    ASSUME BalanceInv, [Next]_vars
    PROVE  BalanceInv'
<1>1. TreeInv /\ Balanced(tree, used, repair)
  BY DEF BalanceInv
<1>2. TreeInv'
  BY <1>1, NextTree
<1>3. Balanced(tree', used', repair')
  <2>1. CASE UNCHANGED vars
    <3>1. tree' = tree /\ used' = used /\ repair' = repair
      BY <2>1 DEF vars
    <3>2. QED
      BY <1>1, <3>1
  <2>2. ASSUME NEW index \in Index, NEW value \in Values, InsertRoot(index, value)
        PROVE  Balanced(tree', used', repair')
    BY <1>1, <2>2, InsertRootBalanced
  <2>3. ASSUME NEW index \in Index, NEW value \in Values, InsertLeaf(index, value)
        PROVE  Balanced(tree', used', repair')
    BY <1>1, <2>3, InsertLeafBalanced
  <2>4. ASSUME NEW index \in Index, RemoveByIndex(index)
        PROVE  Balanced(tree', used', repair')
    BY <1>1, <2>4, RemoveBalanced
  <2>5. CASE InsertFix
    BY <1>1, <2>5, InsertFixRootBalanced, InsertFixNothingBalanced, InsertFixRecolorBalanced,
       InsertFixOuterBalanced, InsertFixInnerBalanced DEF InsertFix
  <2>6. CASE RemoveFix
    BY <1>1, <2>6, RemoveFixRootBalanced, RemoveFixRedSiblingBalanced, RemoveFixOuterBalanced,
       RemoveFixInnerBalanced, RemoveFixAbsorbBalanced, RemoveFixPropagateBalanced DEF RemoveFix
  <2>7. QED
    BY <2>1, <2>2, <2>3, <2>4, <2>5, <2>6 DEF Next
<1>4. QED
  BY <1>2, <1>3 DEF BalanceInv

\* In every state of the tree, also inside the repairs, each block has a level: as many
\* black nodes are on any path down from it, once the place under repair counts one more.
THEOREM BalanceInductive == Spec => []BalanceInv
<1>1. Init => BalanceInv
  BY InitTree, InitBalanced DEF BalanceInv
<1>2. BalanceInv /\ [Next]_vars => BalanceInv'
  BY NextBalanced
<1>3. QED
  BY <1>1, <1>2, PTL DEF Spec

-----------------------------------------------------------------------------
(* The black heights that the property counts are the levels.              *)

\* The heights at a block, from those at its kids.
Heights(g, i) ==
    LET Debt(side) == IF /\ repair.op = "remove" /\ repair.parent = i
                         /\ side = FixedSide
                      THEN 1 ELSE 0
        BelowOn(side) == {h + Debt(side) : h \in g[tree.node[i][side]]}
        own == IF tree.node[i].color = "black" THEN 1 ELSE 0
    IN  {h + own : h \in BelowOn("left") \cup BelowOn("right")}

\* The recursion of HeightsWithDebt.
LEMMA HeightsWalk ==
    ASSUME tree \in Trees
    PROVE  \E height :
            /\ HeightsWithDebt = height[Size][tree.root]
            /\ \A n \in 0 .. Size, i \in Links :
                height[n][i] = IF i = NIL \/ n = 0 THEN {0} ELSE Heights(height[n - 1], i)
<1> DEFINE Eq(height) == height = [fuel \in 0 .. Size |-> [i \in Links |->
                IF i = NIL \/ fuel = 0 THEN {0} ELSE Heights(height[fuel - 1], i)]]
           height == CHOOSE height : Eq(height)
           S == [Links -> SUBSET Nat]
           Step(p) == [i \in Links |-> IF i = NIL THEN {0} ELSE Heights(p, i)]
           step == [p \in S |-> Step(p)]
           none == [i \in Links |-> {0}]
<1>1. HeightsWithDebt = height[Size][tree.root]
  BY DEF HeightsWithDebt, Heights
<1>2. Size \in Nat
  BY TreeAssumption, FS_CardinalityType DEF Size
<1>3. none \in S
  OBVIOUS
<1>4. step \in [S -> S]
  <2>1. ASSUME NEW p \in S, NEW i \in Links, i # NIL PROVE Heights(p, i) \in SUBSET Nat
    <3>1. i \in Index
      BY <2>1 DEF Links
    <3>2. \A side \in Sides : tree.node[i][side] \in Links
      BY <3>1, LinksTyped DEF Kid
    <3>3. p[tree.node[i]["left"]] \in SUBSET Nat /\ p[tree.node[i]["right"]] \in SUBSET Nat
      BY <3>2 DEF Sides
    <3>4. QED
      BY <3>3 DEF Heights
  <2>2. ASSUME NEW p \in S PROVE Step(p) \in S
    <3>1. \A i \in Links : i # NIL => Heights(p, i) \in SUBSET Nat
      BY <2>1
    <3>2. {0} \in SUBSET Nat
      OBVIOUS
    <3>3. QED
      BY <3>1, <3>2
  <2> HIDE DEF S, Step
  <2>3. QED
    BY <2>2
<1>5. \E f : Eq(f)
  <2> HIDE DEF step, none, S
  <2>1. PICK f \in [0 .. Size -> S] : IsIteration(f, none, step, Size)
    BY <1>2, <1>3, <1>4, IterationExists
  <2>2. f = [n \in 0 .. Size |-> IF n = 0 THEN none ELSE step[f[n - 1]]]
    BY <2>1 DEF IsIteration
  <2>3. ASSUME NEW n \in 0 .. Size
        PROVE  (IF n = 0 THEN none ELSE step[f[n - 1]]) = [i \in Links |->
                IF i = NIL \/ n = 0 THEN {0} ELSE Heights(f[n - 1], i)]
    <3>1. CASE n = 0
      BY <3>1 DEF none
    <3>2. CASE n # 0
      <4>1. n - 1 \in 0 .. Size
        BY <1>2, <3>2
      <4>2. f[n - 1] \in S
        BY <4>1
      <4>3. step[f[n - 1]] = Step(f[n - 1])
        <5> HIDE DEF Step
        <5>1. QED
          BY <4>2 DEF step
      <4>4. QED
        BY <3>2, <4>3
    <3>3. QED
      BY <3>1, <3>2
  <2>4. Eq(f)
    BY <2>2, <2>3
  <2>5. QED
    BY <2>4
<1>6. Eq(height)
  <2> HIDE DEF Eq
  <2>1. QED
    BY <1>5
<1>7. ASSUME NEW n \in 0 .. Size, NEW i \in Links
      PROVE  height[n][i] = IF i = NIL \/ n = 0 THEN {0} ELSE Heights(height[n - 1], i)
  <2> HIDE DEF height
  <2>1. height[n] = [j \in Links |->
            IF j = NIL \/ n = 0 THEN {0} ELSE Heights(height[n - 1], j)]
    BY <1>6
  <2>2. QED
    BY <2>1
<1>8. QED
  BY <1>1, <1>7

\* One height at each block, its level.
LEMMA HeightsLevel ==
    ASSUME BalanceInv
    PROVE  \E h : HeightsWithDebt = {h}
<1> DEFINE w == Weights(tree, used)
<1>1. TreeInv /\ Balanced(tree, used, repair)
  BY DEF BalanceInv
<1>2. /\ tree \in Trees /\ used \in SUBSET Index /\ IsTree(tree, used) /\ Joined(tree, used)
      /\ NIL \notin used /\ used \cup {NIL} \subseteq Links
  BY <1>1, BalanceKnown
<1>3. PICK height :
            /\ HeightsWithDebt = height[Size][tree.root]
            /\ \A n \in 0 .. Size, i \in Links :
                height[n][i] = IF i = NIL \/ n = 0 THEN {0} ELSE Heights(height[n - 1], i)
  BY <1>2, HeightsWalk
<1>4. PICK b : Levelled(tree, used, b, Short(repair), Place(tree, repair.parent, repair.at))
  BY <1>1 DEF Balanced
<1>5. Size \in Nat
  BY TreeAssumption, FS_CardinalityType DEF Size
<1>6. Graded(tree, used, w) /\ \A i \in used : w[i] \in 1 .. Size
  BY <1>2, WeightsGraded
<1> HIDE DEF w
<1>7. \A i \in used, side \in Sides :
            /\ Kid(tree, i, side) \in used \cup {NIL}
            /\ Kid(tree, i, side) # NIL => w[Kid(tree, i, side)] < w[i]
  BY <1>2, <1>6, Apart DEF Joined
<1>8. ASSUME NEW i \in used, NEW g,
             \A side \in Sides : g[Kid(tree, i, side)] = {b[Kid(tree, i, side)]}
      PROVE  Heights(g, i) = {b[i]}
  <2> DEFINE Debt(side) == IF /\ repair.op = "remove" /\ repair.parent = i
                              /\ side = FixedSide
                           THEN 1 ELSE 0
             BelowOn(side) == {h + Debt(side) : h \in g[tree.node[i][side]]}
             own == IF tree.node[i].color = "black" THEN 1 ELSE 0
  <2>1. Heights(g, i) = {h + own : h \in BelowOn("left") \cup BelowOn("right")}
    BY DEF Heights
  <2>2. own = Dark(tree, i) /\ own \in Nat
    BY <1>2 DEF Dark, Color
  <2>3. \A side \in Sides :
            /\ Debt(side) = Owed(Short(repair), Place(tree, repair.parent, repair.at), i, side)
            /\ Debt(side) \in Nat
    BY <1>2 DEF Owed, Short, FixedSide, Place, Kid
  <2>4. \A side \in Sides : /\ b[i] = b[Kid(tree, i, side)] + Debt(side) + own
                            /\ b[Kid(tree, i, side)] \in Nat
    BY <1>4, <1>7, <2>2, <2>3 DEF Levelled
  <2>5. \A side \in Sides : BelowOn(side) = {b[Kid(tree, i, side)] + Debt(side)}
    <3>1. \A side \in Sides : g[tree.node[i][side]] = {b[Kid(tree, i, side)]}
      BY <1>8 DEF Kid
    <3> HIDE DEF Debt
    <3>2. QED
      BY <3>1
  <2>6. "left" \in Sides /\ "right" \in Sides
    BY DEF Sides
  <2> HIDE DEF Debt, BelowOn, own
  <2>7. BelowOn("left") \cup BelowOn("right")
            = {b[Kid(tree, i, "left")] + Debt("left"), b[Kid(tree, i, "right")] + Debt("right")}
    BY <2>5, <2>6
  <2>8. Heights(g, i) = {b[Kid(tree, i, "left")] + Debt("left") + own,
                         b[Kid(tree, i, "right")] + Debt("right") + own}
    BY <2>1, <2>7
  <2>9. QED
    BY <2>4, <2>6, <2>8
<1> DEFINE X == {n \in Nat : n <= Size =>
                    \A i \in used \cup {NIL} : i = NIL \/ w[i] <= n => height[n][i] = {b[i]}}
<1>9. \A n \in 0 .. Size : height[n][NIL] = {b[NIL]}
  BY <1>2, <1>3, <1>4 DEF Levelled
<1>10. 0 \in X
  <2>1. \A i \in used : ~ (w[i] <= 0)
    BY <1>5, <1>6
  <2>2. 0 \in 0 .. Size
    BY <1>5
  <2>3. QED
    BY <1>9, <2>1, <2>2
<1>11. ASSUME NEW n \in Nat, n \in X
       PROVE  n + 1 \in X
  <2> SUFFICES ASSUME n + 1 <= Size, NEW i \in used, w[i] <= n + 1
               PROVE  height[n + 1][i] = {b[i]}
    <3>1. n + 1 <= Size => n + 1 \in 0 .. Size
      BY <1>5
    <3>2. QED
      BY <1>9, <3>1
  <2>1. n + 1 \in 0 .. Size /\ n <= Size /\ n + 1 # 0 /\ (n + 1) - 1 = n
    BY <1>5
  <2>2. height[n + 1][i] = Heights(height[n], i)
    BY <1>2, <1>3, <2>1
  <2>3. \A side \in Sides : height[n][Kid(tree, i, side)] = {b[Kid(tree, i, side)]}
    <3>1. \A k \in used : w[k] \in Nat
      BY <1>5, <1>6
    <3>2. \A side \in Sides : Kid(tree, i, side) = NIL \/ w[Kid(tree, i, side)] <= n
      BY <1>7, <3>1
    <3>3. QED
      BY <1>7, <1>11, <2>1, <3>2
  <2>4. QED
    BY <1>8, <2>2, <2>3
<1>12. \A n \in Nat : n \in X
  <2> HIDE DEF X
  <2>1. QED
    BY <1>10, <1>11, NatSetInduction
<1>13. tree.root \in used \cup {NIL} /\ (tree.root = NIL \/ w[tree.root] <= Size)
  <2>1. tree.root \in used \cup {NIL}
    BY <1>2 DEF Joined
  <2>2. QED
    BY <1>5, <1>6, <2>1
<1>14. height[Size][tree.root] = {b[tree.root]}
  <2>1. Size \in X /\ Size <= Size
    BY <1>5, <1>12
  <2>2. QED
    BY <1>13, <2>1
<1>15. QED
  BY <1>3, <1>14

\* Between operations no red node has a red kid and every path down meets as many black
\* nodes; insert_fix and remove_fix break this at no place but the one they are at, and
\* only by the red or the black that the loops are there to move.
THEOREM TreeAlwaysBalanced == Spec => []BalancedUpToRepair
<1>1. BalanceInv => BalancedUpToRepair
  <2> SUFFICES ASSUME BalanceInv PROVE BalancedUpToRepair
    OBVIOUS
  <2>1. TreeInv /\ Balanced(tree, used, repair)
    BY DEF BalanceInv
  <2>2. /\ used \in SUBSET Index /\ NIL \notin Index
        /\ Calm(tree, used, Excused(repair))
    BY <2>1, BalanceKnown DEF Balanced
  <2>3. ASSUME NEW i, Color(tree, i) = "red", i = Excused(repair)
        PROVE  repair = Inserting(i)
    <3>1. i # NIL
      BY <2>3, RedIsBlock
    <3>2. repair.op = "insert" /\ repair.at = i
      BY <2>3, <3>1 DEF Excused
    <3>3. repair \in [op : {"insert"}, at : used, parent : {NIL}]
      BY <2>1, <3>2 DEF TreeInv, RepairSound, Done
    <3>4. QED
      BY <3>2, <3>3 DEF Inserting
  <2>4. ASSUME NEW i \in used, NEW side \in {"left", "right"},
               Color(tree, i) = "red", Color(tree, Child(tree, i, side)) = "red"
        PROVE  repair = Inserting(Child(tree, i, side))
    <3>1. Child(tree, i, side) = Kid(tree, i, side) /\ side \in Sides
      BY <2>2, ChildIsKid DEF Sides
    <3>2. Kid(tree, i, side) = Excused(repair)
      BY <2>2, <2>4, <3>1 DEF Calm
    <3>3. QED
      BY <2>3, <2>4, <3>1, <3>2
  <2>5. Color(tree, tree.root) = "red" => repair = Inserting(tree.root)
    BY <2>2, <2>3 DEF Calm
  <2>6. Cardinality(HeightsWithDebt) = 1
    <3>1. PICK h : HeightsWithDebt = {h}
      BY HeightsLevel
    <3>2. QED
      BY <3>1, FS_Singleton
  <2>7. QED
    BY <2>4, <2>5, <2>6 DEF BalancedUpToRepair
<1>2. QED
  BY <1>1, BalanceInductive, PTL

=============================================================================
