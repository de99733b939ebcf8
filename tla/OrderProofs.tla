---------------------------- MODULE OrderProofs ----------------------------
(***************************************************************************)
(* The order of the red-black tree, for every set of blocks and of values: *)
(* the walk in order is the priority list of the values, at every moment,  *)
(* and the stored maximum is its last entry.                               *)
(***************************************************************************)
EXTENDS TreeProofs

-----------------------------------------------------------------------------
(* The places of the blocks in order, and the spans below them.            *)

\* Places grow to the right.
Forth(side) == IF side = "right" THEN 1 ELSE - 1

\* s lists the blocks of U, each once; p[i] is the place of i in it.
Enumerates(s, U, p) ==
    /\ s \in Seq(Index)
    /\ p \in [U -> 1 .. Len(s)]
    /\ \A i \in U : s[p[i]] = i
    /\ \A n \in 1 .. Len(s) : s[n] \in U /\ p[s[n]] = n

\* What hangs from block i on a side fills the places from the one next to i to
\* e[i][side]: a kid ends there and begins next to i.
Fills(t, p, e, i, side) ==
    LET kid == Kid(t, i, side)
    IN  IF kid = NIL THEN e[i][side] = p[i]
        ELSE e[kid][side] = e[i][side] /\ e[kid][Across(side)] = p[i] + Forth(side)

\* e gives the first and the last place of what hangs from each block; the root has
\* all N places.
Spanned(t, U, p, e, N) ==
    /\ e \in [U -> [Sides -> Int]]
    /\ \A i \in U : e[i]["left"] <= p[i] /\ p[i] <= e[i]["right"]
    /\ \A i \in U, side \in Sides : Fills(t, p, e, i, side)
    /\ t.root # NIL => e[t.root]["left"] = 1 /\ e[t.root]["right"] = N

\* s lists the blocks of the tree in order.
Ordered(t, U, s) ==
    \E p : Enumerates(s, U, p) /\ \E e : Spanned(t, U, p, e, Len(s))

LEMMA ForthSides ==
    ASSUME NEW side \in Sides
    PROVE  Forth(side) \in Int /\ Forth(Across(side)) = - Forth(side)
BY DEF Sides, Across, Forth

\* Colors, values and the maximum do not matter.
LEMMA SameLinksSpanned ==
    ASSUME NEW t, NEW u, NEW U \in SUBSET Index, SameLinks(t, u),
           NEW p, NEW e, NEW N, Spanned(t, U, p, e, N)
    PROVE  Spanned(u, U, p, e, N)
<1>1. u.root = t.root /\ \A i \in U, side \in Sides : Kid(u, i, side) = Kid(t, i, side)
  BY DEF SameLinks
<1>2. \A i \in U, side \in Sides : Fills(u, p, e, i, side)
  BY <1>1 DEF Spanned, Fills
<1>3. QED
  BY <1>1, <1>2 DEF Spanned

\* A kid on a side of a block names the block and the side.
LEMMA KidNames ==
    ASSUME NEW t \in Trees, NEW U \in SUBSET Index, Joined(t, U), NEW i \in U
    PROVE  \A j \in U, s \in Sides : Kid(t, j, s) = i =>
                i # t.root /\ j = Up(t, i) /\ s = Place(t, Up(t, i), i)
<1> SUFFICES ASSUME NEW j \in U, NEW s \in Sides, Kid(t, j, s) = i
             PROVE  i # t.root /\ j = Up(t, i) /\ s = Place(t, Up(t, i), i)
  OBVIOUS
<1>1. i # NIL /\ j # NIL
  BY NilNoBlock
<1>2. Up(t, i) = j /\ i # t.root
  BY <1>1 DEF Joined
<1>3. QED
  BY <1>2, JoinedSides

\* A rotation keeps every place: the kid takes over the span of the block, whose own
\* span ends next to the kid.
LEMMA RotatedSpanned ==
    ASSUME NEW t \in Trees, NEW u \in Trees, NEW U \in SUBSET Index, IsTree(t, U),
           NEW g \in U, NEW side \in Sides, Kid(t, g, Across(side)) # NIL,
           Rotated(t, u, g, side),
           NEW N \in Int, NEW p \in [U -> Int], NEW e, Spanned(t, U, p, e, N)
    PROVE  \E f : Spanned(u, U, p, f, N)
<1> DEFINE far == Across(side)
           q == Kid(t, g, far)
           y == Kid(t, q, side)
           up == Up(t, g)
           place == Place(t, up, g)
           ends == [s \in Sides |-> IF s = far THEN p[q] - Forth(far) ELSE e[g][s]]
           f == [j \in U |-> IF j = q THEN e[g] ELSE IF j = g THEN ends ELSE e[j]]
<1>1. Joined(t, U) /\ NIL \notin U /\ \E h : Graded(t, U, h)
  BY NilNoBlock DEF IsTree
<1>2. far \in Sides /\ side # far /\ Across(far) = side /\ Sides = {side, far}
  BY AcrossSides
<1>3. q \in U /\ q # g /\ q # up /\ up # g /\ q # t.root /\ q # Kid(t, g, side)
  BY <1>1, <1>2, Apart
<1>4. y # q /\ y # g /\ (y # NIL => y \in U)
  <2> HIDE DEF q
  <2>1. y # q /\ (y # NIL => y \in U /\ Up(t, y) = q)
    BY <1>1, <1>2, <1>3, Apart DEF Joined
  <2>2. QED
    BY <1>1, <1>3, <2>1
<1>5. /\ \A j \in U, s \in Sides : Kid(t, j, s) = q => j = g /\ s = far
      /\ \A j \in U, s \in Sides : Kid(t, j, s) = g => j = up /\ s = place
      /\ up = NIL <=> g = t.root
  <2>1. Up(t, q) = g
    BY <1>1, <1>2 DEF Joined
  <2>2. \A s \in Sides : Kid(t, g, s) = q => s = far
    BY <1>2, <1>3
  <2> HIDE DEF q, far
  <2>3. QED
    BY <1>1, <1>3, <2>1, <2>2, KidNames DEF Joined
<1>6. /\ u.root = IF up = NIL THEN q ELSE t.root
      /\ \A j \in U, s \in Sides :
            Kid(u, j, s) = IF j = q /\ s = side THEN g
                           ELSE IF j = g /\ s = far THEN y
                           ELSE IF j = up /\ s = place THEN q ELSE Kid(t, j, s)
  BY DEF Rotated
<1>7. /\ \A j \in U, s \in Sides : p[j] \in Int /\ e[j][s] \in Int
      /\ Forth(far) \in Int /\ Forth(side) = - Forth(far)
      /\ e[q][far] = e[g][far] /\ e[q][side] = p[g] + Forth(far)
      /\ e[g]["left"] <= p[g] /\ p[g] <= e[g]["right"]
      /\ e[q]["left"] <= p[q] /\ p[q] <= e[q]["right"]
      /\ "left" \in Sides /\ "right" \in Sides
  <2>1. /\ \A j \in U, s \in Sides : p[j] \in Int /\ e[j][s] \in Int
        /\ \A j \in U : e[j]["left"] <= p[j] /\ p[j] <= e[j]["right"]
        /\ Fills(t, p, e, g, far)
    BY <1>2 DEF Spanned
  <2>2. e[q][far] = e[g][far] /\ e[q][side] = p[g] + Forth(far)
    BY <1>2, <2>1 DEF Fills
  <2>3. Forth(far) \in Int /\ Forth(side) = - Forth(far)
    BY <1>2, ForthSides
  <2>4. QED
    BY <1>3, <2>1, <2>2, <2>3 DEF Sides
<1>8. Fills(t, p, e, q, side)
  BY <1>3 DEF Spanned
<1>9. /\ ends \in [Sides -> Int] /\ ends[far] = p[q] - Forth(far) /\ ends[side] = e[g][side]
  BY <1>2, <1>3, <1>7
<1>10. /\ f \in [U -> [Sides -> Int]] /\ f[q] = e[g] /\ f[g] = ends
       /\ \A j \in U : j # q /\ j # g => f[j] = e[j]
  BY <1>3, <1>9 DEF Spanned
<1>11. ends["left"] <= p[g] /\ p[g] <= ends["right"] /\ e[g]["left"] <= p[q] /\ p[q] <= e[g]["right"]
  <2> HIDE DEF ends, q
  <2>1. CASE side = "left"
    <3>1. far = "right" /\ Forth(far) = 1
      BY <2>1 DEF Across, Forth
    <3>2. QED
      BY <1>3, <1>7, <1>9, <2>1, <3>1
  <2>2. CASE side = "right"
    <3>1. far = "left" /\ Forth(far) = - 1
      BY <2>2 DEF Across, Forth
    <3>2. QED
      BY <1>3, <1>7, <1>9, <2>2, <3>1
  <2>3. QED
    BY <2>1, <2>2 DEF Sides
<1> HIDE DEF far, q, y, up, place, f, ends
<1>12. ASSUME NEW j \in U, NEW s \in Sides
       PROVE  Fills(u, p, f, j, s)
  <2>1. CASE j = q /\ s = side
    <3>1. Kid(u, q, side) = g /\ g # NIL
      BY <1>1, <1>3, <1>6, <2>1
    <3>2. f[g][side] = f[q][side] /\ f[g][far] = p[q] + Forth(side)
      BY <1>3, <1>7, <1>9, <1>10
    <3>3. QED
      BY <2>1, <3>1, <3>2 DEF Fills, far
  <2>2. CASE j = g /\ s = far
    <3>1. Kid(u, g, far) = y
      BY <1>2, <1>3, <1>6, <2>2
    <3>2. CASE y = NIL
      <4>1. e[q][side] = p[q]
        BY <1>8, <3>2 DEF Fills, y
      <4>2. f[g][far] = p[g]
        BY <1>3, <1>7, <1>9, <1>10, <4>1
      <4>3. QED
        BY <2>2, <3>1, <3>2, <4>2 DEF Fills
    <3>3. CASE y # NIL
      <4>1. e[y][side] = e[q][side] /\ e[y][far] = p[q] + Forth(side)
        BY <1>8, <3>3 DEF Fills, y, far
      <4>2. f[y][far] = f[g][far] /\ f[y][side] = p[g] + Forth(far)
        BY <1>3, <1>4, <1>7, <1>9, <1>10, <3>3, <4>1
      <4>3. QED
        BY <1>2, <2>2, <3>1, <3>3, <4>2 DEF Fills
    <3>4. QED
      BY <3>2, <3>3
  <2>3. CASE j = up /\ s = place
    <3>1. Kid(u, up, place) = q /\ q # NIL /\ up # g /\ up # q
      BY <1>1, <1>3, <1>6, <2>3
    <3>2. Kid(t, up, place) = g
      BY <1>1, <1>5, <2>3, JoinedSides DEF up, place
    <3>3. Fills(t, p, e, up, place) /\ g # NIL
      BY <1>1, <2>3 DEF Spanned
    <3>4. e[g][place] = e[up][place] /\ e[g][Across(place)] = p[up] + Forth(place)
      BY <3>2, <3>3 DEF Fills
    <3>5. f[up] = e[up] /\ f[q] = e[g]
      BY <1>10, <2>3, <3>1
    <3>6. QED
      BY <2>3, <3>1, <3>4, <3>5 DEF Fills
  <2>4. CASE ~ (j = q /\ s = side) /\ ~ (j = g /\ s = far) /\ ~ (j = up /\ s = place)
    <3> DEFINE k == Kid(t, j, s)
    <3>1. Kid(u, j, s) = k /\ k # q /\ k # g
      BY <1>5, <1>6, <2>4
    <3>2. Fills(t, p, e, j, s) /\ (k # NIL => k \in U)
      BY <1>1 DEF Spanned, Joined
    <3>3. k # NIL => f[k] = e[k]
      BY <1>10, <3>1, <3>2
    <3>4. f[j][s] = e[j][s]
      <4>1. CASE j = q
        <5>1. s = far
          BY <1>2, <2>4, <4>1
        <5>2. QED
          BY <1>7, <1>10, <4>1, <5>1
      <4>2. CASE j = g
        <5>1. s = side
          BY <1>2, <2>4, <4>2
        <5>2. QED
          BY <1>9, <1>10, <4>2, <5>1
      <4>3. CASE j # q /\ j # g
        BY <1>10, <4>3
      <4>4. QED
        BY <4>1, <4>2, <4>3
    <3>5. QED
      BY <3>1, <3>2, <3>3, <3>4 DEF Fills
  <2>5. QED
    BY <2>1, <2>2, <2>3, <2>4
<1>13. \A j \in U : f[j]["left"] <= p[j] /\ p[j] <= f[j]["right"]
  <2>1. \A j \in U : e[j]["left"] <= p[j] /\ p[j] <= e[j]["right"]
    BY DEF Spanned
  <2>2. QED
    BY <1>3, <1>10, <1>11, <2>1
<1>14. u.root # NIL => f[u.root]["left"] = 1 /\ f[u.root]["right"] = N
  <2>1. CASE up = NIL
    BY <1>1, <1>5, <1>6, <1>10, <2>1 DEF Spanned
  <2>2. CASE up # NIL
    <3>1. u.root = t.root /\ t.root # g /\ t.root # q /\ t.root \in U
      BY <1>1, <1>3, <1>5, <1>6, <2>2 DEF Joined
    <3>2. QED
      BY <1>1, <1>10, <3>1 DEF Spanned
  <2>3. QED
    BY <2>1, <2>2
<1>15. Spanned(u, U, p, f, N)
  BY <1>10, <1>12, <1>13, <1>14 DEF Spanned
<1>16. QED
  BY <1>15

\* So does a double rotation: the middle block takes over the span of the block, and
\* the spans of the two others end next to it.
LEMMA DoubledSpanned ==
    ASSUME NEW t \in Trees, NEW u \in Trees, NEW U \in SUBSET Index, IsTree(t, U),
           NEW g \in U, NEW side \in Sides, Kid(t, g, side) # NIL,
           Kid(t, Kid(t, g, side), Across(side)) # NIL,
           Doubled(t, u, g, side),
           NEW N \in Int, NEW p \in [U -> Int], NEW e, Spanned(t, U, p, e, N)
    PROVE  \E f : Spanned(u, U, p, f, N)
<1> DEFINE far == Across(side)
           q == Kid(t, g, side)
           m == Kid(t, q, far)
           toQ == Kid(t, m, side)
           toG == Kid(t, m, far)
           up == Up(t, g)
           place == Place(t, up, g)
           endsQ == [s \in Sides |-> IF s = far THEN p[m] - Forth(far) ELSE e[q][s]]
           endsG == [s \in Sides |-> IF s = side THEN p[m] - Forth(side) ELSE e[g][s]]
           f == [j \in U |-> IF j = m THEN e[g] ELSE IF j = q THEN endsQ
                             ELSE IF j = g THEN endsG ELSE e[j]]
<1>1. Joined(t, U) /\ NIL \notin U
  BY NilNoBlock DEF IsTree
<1>2. far \in Sides /\ side # far /\ Across(far) = side /\ Sides = {side, far}
  BY AcrossSides
<1>3. PICK h : Graded(t, U, h)
  BY DEF IsTree
<1>4. /\ q \in U /\ q # g /\ q # up /\ up # g /\ q # t.root /\ q # Kid(t, g, far)
      /\ Up(t, q) = g /\ h[q] < h[g]
  BY <1>1, <1>2, <1>3, Apart DEF Joined
<1>5. /\ m \in U /\ m # q /\ Up(t, m) = q /\ m # t.root /\ m # Kid(t, q, side) /\ h[m] < h[q]
  <2> HIDE DEF q
  <2>1. QED
    BY <1>1, <1>2, <1>3, <1>4, Apart DEF Joined, q
<1>6. m # g /\ up # m
  <2>1. up = NIL \/ h[g] < h[up]
    BY <1>1, <1>3 DEF Joined, Graded
  <2>2. h[g] \in Nat /\ h[q] \in Nat /\ h[m] \in Nat
    BY <1>3, <1>4, <1>5 DEF Graded
  <2> HIDE DEF q, m, up
  <2>3. QED
    BY <1>1, <1>4, <1>5, <2>1, <2>2
<1>7. \A k \in {toQ, toG} : k # NIL => k \in U /\ k # m /\ k # q /\ k # g
  <2>1. \A s \in Sides : Kid(t, m, s) # NIL =>
            Kid(t, m, s) \in U /\ h[Kid(t, m, s)] < h[m] /\ Up(t, Kid(t, m, s)) = m
    <3> HIDE DEF m
    <3>1. QED
      BY <1>1, <1>3, <1>5, Apart DEF Joined
  <2>2. \A j \in U : h[j] \in Nat
    BY <1>3 DEF Graded
  <2> HIDE DEF m, q
  <2>3. QED
    BY <1>2, <1>4, <1>5, <1>6, <2>1, <2>2
<1>8. /\ \A j \in U, s \in Sides : Kid(t, j, s) = m => j = q /\ s = far
      /\ \A j \in U, s \in Sides : Kid(t, j, s) = q => j = g /\ s = side
      /\ \A j \in U, s \in Sides : Kid(t, j, s) = g => j = up /\ s = place
      /\ up = NIL <=> g = t.root
  <2>1. \A s \in Sides : Kid(t, g, s) = q => s = side
    BY <1>2, <1>4
  <2>2. \A s \in Sides : Kid(t, q, s) = m => s = far
    BY <1>2, <1>5
  <2> HIDE DEF q, far, m
  <2>3. QED
    BY <1>1, <1>4, <1>5, <2>1, <2>2, KidNames DEF Joined
<1>9. /\ u.root = IF up = NIL THEN m ELSE t.root
      /\ \A j \in U, s \in Sides :
            Kid(u, j, s) = IF j = m THEN (IF s = side THEN q ELSE g)
                           ELSE IF j = q /\ s = far THEN toQ
                           ELSE IF j = g /\ s = side THEN toG
                           ELSE IF j = up /\ s = place THEN m
                           ELSE Kid(t, j, s)
  BY DEF Doubled
<1>10. /\ \A j \in U, s \in Sides : p[j] \in Int /\ e[j][s] \in Int
       /\ \A j \in U : e[j]["left"] <= p[j] /\ p[j] <= e[j]["right"]
       /\ \A j \in U, s \in Sides : Fills(t, p, e, j, s)
  BY DEF Spanned
<1>11. /\ e[q][side] = e[g][side] /\ e[q][far] = p[g] + Forth(side)
       /\ e[m][far] = p[g] + Forth(side) /\ e[m][side] = p[q] + Forth(far)
       /\ Forth(far) \in Int /\ Forth(side) \in Int /\ Forth(side) = - Forth(far)
  <2>1. e[q][side] = e[g][side] /\ e[q][far] = p[g] + Forth(side)
    BY <1>1, <1>4, <1>10 DEF Fills
  <2>2. e[m][far] = e[q][far] /\ e[m][side] = p[q] + Forth(far)
    <3>1. Fills(t, p, e, q, far)
      BY <1>2, <1>4, <1>10
    <3> HIDE DEF q, far
    <3>2. QED
      BY <1>1, <1>2, <1>5, <3>1 DEF Fills, m
  <2>3. Forth(far) \in Int /\ Forth(side) \in Int /\ Forth(side) = - Forth(far)
    BY <1>2, ForthSides
  <2>4. QED
    BY <2>1, <2>2, <2>3
<1>12. /\ endsQ \in [Sides -> Int] /\ endsQ[far] = p[m] - Forth(far) /\ endsQ[side] = e[q][side]
       /\ endsG \in [Sides -> Int] /\ endsG[side] = p[m] - Forth(side) /\ endsG[far] = e[g][far]
  <2> HIDE DEF q, m
  <2>1. QED
    BY <1>2, <1>4, <1>5, <1>10, <1>11
<1>13. /\ f \in [U -> [Sides -> Int]] /\ f[m] = e[g] /\ f[q] = endsQ /\ f[g] = endsG
       /\ \A j \in U : j # m /\ j # q /\ j # g => f[j] = e[j]
  <2> HIDE DEF endsQ, endsG, q, m
  <2>1. QED
    BY <1>4, <1>5, <1>6, <1>12 DEF Spanned
<1>14. /\ endsQ["left"] <= p[q] /\ p[q] <= endsQ["right"]
       /\ endsG["left"] <= p[g] /\ p[g] <= endsG["right"]
       /\ e[g]["left"] <= p[m] /\ p[m] <= e[g]["right"]
  <2> HIDE DEF endsQ, endsG, q, m
  <2>1. /\ e[m]["left"] <= p[m] /\ p[m] <= e[m]["right"]
        /\ e[q]["left"] <= p[q] /\ p[q] <= e[q]["right"]
        /\ e[g]["left"] <= p[g] /\ p[g] <= e[g]["right"]
        /\ p[m] \in Int /\ p[q] \in Int /\ p[g] \in Int
    BY <1>4, <1>5, <1>10
  <2>2. \A s \in {side, far} : e[g][s] \in Int /\ e[q][s] \in Int /\ e[m][s] \in Int
    BY <1>2, <1>4, <1>5, <1>10
  <2>3. CASE side = "left"
    <3>1. far = "right" /\ Forth(far) = 1
      BY <2>3 DEF Across, Forth
    <3>2. QED
      BY <1>11, <1>12, <2>1, <2>2, <2>3, <3>1
  <2>4. CASE side = "right"
    <3>1. far = "left" /\ Forth(far) = - 1
      BY <2>4 DEF Across, Forth
    <3>2. QED
      BY <1>11, <1>12, <2>1, <2>2, <2>4, <3>1
  <2>5. QED
    BY <2>3, <2>4 DEF Sides
<1>15. Fills(t, p, e, m, side) /\ Fills(t, p, e, m, far)
  BY <1>2, <1>5, <1>10
<1> HIDE DEF far, q, m, toQ, toG, up, place, f, endsQ, endsG
<1>16. \A j \in {m, q, g}, s \in Sides : e[j][s] \in Int /\ p[j] \in Int
  BY <1>4, <1>5, <1>10
<1>17. ASSUME NEW j \in U, NEW s \in Sides
       PROVE  Fills(u, p, f, j, s)
  <2>1. CASE j = m /\ s = side
    <3>1. Kid(u, m, side) = q /\ q # NIL
      BY <1>1, <1>4, <1>5, <1>9, <2>1
    <3>2. f[q][side] = f[m][side] /\ f[q][far] = p[m] + Forth(side)
      BY <1>2, <1>11, <1>12, <1>13, <1>16
    <3>3. QED
      BY <2>1, <3>1, <3>2 DEF Fills, far
  <2>2. CASE j = m /\ s = far
    <3>1. Kid(u, m, far) = g /\ g # NIL
      BY <1>1, <1>2, <1>5, <1>9, <2>2
    <3>2. f[g][far] = f[m][far] /\ f[g][side] = p[m] + Forth(far)
      BY <1>2, <1>11, <1>12, <1>13, <1>16
    <3>3. QED
      BY <1>2, <2>2, <3>1, <3>2 DEF Fills
  <2>3. CASE j = q /\ s = far
    <3>1. Kid(u, q, far) = toQ
      BY <1>2, <1>4, <1>5, <1>9, <2>3
    <3>2. CASE toQ = NIL
      <4>1. e[m][side] = p[m]
        BY <1>15, <3>2 DEF Fills, toQ
      <4>2. f[q][far] = p[q]
        BY <1>2, <1>11, <1>12, <1>13, <1>16, <4>1
      <4>3. QED
        BY <2>3, <3>1, <3>2, <4>2 DEF Fills
    <3>3. CASE toQ # NIL
      <4>1. e[toQ][side] = e[m][side] /\ e[toQ][far] = p[m] + Forth(side)
        BY <1>15, <3>3 DEF Fills, toQ, far
      <4>2. f[toQ][far] = f[q][far] /\ f[toQ][side] = p[q] + Forth(far)
        BY <1>7, <1>11, <1>12, <1>13, <1>16, <3>3, <4>1
      <4>3. QED
        BY <1>2, <2>3, <3>1, <3>3, <4>2 DEF Fills
    <3>4. QED
      BY <3>2, <3>3
  <2>4. CASE j = g /\ s = side
    <3>1. Kid(u, g, side) = toG
      BY <1>2, <1>4, <1>6, <1>9, <2>4
    <3>2. CASE toG = NIL
      <4>1. e[m][far] = p[m]
        BY <1>15, <3>2 DEF Fills, toG
      <4>2. f[g][side] = p[g]
        BY <1>2, <1>11, <1>12, <1>13, <1>16, <4>1
      <4>3. QED
        BY <2>4, <3>1, <3>2, <4>2 DEF Fills
    <3>3. CASE toG # NIL
      <4>1. e[toG][far] = e[m][far] /\ e[toG][side] = p[m] + Forth(far)
        BY <1>2, <1>15, <3>3 DEF Fills, toG
      <4>2. f[toG][side] = f[g][side] /\ f[toG][far] = p[g] + Forth(side)
        BY <1>7, <1>11, <1>12, <1>13, <1>16, <3>3, <4>1
      <4>3. QED
        BY <1>2, <2>4, <3>1, <3>3, <4>2 DEF Fills, far
    <3>4. QED
      BY <3>2, <3>3
  <2>5. CASE j = up /\ s = place
    <3>1. Kid(u, up, place) = m /\ m # NIL /\ up # g /\ up # q /\ up # m
      BY <1>1, <1>4, <1>5, <1>6, <1>9, <2>5
    <3>2. Kid(t, up, place) = g
      BY <1>1, <1>8, <2>5, JoinedSides DEF up, place
    <3>3. Fills(t, p, e, up, place) /\ g # NIL
      BY <1>1, <1>10, <2>5
    <3>4. e[g][place] = e[up][place] /\ e[g][Across(place)] = p[up] + Forth(place)
      BY <3>2, <3>3 DEF Fills
    <3>5. f[up] = e[up] /\ f[m] = e[g]
      BY <1>13, <2>5, <3>1
    <3>6. QED
      BY <2>5, <3>1, <3>4, <3>5 DEF Fills
  <2>6. CASE /\ j # m /\ ~ (j = q /\ s = far) /\ ~ (j = g /\ s = side)
             /\ ~ (j = up /\ s = place)
    <3> DEFINE k == Kid(t, j, s)
    <3>1. Kid(u, j, s) = k /\ k # q /\ k # g /\ k # m
      BY <1>8, <1>9, <2>6
    <3>2. Fills(t, p, e, j, s) /\ (k # NIL => k \in U)
      BY <1>1, <1>10 DEF Joined
    <3>3. k # NIL => f[k] = e[k]
      BY <1>13, <3>1, <3>2
    <3>4. f[j][s] = e[j][s]
      <4>1. CASE j = q
        <5>1. s = side
          BY <1>2, <2>6, <4>1
        <5>2. QED
          BY <1>12, <1>13, <4>1, <5>1
      <4>2. CASE j = g
        <5>1. s = far
          BY <1>2, <2>6, <4>2
        <5>2. QED
          BY <1>12, <1>13, <4>2, <5>1
      <4>3. CASE j # q /\ j # g
        BY <1>13, <2>6, <4>3
      <4>4. QED
        BY <4>1, <4>2, <4>3
    <3>5. QED
      BY <3>1, <3>2, <3>3, <3>4 DEF Fills
  <2>7. QED
    BY <1>2, <2>1, <2>2, <2>3, <2>4, <2>5, <2>6
<1>18. \A j \in U : f[j]["left"] <= p[j] /\ p[j] <= f[j]["right"]
  BY <1>10, <1>13, <1>14
<1>19. u.root # NIL => f[u.root]["left"] = 1 /\ f[u.root]["right"] = N
  <2>1. CASE up = NIL
    BY <1>1, <1>8, <1>9, <1>13, <2>1 DEF Spanned
  <2>2. CASE up # NIL
    <3>1. u.root = t.root /\ t.root # g /\ t.root # q /\ t.root # m /\ t.root \in U
      BY <1>1, <1>4, <1>5, <1>8, <1>9, <2>2 DEF Joined
    <3>2. QED
      BY <1>1, <1>13, <3>1 DEF Spanned
  <2>3. QED
    BY <2>1, <2>2
<1>20. Spanned(u, U, p, f, N)
  BY <1>13, <1>17, <1>18, <1>19 DEF Spanned
<1>21. QED
  BY <1>20

-----------------------------------------------------------------------------
(* One block more or less in a listing.                                    *)

LEMMA JoinedPlaces ==
    ASSUME NEW S, NEW a \in Seq(S), NEW b \in Seq(S)
    PROVE  /\ a \o b \in Seq(S) /\ Len(a \o b) = Len(a) + Len(b)
           /\ \A n \in 1 .. Len(a) + Len(b) :
                (a \o b)[n] = IF n <= Len(a) THEN a[n] ELSE b[n - Len(a)]
OBVIOUS

LEMMA InsertAtPlaces ==
    ASSUME NEW S, NEW s \in Seq(S), NEW i \in S, NEW k \in 0 .. Len(s)
    PROVE  LET r == InsertAt(s, k + 1, i)
           IN  /\ r \in Seq(S) /\ Len(r) = Len(s) + 1
               /\ \A n \in 1 .. Len(r) :
                    r[n] = IF n <= k THEN s[n] ELSE IF n = k + 1 THEN i ELSE s[n - 1]
<1> DEFINE a == SubSeq(s, 1, (k + 1) - 1)
           b == << i >>
           c == SubSeq(s, k + 1, Len(s))
           ab == a \o b
           r == ab \o c
<1>1. Len(s) \in Nat /\ k \in Nat /\ (k + 1) - 1 = k /\ k <= Len(s)
  OBVIOUS
<1>2. a \in Seq(S) /\ Len(a) = k /\ \A n \in 1 .. k : a[n] = s[n]
  BY <1>1
<1>3. b \in Seq(S) /\ Len(b) = 1 /\ b[1] = i
  OBVIOUS
<1>4. c \in Seq(S) /\ Len(c) = Len(s) - k /\ \A n \in 1 .. Len(s) - k : c[n] = s[k + n]
  BY <1>1
<1> HIDE DEF a, b, c
<1>5. /\ ab \in Seq(S) /\ Len(ab) = k + 1
      /\ \A n \in 1 .. k + 1 : ab[n] = IF n <= k THEN s[n] ELSE i
  <2>1. ab \in Seq(S) /\ Len(ab) = Len(a) + Len(b)
    BY <1>2, <1>3, JoinedPlaces
  <2>2. \A n \in 1 .. Len(a) + Len(b) :
            ab[n] = IF n <= Len(a) THEN a[n] ELSE b[n - Len(a)]
    BY <1>2, <1>3, JoinedPlaces
  <2> HIDE DEF ab
  <2>3. ASSUME NEW n \in 1 .. k + 1
        PROVE  ab[n] = IF n <= k THEN s[n] ELSE i
    <3>1. CASE n <= k
      BY <1>1, <1>2, <1>3, <2>2, <3>1
    <3>2. CASE ~ (n <= k)
      <4>1. n = k + 1 /\ n - Len(a) = 1
        BY <1>1, <1>2, <3>2
      <4>2. QED
        BY <1>1, <1>2, <1>3, <2>2, <3>2, <4>1
    <3>3. QED
      BY <3>1, <3>2
  <2>4. QED
    BY <1>1, <1>2, <1>3, <2>1, <2>3
<1> HIDE DEF ab
<1>6. r \in Seq(S) /\ Len(r) = Len(s) + 1
  BY <1>1, <1>4, <1>5
<1>7. ASSUME NEW n \in 1 .. Len(s) + 1
      PROVE  r[n] = IF n <= k THEN s[n] ELSE IF n = k + 1 THEN i ELSE s[n - 1]
  <2>1. CASE n <= k + 1
    <3>1. r[n] = ab[n]
      BY <1>1, <1>4, <1>5, <2>1
    <3>2. QED
      BY <1>1, <1>5, <2>1, <3>1
  <2>2. CASE ~ (n <= k + 1)
    <3>1. r[n] = c[n - (k + 1)] /\ n - (k + 1) \in 1 .. Len(s) - k
      BY <1>1, <1>4, <1>5, <2>2
    <3>2. c[n - (k + 1)] = s[k + (n - (k + 1))]
      BY <1>4, <3>1
    <3>3. k + (n - (k + 1)) = n - 1
      BY <1>1
    <3>4. QED
      BY <1>1, <2>2, <3>1, <3>2, <3>3
  <2>3. QED
    BY <2>1, <2>2
<1>8. r = InsertAt(s, k + 1, i)
  BY DEF InsertAt, ab, a, b, c
<1> HIDE DEF r
<1>9. QED
  BY <1>6, <1>7, <1>8

LEMMA RemoveAtPlaces ==
    ASSUME NEW S, NEW s \in Seq(S), NEW k \in 1 .. Len(s)
    PROVE  LET r == RemoveAt(s, k)
           IN  /\ r \in Seq(S) /\ Len(r) = Len(s) - 1
               /\ \A n \in 1 .. Len(r) : r[n] = IF n < k THEN s[n] ELSE s[n + 1]
<1> DEFINE a == SubSeq(s, 1, k - 1)
           c == SubSeq(s, k + 1, Len(s))
           r == a \o c
<1>1. Len(s) \in Nat /\ k \in Nat /\ k <= Len(s) /\ 1 <= k
  OBVIOUS
<1>2. a \in Seq(S) /\ Len(a) = k - 1 /\ \A n \in 1 .. k - 1 : a[n] = s[n]
  BY <1>1
<1>3. c \in Seq(S) /\ Len(c) = Len(s) - k /\ \A n \in 1 .. Len(s) - k : c[n] = s[k + n]
  BY <1>1
<1> HIDE DEF a, c
<1>4. r \in Seq(S) /\ Len(r) = Len(s) - 1
  <2>1. r \in Seq(S) /\ Len(r) = Len(a) + Len(c)
    BY <1>2, <1>3, JoinedPlaces
  <2> HIDE DEF r
  <2>2. QED
    BY <1>1, <1>2, <1>3, <2>1
<1>5. ASSUME NEW n \in 1 .. Len(s) - 1
      PROVE  r[n] = IF n < k THEN s[n] ELSE s[n + 1]
  <2>1. CASE n < k
    BY <1>1, <1>2, <1>3, <2>1
  <2>2. CASE ~ (n < k)
    <3>1. r[n] = c[n - (k - 1)] /\ n - (k - 1) \in 1 .. Len(s) - k
      BY <1>1, <1>2, <1>3, <2>2
    <3>2. c[n - (k - 1)] = s[k + (n - (k - 1))]
      BY <1>3, <3>1
    <3>3. k + (n - (k - 1)) = n + 1
      BY <1>1
    <3>4. QED
      BY <2>2, <3>1, <3>2, <3>3
  <2>3. QED
    BY <2>1, <2>2
<1>6. r = RemoveAt(s, k)
  BY DEF RemoveAt, a, c
<1> HIDE DEF r
<1>7. QED
  BY <1>4, <1>5, <1>6

\* A block more at place k + 1.
PlacesWith(p, U, index, k) ==
    [j \in U \cup {index} |-> IF j = index THEN k + 1 ELSE IF p[j] > k THEN p[j] + 1 ELSE p[j]]

LEMMA EnumeratesWith ==
    ASSUME NEW s, NEW U \in SUBSET Index, NEW p, Enumerates(s, U, p),
           NEW index \in Index \ U, NEW k \in 0 .. Len(s)
    PROVE  Enumerates(InsertAt(s, k + 1, index), U \cup {index}, PlacesWith(p, U, index, k))
<1> DEFINE r == InsertAt(s, k + 1, index)
           V == U \cup {index}
           P == PlacesWith(p, U, index, k)
<1>1. s \in Seq(Index) /\ Len(s) \in Nat /\ k \in Nat /\ k <= Len(s)
  BY DEF Enumerates
<1>2. /\ r \in Seq(Index) /\ Len(r) = Len(s) + 1
      /\ \A n \in 1 .. Len(r) :
            r[n] = IF n <= k THEN s[n] ELSE IF n = k + 1 THEN index ELSE s[n - 1]
  <2>1. index \in Index /\ k \in 0 .. Len(s)
    OBVIOUS
  <2>2. QED
    BY <1>1, <2>1, InsertAtPlaces
<1>3. \A j \in V : P[j] = IF j = index THEN k + 1 ELSE IF p[j] > k THEN p[j] + 1 ELSE p[j]
  BY DEF PlacesWith
<1>4. /\ \A j \in U : p[j] \in 1 .. Len(s) /\ s[p[j]] = j /\ j # index
      /\ \A n \in 1 .. Len(s) : s[n] \in U /\ p[s[n]] = n
  BY DEF Enumerates
<1> HIDE DEF r
<1>5. ASSUME NEW j \in V
      PROVE  P[j] \in 1 .. Len(r) /\ r[P[j]] = j
  <2>1. CASE j = index
    BY <1>1, <1>2, <1>3, <2>1
  <2>2. CASE j # index
    <3>1. p[j] \in 1 .. Len(s) /\ s[p[j]] = j /\ P[j] = IF p[j] > k THEN p[j] + 1 ELSE p[j]
      BY <1>3, <1>4, <2>2
    <3> HIDE DEF P
    <3>2. QED
      BY <1>1, <1>2, <3>1
  <2>3. QED
    BY <2>1, <2>2
<1>6. P \in [V -> 1 .. Len(r)]
  BY <1>5 DEF PlacesWith
<1>7. ASSUME NEW n \in 1 .. Len(r)
      PROVE  r[n] \in V /\ P[r[n]] = n
  <2> HIDE DEF P
  <2>1. CASE n <= k
    <3>1. n \in 1 .. Len(s) /\ r[n] = s[n] /\ ~ (n > k)
      BY <1>1, <1>2, <2>1
    <3>2. s[n] \in U /\ p[s[n]] = n /\ s[n] # index
      BY <1>4, <3>1
    <3>3. QED
      BY <1>3, <3>1, <3>2
  <2>2. CASE n = k + 1
    BY <1>1, <1>2, <1>3, <2>2
  <2>3. CASE ~ (n <= k) /\ n # k + 1
    <3>1. n - 1 \in 1 .. Len(s) /\ r[n] = s[n - 1] /\ n - 1 > k /\ (n - 1) + 1 = n
      BY <1>1, <1>2, <2>3
    <3>2. s[n - 1] \in U /\ p[s[n - 1]] = n - 1 /\ s[n - 1] # index
      BY <1>4, <3>1
    <3>3. P[r[n]] = (n - 1) + 1
      BY <1>3, <3>1, <3>2
    <3>4. QED
      BY <3>1, <3>2, <3>3
  <2>4. QED
    BY <2>1, <2>2, <2>3
<1>8. QED
  BY <1>2, <1>5, <1>6, <1>7 DEF Enumerates, r

\* Without block a.
PlacesWithout(p, U, a) == [j \in U \ {a} |-> IF p[j] > p[a] THEN p[j] - 1 ELSE p[j]]

LEMMA EnumeratesWithout ==
    ASSUME NEW s, NEW U \in SUBSET Index, NEW p, Enumerates(s, U, p), NEW a \in U
    PROVE  Enumerates(RemoveAt(s, p[a]), U \ {a}, PlacesWithout(p, U, a))
<1> DEFINE c == p[a]
           r == RemoveAt(s, c)
           V == U \ {a}
           P == PlacesWithout(p, U, a)
<1>1. /\ s \in Seq(Index) /\ Len(s) \in Nat /\ c \in 1 .. Len(s) /\ s[c] = a
      /\ \A j \in U : p[j] \in 1 .. Len(s) /\ s[p[j]] = j
      /\ \A n \in 1 .. Len(s) : s[n] \in U /\ p[s[n]] = n
  BY DEF Enumerates
<1>2. /\ r \in Seq(Index) /\ Len(r) = Len(s) - 1
      /\ \A n \in 1 .. Len(r) : r[n] = IF n < c THEN s[n] ELSE s[n + 1]
  BY <1>1, RemoveAtPlaces
<1>3. \A j \in V : P[j] = IF p[j] > c THEN p[j] - 1 ELSE p[j]
  BY DEF PlacesWithout
<1> HIDE DEF r, c
<1>4. ASSUME NEW j \in V
      PROVE  P[j] \in 1 .. Len(r) /\ r[P[j]] = j
  <2>1. p[j] \in 1 .. Len(s) /\ s[p[j]] = j /\ p[j] # c /\ P[j] = IF p[j] > c THEN p[j] - 1 ELSE p[j]
    BY <1>1, <1>3
  <2> HIDE DEF P
  <2>2. QED
    BY <1>1, <1>2, <2>1
<1>5. P \in [V -> 1 .. Len(r)]
  BY <1>4 DEF PlacesWithout
<1>6. ASSUME NEW n \in 1 .. Len(r)
      PROVE  r[n] \in V /\ P[r[n]] = n
  <2> HIDE DEF P
  <2>1. CASE n < c
    <3>1. n \in 1 .. Len(s) /\ r[n] = s[n] /\ ~ (n > c) /\ n # c
      BY <1>1, <1>2, <2>1
    <3>2. s[n] \in U /\ p[s[n]] = n /\ s[n] # a
      BY <1>1, <3>1 DEF c
    <3>3. QED
      BY <1>3, <3>1, <3>2
  <2>2. CASE ~ (n < c)
    <3>1. n + 1 \in 1 .. Len(s) /\ r[n] = s[n + 1] /\ n + 1 > c /\ n + 1 # c /\ (n + 1) - 1 = n
      BY <1>1, <1>2, <2>2
    <3>2. s[n + 1] \in U /\ p[s[n + 1]] = n + 1 /\ s[n + 1] # a
      BY <1>1, <3>1 DEF c
    <3>3. P[r[n]] = (n + 1) - 1
      BY <1>3, <3>1, <3>2
    <3>4. QED
      BY <3>1, <3>2, <3>3
  <2>3. QED
    BY <2>1, <2>2
<1>7. QED
  BY <1>2, <1>4, <1>5, <1>6 DEF Enumerates, r, c

-----------------------------------------------------------------------------
(* One block more or less in a tree.                                       *)

\* The spans when what is on and right of place c moves by d.
Stretched(e, V, c, d) ==
    [j \in V |-> [side \in Sides |->
        IF side = "left" THEN (IF e[j]["left"] > c THEN e[j]["left"] + d ELSE e[j]["left"])
        ELSE (IF e[j]["right"] >= c THEN e[j]["right"] + d ELSE e[j]["right"])]]

\* The number of blocks before a place for a leaf.
Before(p, place) == IF place.side = "right" THEN p[place.parent] ELSE p[place.parent] - 1

\* A new leaf comes right behind or right before its parent.
LEMMA HungSpanned ==
    ASSUME NEW t \in Trees, NEW u \in Trees, NEW U \in SUBSET Index, IsTree(t, U),
           NEW index \in Index \ U, NEW place, place.parent \in U, place.side \in Sides,
           Kid(t, place.parent, place.side) = NIL, Hung(t, u, index, place),
           NEW s, NEW p, Enumerates(s, U, p), NEW e, Spanned(t, U, p, e, Len(s))
    PROVE  LET k == Before(p, place)
           IN  /\ k \in 0 .. Len(s)
               /\ \E f : Spanned(u, U \cup {index}, PlacesWith(p, U, index, k), f, Len(s) + 1)
<1> DEFINE P == place.parent
           S == place.side
           V == U \cup {index}
           c == p[P]
           k == Before(p, place)
           N == Len(s)
           r == PlacesWith(p, U, index, k)
           g == Stretched(e, U, c, 1)
           f == [j \in V |-> IF j = index THEN [side \in Sides |-> k + 1] ELSE g[j]]
<1>1. Joined(t, U) /\ NIL \notin U /\ index # NIL /\ "left" \in Sides /\ "right" \in Sides
  BY NilNoBlock DEF IsTree, Sides
<1>2. /\ P \in U /\ P # index /\ S \in Sides /\ Kid(t, P, S) = NIL
      /\ N \in Nat /\ c \in 1 .. N
      /\ \A j \in U : p[j] \in 1 .. N /\ (p[j] = c => j = P)
  <2>1. N \in Nat /\ \A j \in U : p[j] \in 1 .. N /\ s[p[j]] = j
    BY DEF Enumerates
  <2>2. QED
    BY <2>1
<1>3. /\ S = "right" => k = c
      /\ S # "right" => k = c - 1 /\ S = "left"
  BY DEF Before, Sides
<1>4. k \in 0 .. N
  BY <1>2, <1>3
<1>5. /\ r[index] = k + 1
      /\ \A j \in U : r[j] = IF p[j] > k THEN p[j] + 1 ELSE p[j]
  BY <1>2 DEF PlacesWith
<1>6. /\ e \in [U -> [Sides -> Int]]
      /\ \A j \in U : /\ e[j]["left"] \in Int /\ e[j]["right"] \in Int
                      /\ e[j]["left"] <= p[j] /\ p[j] <= e[j]["right"]
      /\ \A j \in U, side \in Sides : Fills(t, p, e, j, side)
  BY <1>1 DEF Spanned
<1>7. /\ g \in [U -> [Sides -> Int]]
      /\ \A j \in U :
            /\ g[j]["left"] = IF e[j]["left"] > c THEN e[j]["left"] + 1 ELSE e[j]["left"]
            /\ g[j]["right"] = IF e[j]["right"] >= c THEN e[j]["right"] + 1 ELSE e[j]["right"]
  <2>1. c \in Int
    BY <1>2
  <2>2. \A j \in U : e[j]["left"] \in Int /\ e[j]["right"] \in Int
    BY <1>6
  <2> HIDE DEF c
  <2>3. QED
    BY <1>1, <2>1, <2>2 DEF Stretched
<1>8. /\ u.root = t.root /\ t.root \in U
      /\ \A side \in Sides : Kid(u, index, side) = NIL
      /\ Kid(u, P, S) = index
      /\ \A j \in U, side \in Sides : j # P \/ side # S => Kid(u, j, side) = Kid(t, j, side)
  BY <1>1, <1>2 DEF Hung, Joined
<1> HIDE DEF g, r, k, c, P, S
<1>9. /\ f \in [V -> [Sides -> Int]]
      /\ \A side \in Sides : f[index][side] = k + 1
      /\ \A j \in U : f[j] = g[j]
  BY <1>4, <1>7
<1> HIDE DEF f
<1>18. ASSUME NEW j \in U
       PROVE  /\ p[j] \in 1 .. N /\ c \in 1 .. N /\ k \in Int
              /\ e[j]["left"] \in Int /\ e[j]["right"] \in Int
              /\ e[j]["left"] <= p[j] /\ p[j] <= e[j]["right"]
              /\ f[j]["left"] = IF e[j]["left"] > c THEN e[j]["left"] + 1 ELSE e[j]["left"]
              /\ f[j]["right"] = IF e[j]["right"] >= c THEN e[j]["right"] + 1 ELSE e[j]["right"]
              /\ r[j] = IF p[j] > k THEN p[j] + 1 ELSE p[j]
              /\ r[j] \in Int
  <2>1. r[j] = IF p[j] > k THEN p[j] + 1 ELSE p[j]
    BY <1>5
  <2>2. p[j] \in 1 .. N
    BY <1>2
  <2>3. r[j] \in Int
    BY <2>1, <2>2
  <2>4. f[j] = g[j] /\ c \in 1 .. N /\ k \in Int
    BY <1>2, <1>4, <1>9
  <2>5. /\ f[j]["left"] = IF e[j]["left"] > c THEN e[j]["left"] + 1 ELSE e[j]["left"]
        /\ f[j]["right"] = IF e[j]["right"] >= c THEN e[j]["right"] + 1 ELSE e[j]["right"]
    BY <1>7, <2>4
  <2>6. QED
    BY <1>6, <2>1, <2>2, <2>3, <2>4, <2>5
<1>10. \A side \in Sides : Fills(u, r, f, index, side)
  BY <1>5, <1>8, <1>9 DEF Fills
<1>11. Fills(u, r, f, P, S)
  <2>1. e[P][S] = c
    BY <1>2, <1>6 DEF Fills, c
  <2>2. f[index]["left"] = k + 1 /\ f[index]["right"] = k + 1
    BY <1>1, <1>9
  <2>3. CASE S = "right"
    <3>1. f[P]["right"] = c + 1
      BY <1>2, <1>7, <1>9, <2>1, <2>3
    <3>2. r[P] = c
      BY <1>2, <1>3, <1>5, <2>3 DEF c
    <3>3. Kid(u, P, "right") = index
      BY <1>8, <2>3
    <3>4. QED
      BY <1>1, <1>2, <1>3, <2>2, <2>3, <3>1, <3>2, <3>3 DEF Fills, Across, Forth
  <2>4. CASE S # "right"
    <3>1. f[P]["left"] = c
      BY <1>2, <1>3, <1>7, <1>9, <2>1, <2>4
    <3>2. r[P] = c + 1
      BY <1>2, <1>3, <1>5, <2>4 DEF c
    <3>3. Kid(u, P, "left") = index
      BY <1>3, <1>8, <2>4
    <3>4. QED
      BY <1>1, <1>2, <1>3, <2>2, <2>4, <3>1, <3>2, <3>3 DEF Fills, Across, Forth
  <2>5. QED
    BY <2>3, <2>4
<1>12. ASSUME NEW j \in U, NEW side \in Sides, j # P \/ side # S
       PROVE  Fills(u, r, f, j, side)
  <2> DEFINE i == Kid(t, j, side)
  <2>1. Kid(u, j, side) = i /\ Fills(t, p, e, j, side) /\ (i # NIL => i \in U)
    BY <1>1, <1>6, <1>8, <1>12 DEF Joined
  <2>2. p[j] = c => side # S
    BY <1>2, <1>12
  <2>3. side = "left" \/ side = "right"
    BY DEF Sides
  <2>4. CASE i = NIL
    <3>1. e[j][side] = p[j]
      BY <2>1, <2>4 DEF Fills
    <3>2. ASSUME side = "left" PROVE f[j]["left"] = r[j]
      BY <1>3, <1>18, <2>2, <3>1, <3>2
    <3>3. ASSUME side = "right" PROVE f[j]["right"] = r[j]
      BY <1>3, <1>18, <2>2, <3>1, <3>3
    <3>4. f[j][side] = r[j]
      BY <2>3, <3>2, <3>3
    <3>5. QED
      BY <2>1, <2>4, <3>4 DEF Fills
  <2>5. CASE i # NIL
    <3>1. i \in U /\ e[i][side] = e[j][side] /\ e[i][Across(side)] = p[j] + Forth(side)
      BY <2>1, <2>5 DEF Fills
    <3> HIDE DEF i
    <3>2. CASE side = "left"
      <4>1. e[i]["left"] = e[j]["left"] /\ e[i]["right"] = p[j] - 1
        BY <1>2, <3>1, <3>2 DEF Across, Forth
      <4>2. f[i]["left"] = f[j]["left"] /\ f[i]["right"] = r[j] - 1
        BY <1>3, <1>18, <2>2, <3>1, <3>2, <4>1
      <4>3. r[j] \in Int
        BY <1>18
      <4>4. QED
        BY <2>1, <2>5, <3>2, <4>2, <4>3 DEF Fills, Across, Forth
    <3>3. CASE side = "right"
      <4>1. e[i]["right"] = e[j]["right"] /\ e[i]["left"] = p[j] + 1
        BY <1>2, <3>1, <3>3 DEF Across, Forth
      <4>2. f[i]["right"] = f[j]["right"] /\ f[i]["left"] = r[j] + 1
        BY <1>3, <1>18, <2>2, <3>1, <3>3, <4>1
      <4>3. QED
        BY <2>1, <2>5, <3>3, <4>2 DEF Fills, Across, Forth
    <3>4. QED
      BY <2>3, <3>2, <3>3
  <2>6. QED
    BY <2>4, <2>5
<1>13. ASSUME NEW j \in V
       PROVE  f[j]["left"] <= r[j] /\ r[j] <= f[j]["right"]
  <2>1. CASE j = index
    BY <1>1, <1>4, <1>5, <1>9, <2>1
  <2>2. CASE j # index
    <3>1. j \in U
      BY <2>2
    <3>2. QED
      BY <1>3, <1>18, <3>1
  <2>3. QED
    BY <2>1, <2>2
<1>14. f[u.root]["left"] = 1 /\ f[u.root]["right"] = N + 1
  <2>1. e[t.root]["left"] = 1 /\ e[t.root]["right"] = N
    BY <1>1, <1>8 DEF Spanned
  <2>2. QED
    BY <1>2, <1>7, <1>8, <1>9, <2>1
<1>15. \A j \in V, side \in Sides : Fills(u, r, f, j, side)
  BY <1>10, <1>11, <1>12
<1>16. Spanned(u, V, r, f, N + 1)
  BY <1>9, <1>13, <1>14, <1>15 DEF Spanned
<1>17. QED
  BY <1>4, <1>16 DEF k, r

\* A block with one kid at most leaves its place, and the rest moves up.
LEMMA LiftedSpanned ==
    ASSUME NEW t \in Trees, NEW u \in Trees, NEW U \in SUBSET Index, IsTree(t, U), NEW a \in U,
           NEW side \in Sides, Kid(t, a, Across(side)) = NIL, Lifted(t, u, a, Kid(t, a, side)),
           NEW s, NEW p, Enumerates(s, U, p), NEW e, Spanned(t, U, p, e, Len(s))
    PROVE  \E f : Spanned(u, U \ {a}, PlacesWithout(p, U, a), f, Len(s) - 1)
<1> DEFINE V == U \ {a}
           c == p[a]
           N == Len(s)
           r == PlacesWithout(p, U, a)
           f == Stretched(e, V, c, - 1)
           kid == Kid(t, a, side)
           up == Up(t, a)
           place == Place(t, up, a)
<1>1. Joined(t, U) /\ NIL \notin U /\ "left" \in Sides /\ "right" \in Sides
  BY NilNoBlock DEF IsTree, Sides
<1>2. /\ N \in Nat /\ c \in 1 .. N
      /\ \A j \in V : p[j] \in 1 .. N /\ p[j] # c
  <2>1. N \in Nat /\ \A j \in U : p[j] \in 1 .. N /\ s[p[j]] = j
    BY DEF Enumerates
  <2>2. QED
    BY <2>1
<1>3. /\ e \in [U -> [Sides -> Int]]
      /\ \A j \in U : /\ e[j]["left"] \in Int /\ e[j]["right"] \in Int
                      /\ e[j]["left"] <= p[j] /\ p[j] <= e[j]["right"]
      /\ \A j \in U, z \in Sides : Fills(t, p, e, j, z)
  BY <1>1 DEF Spanned
<1>4. /\ f \in [V -> [Sides -> Int]]
      /\ \A j \in V :
            /\ f[j]["left"] = IF e[j]["left"] > c THEN e[j]["left"] - 1 ELSE e[j]["left"]
            /\ f[j]["right"] = IF e[j]["right"] >= c THEN e[j]["right"] - 1 ELSE e[j]["right"]
  <2>1. c \in Int
    BY <1>2
  <2>2. \A j \in U : e[j]["left"] \in Int /\ e[j]["right"] \in Int
    BY <1>3
  <2> HIDE DEF c
  <2>3. QED
    BY <1>1, <2>1, <2>2 DEF Stretched
<1>5. \A j \in V : r[j] = IF p[j] > c THEN p[j] - 1 ELSE p[j]
  BY DEF PlacesWithout
<1> HIDE DEF f, r, c
<1>6. ASSUME NEW j \in V
      PROVE  /\ p[j] \in 1 .. N /\ p[j] # c /\ c \in 1 .. N
             /\ e[j]["left"] \in Int /\ e[j]["right"] \in Int
             /\ e[j]["left"] <= p[j] /\ p[j] <= e[j]["right"]
             /\ f[j]["left"] = IF e[j]["left"] > c THEN e[j]["left"] - 1 ELSE e[j]["left"]
             /\ f[j]["right"] = IF e[j]["right"] >= c THEN e[j]["right"] - 1 ELSE e[j]["right"]
             /\ r[j] = IF p[j] > c THEN p[j] - 1 ELSE p[j]
             /\ r[j] \in Int
  <2>1. r[j] = IF p[j] > c THEN p[j] - 1 ELSE p[j]
    BY <1>5
  <2>2. p[j] \in 1 .. N /\ p[j] # c /\ c \in 1 .. N
    BY <1>2
  <2>3. r[j] \in Int
    BY <2>1, <2>2
  <2>4. QED
    BY <1>3, <1>4, <2>1, <2>2, <2>3
<1>7. /\ side = "left" \/ side = "right"
      /\ Fills(t, p, e, a, side) /\ e[a][Across(side)] = c
      /\ e[a]["left"] \in Int /\ e[a]["right"] \in Int
      /\ e[a]["left"] <= c /\ c <= e[a]["right"]
  <2>1. Fills(t, p, e, a, side) /\ Fills(t, p, e, a, Across(side))
    BY <1>3, AcrossSides
  <2>2. QED
    BY <1>3, <2>1 DEF Fills, c, Sides
<1>8. /\ u.root = IF up = NIL THEN kid ELSE t.root
      /\ up = NIL <=> a = t.root
      /\ up # NIL => up \in V /\ place \in Sides /\ Kid(t, up, place) = a
      /\ \A j \in V, z \in Sides : Kid(u, j, z) = IF j = up /\ z = place THEN kid ELSE Kid(t, j, z)
      /\ \A j \in V, z \in Sides : Kid(t, j, z) = a => j = up /\ z = place
      /\ kid # NIL => kid \in V
  <2>1. PICK h : Graded(t, U, h)
    BY DEF IsTree
  <2>2. kid # a /\ up # a
    BY <1>1, <2>1, Apart
  <2>3. up = NIL <=> a = t.root
    BY <1>1 DEF Joined
  <2>4. up # NIL => up \in V /\ place \in Sides /\ Kid(t, up, place) = a
    BY <1>1, <2>2, <2>3, JoinedSides DEF Joined
  <2>5. \A j \in V, z \in Sides : Kid(t, j, z) = a => j = up /\ z = place
    BY <1>1, KidNames
  <2>6. kid # NIL => kid \in V
    BY <1>1, <2>2 DEF Joined
  <2>7. QED
    BY <2>3, <2>4, <2>5, <2>6 DEF Lifted
<1> HIDE DEF kid, up, place
<1>9. ASSUME NEW j \in V, NEW z \in Sides, j # up \/ z # place
      PROVE  Fills(u, r, f, j, z)
  <2> DEFINE i == Kid(t, j, z)
  <2>1. Kid(u, j, z) = i /\ Fills(t, p, e, j, z) /\ (i # NIL => i \in V)
    BY <1>1, <1>3, <1>8, <1>9 DEF Joined
  <2>2. z = "left" \/ z = "right"
    BY DEF Sides
  <2>3. CASE i = NIL
    <3>1. e[j][z] = p[j]
      BY <2>1, <2>3 DEF Fills
    <3>2. f[j][z] = r[j]
      BY <1>6, <2>2, <3>1
    <3>3. QED
      BY <2>1, <2>3, <3>2 DEF Fills
  <2>4. CASE i # NIL
    <3>1. i \in V /\ e[i][z] = e[j][z] /\ e[i][Across(z)] = p[j] + Forth(z)
      BY <2>1, <2>4 DEF Fills
    <3> HIDE DEF i
    <3>2. CASE z = "left"
      <4>1. e[i]["left"] = e[j]["left"] /\ e[i]["right"] = p[j] - 1
        BY <1>6, <3>1, <3>2 DEF Across, Forth
      <4>2. f[i]["left"] = f[j]["left"] /\ f[i]["right"] = r[j] - 1
        BY <1>6, <3>1, <4>1
      <4>3. r[j] \in Int
        BY <1>6
      <4>4. QED
        BY <2>1, <2>4, <3>2, <4>2, <4>3 DEF Fills, Across, Forth
    <3>3. CASE z = "right"
      <4>1. e[i]["right"] = e[j]["right"] /\ e[i]["left"] = p[j] + 1
        BY <1>6, <3>1, <3>3 DEF Across, Forth
      <4>2. f[i]["right"] = f[j]["right"] /\ f[i]["left"] = r[j] + 1
        BY <1>6, <3>1, <4>1
      <4>3. QED
        BY <2>1, <2>4, <3>3, <4>2 DEF Fills, Across, Forth
    <3>4. QED
      BY <2>2, <3>2, <3>3
  <2>5. QED
    BY <2>3, <2>4
\* The span of the kid that moves up is that of its parent without the parent.
<1>10. kid # NIL =>
        /\ side = "left" => e[kid]["left"] = e[a]["left"] /\ e[kid]["right"] = c - 1 /\ e[a]["right"] = c
        /\ side = "right" => e[kid]["right"] = e[a]["right"] /\ e[kid]["left"] = c + 1 /\ e[a]["left"] = c
  <2> SUFFICES ASSUME kid # NIL
               PROVE  /\ side = "left" => /\ e[kid]["left"] = e[a]["left"] /\ e[kid]["right"] = c - 1
                                          /\ e[a]["right"] = c
                      /\ side = "right" => /\ e[kid]["right"] = e[a]["right"] /\ e[kid]["left"] = c + 1
                                           /\ e[a]["left"] = c
    OBVIOUS
  <2>1. e[kid][side] = e[a][side] /\ e[kid][Across(side)] = c + Forth(side)
    BY <1>7 DEF Fills, kid, c
  <2>2. c \in Int
    BY <1>2
  <2>3. QED
    BY <1>7, <2>1, <2>2 DEF Across, Forth
<1>11. ASSUME up # NIL
       PROVE  Fills(u, r, f, up, place)
  <2>1. up \in V /\ place \in Sides /\ Kid(u, up, place) = kid /\ (place = "left" \/ place = "right")
    BY <1>8, <1>11 DEF Sides
  <2>2. e[a][place] = e[up][place] /\ e[a][Across(place)] = p[up] + Forth(place)
    BY <1>1, <1>3, <1>8, <1>11 DEF Fills
  <2>3. /\ place = "left" => e[a]["left"] = e[up]["left"] /\ e[a]["right"] = p[up] - 1
        /\ place = "right" => e[a]["right"] = e[up]["right"] /\ e[a]["left"] = p[up] + 1
    BY <1>6, <2>1, <2>2 DEF Across, Forth
  <2>4. CASE kid = NIL
    <3>1. e[a]["left"] = c /\ e[a]["right"] = c
      <4>1. e[a][side] = c
        BY <1>7, <2>4 DEF Fills, kid, c
      <4>2. QED
        BY <1>7, <4>1 DEF Across
    <3>2. f[up][place] = r[up]
      BY <1>6, <2>1, <2>3, <3>1
    <3>3. QED
      BY <2>1, <2>4, <3>2 DEF Fills
  <2>5. CASE kid # NIL
    <3>1. kid \in V /\ r[up] \in Int
      BY <1>6, <1>8, <2>1, <2>5
    <3>2. CASE place = "left"
      <4>1. f[kid]["left"] = f[up]["left"] /\ f[kid]["right"] = r[up] - 1
        <5>1. CASE side = "left"
          BY <1>6, <1>7, <1>10, <2>1, <2>3, <2>5, <3>1, <3>2, <5>1
        <5>2. CASE side = "right"
          <6>1. /\ e[kid]["right"] = p[up] - 1 /\ e[kid]["left"] = c + 1
                /\ e[up]["left"] = c /\ p[up] - 1 >= c
            BY <1>7, <1>10, <2>3, <2>5, <3>2, <5>2
          <6>2. p[kid] <= p[up] - 1 /\ c + 1 <= p[kid]
            BY <1>6, <3>1, <6>1
          <6>3. c \in Int /\ p[up] \in Int
            BY <1>6, <2>1
          <6>4. f[kid]["left"] = c /\ f[kid]["right"] = p[up] - 1 - 1
            <7>1. c + 1 > c /\ p[up] - 1 >= c /\ c + 1 - 1 = c
              BY <6>1, <6>3
            <7>2. QED
              BY <1>6, <3>1, <6>1, <7>1
          <6>5. f[up]["left"] = c
            BY <1>6, <2>1, <6>1, <6>3
          <6>6. r[up] = p[up] - 1
            BY <1>6, <2>1, <6>1, <6>3
          <6>7. QED
            BY <6>4, <6>5, <6>6
        <5>3. QED
          BY <1>7, <5>1, <5>2
      <4>2. QED
        BY <2>1, <2>5, <3>1, <3>2, <4>1 DEF Fills, Across, Forth
    <3>3. CASE place = "right"
      <4>1. f[kid]["right"] = f[up]["right"] /\ f[kid]["left"] = r[up] + 1
        <5>1. CASE side = "left"
          BY <1>6, <1>7, <1>10, <2>1, <2>3, <2>5, <3>1, <3>3, <5>1
        <5>2. CASE side = "right"
          BY <1>6, <1>7, <1>10, <2>1, <2>3, <2>5, <3>1, <3>3, <5>2
        <5>3. QED
          BY <1>7, <5>1, <5>2
      <4>2. QED
        BY <2>1, <2>5, <3>1, <3>3, <4>1 DEF Fills, Across, Forth
    <3>4. QED
      BY <2>1, <3>2, <3>3
  <2>6. QED
    BY <2>4, <2>5
<1>12. ASSUME NEW j \in V
       PROVE  f[j]["left"] <= r[j] /\ r[j] <= f[j]["right"]
  BY <1>6
<1>13. ASSUME u.root # NIL
       PROVE  f[u.root]["left"] = 1 /\ f[u.root]["right"] = N - 1
  <2>1. t.root \in U /\ e[t.root]["left"] = 1 /\ e[t.root]["right"] = N
    BY <1>1 DEF Spanned, Joined
  <2>2. CASE up = NIL
    <3>1. u.root = kid /\ kid \in V /\ e[a]["left"] = 1 /\ e[a]["right"] = N
      BY <1>8, <1>13, <2>1, <2>2
    <3>2. kid # NIL
      BY <1>13, <3>1
    <3>3. f[kid]["left"] = 1 /\ f[kid]["right"] = N - 1
      BY <1>2, <1>6, <1>7, <1>10, <3>1, <3>2
    <3>4. QED
      BY <3>1, <3>3
  <2>3. CASE up # NIL
    <3>1. u.root = t.root /\ t.root \in V
      BY <1>8, <2>1, <2>3
    <3>2. QED
      BY <1>6, <2>1, <3>1
  <2>4. QED
    BY <2>2, <2>3
<1>14. \A j \in V, z \in Sides : Fills(u, r, f, j, z)
  <2>1. ASSUME NEW j \in V, NEW z \in Sides
        PROVE  Fills(u, r, f, j, z)
    <3>1. CASE j = up /\ z = place
      BY <1>1, <1>11, <3>1
    <3>2. CASE ~ (j = up /\ z = place)
      BY <1>9, <3>2
    <3>3. QED
      BY <3>1, <3>2
  <2>2. QED
    BY <2>1
<1>15. Spanned(u, V, r, f, N - 1)
  BY <1>4, <1>12, <1>13, <1>14 DEF Spanned
<1>16. QED
  BY <1>15 DEF r

\* The places with b instead of a.
PlacesRenamed(p, U, a, b) == [j \in (U \ {a}) \cup {b} |-> p[Instead(j, b, a)]]

\* A block that takes the place of another takes its span.
LEMMA RenamedSpanned ==
    ASSUME NEW t \in Trees, NEW u \in Trees, NEW U \in SUBSET Index, IsTree(t, U),
           NEW a \in U, NEW b \in Index \ U, Renamed(t, u, U, a, b),
           NEW p, NEW e, NEW N, Spanned(t, U, p, e, N)
    PROVE  \E f : Spanned(u, (U \ {a}) \cup {b}, PlacesRenamed(p, U, a, b), f, N)
<1> DEFINE New(i) == Instead(i, a, b)
           Old(i) == Instead(i, b, a)
           V == (U \ {a}) \cup {b}
           r == PlacesRenamed(p, U, a, b)
           f == [j \in V |-> e[Old(j)]]
<1>1. Joined(t, U)
  BY DEF IsTree
<1>2. /\ NIL \notin U /\ NIL \notin V /\ t.root \in U /\ New(NIL) = NIL
      /\ \A i \in U : New(i) \in V /\ Old(New(i)) = i /\ New(i) # NIL
      /\ \A j \in V : Old(j) \in U /\ New(Old(j)) = j
  BY <1>1, NilNoBlock DEF Instead, Joined
<1>3. /\ u.root = New(t.root)
      /\ \A i \in U, z \in Sides : Kid(u, New(i), z) = New(Kid(t, i, z))
  BY DEF Renamed
<1>4. /\ e \in [U -> [Sides -> Int]]
      /\ \A i \in U : e[i]["left"] <= p[i] /\ p[i] <= e[i]["right"]
      /\ \A i \in U, z \in Sides : Fills(t, p, e, i, z)
      /\ e[t.root]["left"] = 1 /\ e[t.root]["right"] = N
  BY <1>1, <1>2 DEF Spanned
<1>12. \A j \in V : r[j] = p[Old(j)] /\ f[j] = e[Old(j)]
  BY DEF PlacesRenamed
<1> HIDE DEF New, Old
<1>5. \A i \in U : r[New(i)] = p[i] /\ f[New(i)] = e[i]
  BY <1>2, <1>12
<1>6. f \in [V -> [Sides -> Int]]
  BY <1>2, <1>4
<1> HIDE DEF f, r
<1>7. ASSUME NEW i \in U, NEW z \in Sides
      PROVE  Fills(u, r, f, New(i), z)
  <2> DEFINE kid == Kid(t, i, z)
  <2>1. Kid(u, New(i), z) = New(kid) /\ Fills(t, p, e, i, z) /\ (kid = NIL \/ kid \in U)
    BY <1>1, <1>3, <1>4 DEF Joined
  <2>2. CASE kid = NIL
    BY <1>2, <1>5, <2>1, <2>2 DEF Fills
  <2>3. CASE kid # NIL
    <3>1. kid \in U /\ New(kid) # NIL
      BY <1>2, <2>1, <2>3
    <3>2. e[kid][z] = e[i][z] /\ e[kid][Across(z)] = p[i] + Forth(z)
      BY <2>1, <2>3 DEF Fills
    <3> HIDE DEF kid
    <3>3. QED
      BY <1>5, <2>1, <3>1, <3>2 DEF Fills
  <2>4. QED
    BY <2>2, <2>3
<1>8. ASSUME NEW j \in V
      PROVE  /\ f[j]["left"] <= r[j] /\ r[j] <= f[j]["right"]
             /\ \A z \in Sides : Fills(u, r, f, j, z)
  <2>1. PICK i \in U : New(i) = j
    BY <1>2
  <2>2. QED
    BY <1>4, <1>5, <1>7, <2>1
<1>9. f[u.root]["left"] = 1 /\ f[u.root]["right"] = N
  BY <1>2, <1>3, <1>4, <1>5
<1>10. Spanned(u, V, r, f, N)
  <2> HIDE DEF V
  <2>1. QED
    BY <1>6, <1>8, <1>9 DEF Spanned
<1>11. QED
  BY <1>10 DEF r

\* The weights grow with every link up and are bounded.
LEMMA TreeWeighed ==
    ASSUME NEW t, NEW U \in SUBSET Index, IsTree(t, U)
    PROVE  Weighed(t, U, Weights(t, U))
BY WeightsGraded DEF Weighed

\* The end of a walk to one side from below a block is next to the block.
LEMMA OutermostNext ==
    ASSUME NEW t \in Trees, NEW U \in SUBSET Index, IsTree(t, U),
           NEW N, NEW p \in [U -> Int], NEW e, Spanned(t, U, p, e, N),
           NEW a \in U, NEW side \in Sides, Kid(t, a, Across(side)) # NIL
    PROVE  LET b == Outermost(t, Kid(t, a, Across(side)), side)
           IN  b \in U /\ Kid(t, b, side) = NIL /\ p[b] = p[a] + Forth(Across(side))
<1> DEFINE far == Across(side)
           k == Kid(t, a, far)
           c == p[a] + Forth(far)
           Y == {j \in U : e[j][side] = c}
           b == Outermost(t, k, side)
<1>1. Joined(t, U) /\ far \in Sides /\ Across(far) = side
  BY AcrossSides DEF IsTree
<1>2. \A i \in U, z \in Sides : Fills(t, p, e, i, z) /\ (Kid(t, i, z) # NIL => Kid(t, i, z) \in U)
  BY <1>1 DEF Spanned, Joined
<1> HIDE DEF c
<1>3. k \in Y
  BY <1>1, <1>2 DEF Fills, c
<1>4. \A j \in Y : Kid(t, j, side) \in Y \cup {NIL}
  <2>1. ASSUME NEW j \in Y, Kid(t, j, side) # NIL
        PROVE  Kid(t, j, side) \in Y
    BY <1>2, <2>1 DEF Fills
  <2>2. QED
    BY <2>1
<1> HIDE DEF k
<1>5. b \in Y /\ Kid(t, b, side) = NIL
  <2>1. Weighed(t, U, Weights(t, U)) /\ Y \in SUBSET U
    BY TreeWeighed
  <2> HIDE DEF Y
  <2>2. QED
    BY <1>1, <1>3, <1>4, <2>1, OutermostIn
<1>6. b \in U /\ p[b] = c
  BY <1>2, <1>5 DEF Fills
<1>7. QED
  BY <1>5, <1>6 DEF c, k

\* Any removal takes the block out of the order and leaves the rest.
LEMMA WithoutSpanned ==
    ASSUME NEW t \in Trees, NEW u \in Trees, NEW U \in SUBSET Index, IsTree(t, U), NEW a \in U,
           Without(t, u, U, a),
           NEW s, NEW p, Enumerates(s, U, p), NEW e, Spanned(t, U, p, e, Len(s))
    PROVE  \E f : Spanned(u, U \ {a}, PlacesWithout(p, U, a), f, Len(s) - 1)
<1>2. CASE \E side \in Sides : Kid(t, a, Across(side)) = NIL /\ Lifted(t, u, a, Kid(t, a, side))
  BY <1>2, LiftedSpanned
<1>3. CASE /\ IsInternal(t, a)
           /\ LET next == Outermost(t, t.node[a].right, "left")
              IN  \E v \in Trees :
                    Lifted(t, v, next, Kid(t, next, "right")) /\ Renamed(v, u, U \ {next}, a, next)
  <2> DEFINE next == Outermost(t, t.node[a].right, "left")
             W == U \ {next}
             q == PlacesWithout(p, U, next)
             V == (W \ {a}) \cup {next}
             r == PlacesRenamed(q, W, a, next)
             N == Len(s)
  <2>1. PICK v \in Trees : Lifted(t, v, next, Kid(t, next, "right")) /\ Renamed(v, u, W, a, next)
    BY <1>3
  <2>2. next \in U /\ next # a /\ Kid(t, next, "left") = NIL
    BY <1>3, SuccessorLinks
  <2>3. N \in Nat /\ p \in [U -> Int] /\ \A j \in U : p[j] \in Int /\ (p[j] = p[next] => j = next)
    <3>1. N \in Nat /\ \A j \in U : p[j] \in 1 .. N /\ s[p[j]] = j
      BY DEF Enumerates
    <3> HIDE DEF next
    <3>2. QED
      BY <2>2, <3>1 DEF Enumerates
  <2>4. "left" \in Sides /\ "right" \in Sides /\ Across("left") = "right" /\ Across("right") = "left"
        /\ Forth("right") = 1
    BY DEF Sides, Across, Forth
  <2>5. p[next] = p[a] + 1
    <3>1. next = Outermost(t, Kid(t, a, "right"), "left") /\ Kid(t, a, "right") # NIL
      BY <1>3 DEF Kid, IsInternal
    <3> HIDE DEF next
    <3>2. QED
      BY <2>3, <2>4, <3>1, OutermostNext
  <2> HIDE DEF next
  <2>6. PICK f : Spanned(v, W, q, f, N - 1)
    BY <2>1, <2>2, <2>4, LiftedSpanned
  <2>7. IsTree(v, W) /\ W \in SUBSET Index /\ a \in W /\ next \in Index \ W
    BY <2>1, <2>2, <2>4, LiftedTree
  <2>8. PICK g : Spanned(u, V, r, g, N - 1)
    <3> HIDE DEF W, q
    <3>1. QED
      BY <2>1, <2>6, <2>7, RenamedSpanned
  <2>9. V = U \ {a}
    BY <2>2
  <2>10. r = PlacesWithout(p, U, a)
    <3>1. \A j \in W : q[j] = IF p[j] > p[next] THEN p[j] - 1 ELSE p[j]
      BY DEF PlacesWithout
    <3>2. ASSUME NEW j \in U \ {a}
          PROVE  r[j] = IF p[j] > p[a] THEN p[j] - 1 ELSE p[j]
      <4>1. CASE j = next
        <5>1. r[j] = q[a] /\ a \in W
          BY <2>2, <4>1 DEF Instead, PlacesRenamed
        <5>2. QED
          BY <2>2, <2>3, <2>5, <3>1, <4>1, <5>1
      <4>2. CASE j # next
        <5>1. r[j] = q[j] /\ j \in W
          BY <2>9, <4>2 DEF Instead, PlacesRenamed
        <5>2. QED
          BY <2>2, <2>3, <2>5, <3>1, <4>2, <5>1
      <4>3. QED
        BY <4>1, <4>2
    <3>3. r = [j \in U \ {a} |-> r[j]]
      BY <2>9 DEF PlacesRenamed
    <3> HIDE DEF r
    <3>4. QED
      BY <3>2, <3>3 DEF PlacesWithout
  <2>11. QED
    BY <2>8, <2>9, <2>10
<1>4. QED
  BY <1>2, <1>3 DEF Without

-----------------------------------------------------------------------------
(* The listing of the tree is its walk in order.                           *)

\* No span leaves the listing.
LEMMA SpansBounded ==
    ASSUME NEW t \in Trees, NEW U \in SUBSET Index, IsTree(t, U),
           NEW N \in Nat, NEW p \in [U -> Int], NEW e, Spanned(t, U, p, e, N)
    PROVE  \A i \in U : 1 <= e[i]["left"] /\ e[i]["right"] <= N
<1> DEFINE Y == {i \in U : 1 <= e[i]["left"] /\ e[i]["right"] <= N}
<1>1. Joined(t, U)
  BY DEF IsTree
<1>2. t.root \in Y \cup {NIL}
  BY <1>1 DEF Spanned, Joined
<1>3. ClosedDown(t, Y)
  <2>1. ASSUME NEW i \in Y, NEW side \in Sides, Kid(t, i, side) # NIL
        PROVE  Kid(t, i, side) \in Y
    <3> DEFINE k == Kid(t, i, side)
    <3>1. k \in U /\ Fills(t, p, e, i, side)
      BY <1>1, <2>1 DEF Joined, Spanned
    <3>2. e[k][side] = e[i][side] /\ e[k][Across(side)] = p[i] + Forth(side)
      BY <2>1, <3>1 DEF Fills
    <3> HIDE DEF k
    <3>3. /\ \A j \in U : /\ e[j]["left"] \in Int /\ e[j]["right"] \in Int
                          /\ e[j]["left"] <= p[j] /\ p[j] <= e[j]["right"]
          /\ p[i] \in Int
      BY DEF Spanned, Sides
    <3>4. CASE side = "left"
      <4>1. e[k]["left"] = e[i]["left"] /\ e[k]["right"] = p[i] - 1
        BY <3>2, <3>3, <3>4 DEF Across, Forth
      <4>2. QED
        BY <3>1, <3>3, <4>1 DEF k
    <3>5. CASE side = "right"
      <4>1. e[k]["right"] = e[i]["right"] /\ e[k]["left"] = p[i] + 1
        BY <3>2, <3>3, <3>5 DEF Across, Forth
      <4>2. QED
        BY <3>1, <3>3, <4>1 DEF k
    <3>6. QED
      BY <3>4, <3>5 DEF Sides
  <2> HIDE DEF Y
  <2>2. QED
    BY <2>1 DEF ClosedDown
<1>4. Below(t, U, t.root) \subseteq Y
  <2>1. Y \in SUBSET U /\ t.root \in U \cup {NIL}
    BY <1>1 DEF Joined
  <2> HIDE DEF Y
  <2>2. QED
    BY <1>1, <1>2, <1>3, <2>1, BelowLeast
<1>5. U \subseteq Y
  BY <1>4, BelowRoot
<1>6. QED
  BY <1>5

LEMMA PartPlaces ==
    ASSUME NEW S, NEW s \in Seq(S), NEW l \in Int, NEW r \in Int,
           1 <= l, l <= r + 1, r <= Len(s)
    PROVE  /\ SubSeq(s, l, r) \in Seq(S) /\ Len(SubSeq(s, l, r)) = r + 1 - l
           /\ \A n \in 1 .. r + 1 - l : SubSeq(s, l, r)[n] = s[l + n - 1]
OBVIOUS

LEMMA SamePlaces ==
    ASSUME NEW S, NEW a \in Seq(S), NEW b \in Seq(S), Len(a) = Len(b),
           \A n \in 1 .. Len(a) : a[n] = b[n]
    PROVE  a = b
OBVIOUS

\* A part of a listing, split at one of its places.
LEMMA SplitPlaces ==
    ASSUME NEW S, NEW s \in Seq(S), NEW l \in Int, NEW c \in Int, NEW r \in Int,
           1 <= l, l <= c, c <= r, r <= Len(s)
    PROVE  SubSeq(s, l, c - 1) \o << s[c] >> \o SubSeq(s, c + 1, r) = SubSeq(s, l, r)
<1> DEFINE a == SubSeq(s, l, c - 1)
           b == << s[c] >>
           d == SubSeq(s, c + 1, r)
           ab == a \o b
           w == ab \o d
           z == SubSeq(s, l, r)
<1>1. Len(s) \in Nat /\ s[c] \in S
  OBVIOUS
<1>2. a \in Seq(S) /\ Len(a) = c - l /\ \A n \in 1 .. c - l : a[n] = s[l + n - 1]
  <2>1. c - 1 \in Int /\ l <= c - 1 + 1 /\ c - 1 <= Len(s) /\ c - 1 + 1 - l = c - l
    BY <1>1
  <2>2. QED
    BY <2>1, PartPlaces
<1>3. b \in Seq(S) /\ Len(b) = 1 /\ b[1] = s[c]
  BY <1>1
<1>4. d \in Seq(S) /\ Len(d) = r - c /\ \A n \in 1 .. r - c : d[n] = s[c + n]
  <2>1. c + 1 \in Int /\ 1 <= c + 1 /\ c + 1 <= r + 1 /\ r + 1 - (c + 1) = r - c
    BY <1>1
  <2>2. /\ d \in Seq(S) /\ Len(d) = r + 1 - (c + 1)
        /\ \A n \in 1 .. r + 1 - (c + 1) : d[n] = s[c + 1 + n - 1]
    BY <2>1, PartPlaces
  <2>3. \A n \in 1 .. r - c : c + 1 + n - 1 = c + n
    OBVIOUS
  <2> HIDE DEF d
  <2>4. QED
    BY <2>1, <2>2, <2>3
<1>5. z \in Seq(S) /\ Len(z) = r + 1 - l /\ \A n \in 1 .. r + 1 - l : z[n] = s[l + n - 1]
  BY PartPlaces
<1> HIDE DEF a, b, d, z
<1>6. /\ ab \in Seq(S) /\ Len(ab) = c - l + 1
      /\ \A n \in 1 .. c - l + 1 : ab[n] = IF n <= c - l THEN a[n] ELSE b[n - (c - l)]
  <2>1. /\ ab \in Seq(S) /\ Len(ab) = Len(a) + Len(b)
        /\ \A n \in 1 .. Len(a) + Len(b) : ab[n] = IF n <= Len(a) THEN a[n] ELSE b[n - Len(a)]
    BY <1>2, <1>3, JoinedPlaces
  <2>2. QED
    BY <1>2, <1>3, <2>1
<1> HIDE DEF ab
<1>7. /\ w \in Seq(S) /\ Len(w) = r + 1 - l
      /\ \A n \in 1 .. r + 1 - l : w[n] = IF n <= c - l + 1 THEN ab[n] ELSE d[n - (c - l + 1)]
  <2>1. /\ w \in Seq(S) /\ Len(w) = Len(ab) + Len(d)
        /\ \A n \in 1 .. Len(ab) + Len(d) : w[n] = IF n <= Len(ab) THEN ab[n] ELSE d[n - Len(ab)]
    BY <1>4, <1>6, JoinedPlaces
  <2>2. Len(ab) + Len(d) = r + 1 - l
    BY <1>4, <1>6
  <2> HIDE DEF w
  <2>3. QED
    BY <1>6, <2>1, <2>2
<1> HIDE DEF w
<1>8. ASSUME NEW n \in 1 .. r + 1 - l
      PROVE  w[n] = z[n]
  <2>1. z[n] = s[l + n - 1] /\ n \in Int
    BY <1>5
  <2>2. CASE n <= c - l
    <3>1. w[n] = ab[n] /\ ab[n] = a[n] /\ n \in 1 .. c - l
      BY <1>6, <1>7, <2>2
    <3>2. QED
      BY <1>2, <2>1, <3>1
  <2>3. CASE n = c - l + 1
    <3>1. w[n] = ab[n] /\ ab[n] = b[n - (c - l)] /\ n - (c - l) = 1 /\ l + n - 1 = c
      BY <1>6, <1>7, <2>3
    <3>2. QED
      BY <1>3, <2>1, <3>1
  <2>4. CASE n > c - l + 1
    <3>1. w[n] = d[n - (c - l + 1)] /\ n - (c - l + 1) \in 1 .. r - c
      BY <1>7, <2>4
    <3>2. d[n - (c - l + 1)] = s[c + (n - (c - l + 1))] /\ c + (n - (c - l + 1)) = l + n - 1
      BY <1>4, <3>1
    <3>3. QED
      BY <2>1, <3>1, <3>2
  <2>5. QED
    BY <2>1, <2>2, <2>3, <2>4
<1>9. w = z
  <2>1. Len(w) = Len(z) /\ \A n \in 1 .. Len(w) : w[n] = z[n]
    BY <1>5, <1>7, <1>8
  <2>2. QED
    BY <1>5, <1>7, <2>1, SamePlaces
<1>10. QED
  BY <1>9 DEF w, ab, a, b, d, z

\* InOrderOf, the walk of the tree in order, is its listing.
LEMMA OrderedWalk ==
    ASSUME NEW t \in Trees, NEW U \in SUBSET Index, IsTree(t, U), NEW s, Ordered(t, U, s)
    PROVE  InOrderOf(t) = s
<1> DEFINE L(i) == Kid(t, i, "left")
           R(i) == Kid(t, i, "right")
           w == Weights(t, U)
           N == Len(s)
<1>1. PICK part :
            /\ InOrderOf(t) = part[Size][t.root]
            /\ \A n \in 0 .. Size, i \in Links :
                part[n][i] = IF i = NIL \/ n = 0 THEN << >>
                             ELSE part[n - 1][L(i)] \o << i >> \o part[n - 1][R(i)]
  BY InOrderWalk
<1>2. Size \in Nat
  BY TreeAssumption, FS_CardinalityType DEF Size
<1>3. Links = Index \cup {NIL}
  BY DEF Links
<1>4. PICK p, e : Enumerates(s, U, p) /\ Spanned(t, U, p, e, N)
  BY DEF Ordered
<1>5. /\ s \in Seq(Index) /\ N \in Nat /\ p \in [U -> Int]
      /\ \A i \in U : p[i] \in 1 .. N /\ s[p[i]] = i
      /\ \A n \in 1 .. N : s[n] \in U
  BY <1>4 DEF Enumerates
<1>6. Joined(t, U)
  BY DEF IsTree
<1>7. Graded(t, U, w) /\ \A i \in U : w[i] \in 1 .. Size
  BY WeightsGraded
<1>8. \A i \in U, side \in Sides : Kid(t, i, side) # NIL =>
            Kid(t, i, side) \in U /\ w[Kid(t, i, side)] < w[i]
  <2> HIDE DEF w
  <2>1. QED
    BY <1>6, <1>7, Apart DEF Joined
<1>9. \A i \in U : /\ 1 <= e[i]["left"] /\ e[i]["left"] <= p[i]
                   /\ p[i] <= e[i]["right"] /\ e[i]["right"] <= N
                   /\ e[i]["left"] \in Int /\ e[i]["right"] \in Int /\ p[i] \in Int
  <2>1. \A i \in U : 1 <= e[i]["left"] /\ e[i]["right"] <= N
    BY <1>4, <1>5, SpansBounded
  <2>2. QED
    BY <1>4, <1>5, <2>1 DEF Spanned, Sides
<1> DEFINE Part(i) == IF i = NIL THEN << >> ELSE SubSeq(s, e[i]["left"], e[i]["right"])
           X == {n \in Nat : n <= Size =>
                    \A i \in U \cup {NIL} : i = NIL \/ w[i] <= n => part[n][i] = Part(i)}
<1>10. ASSUME NEW n \in 0 .. Size, NEW i \in Links
       PROVE  part[n][i] = IF i = NIL \/ n = 0 THEN << >>
                           ELSE part[n - 1][L(i)] \o << i >> \o part[n - 1][R(i)]
  BY <1>1
<1>11. \A n \in 0 .. Size : part[n][NIL] = Part(NIL)
  BY <1>3, <1>10
<1>12. 0 \in X
  <2> HIDE DEF w
  <2>1. \A i \in U : ~(w[i] <= 0)
    BY <1>2, <1>7
  <2>2. 0 \in 0 .. Size
    BY <1>2
  <2> HIDE DEF Part
  <2>3. QED
    BY <1>11, <2>1, <2>2
<1>13. ASSUME NEW n \in Nat, n \in X
       PROVE  n + 1 \in X
  <2> HIDE DEF w, L, R, Part
  <2> SUFFICES ASSUME n + 1 <= Size, NEW i \in U, w[i] <= n + 1
               PROVE  part[n + 1][i] = Part(i)
    <3>1. n + 1 <= Size => n + 1 \in 0 .. Size
      BY <1>2
    <3>2. QED
      BY <1>11, <3>1
  <2>1. n + 1 \in 0 .. Size /\ n <= Size /\ n + 1 # 0 /\ (n + 1) - 1 = n
    BY <1>2
  <2>2. i \in Index /\ i \in Links /\ i # NIL
    BY <1>3, NilNoBlock
  <2>3. part[n + 1][i] = part[n][L(i)] \o << i >> \o part[n][R(i)]
    BY <1>10, <2>1, <2>2
  <2>4. \A k \in {L(i), R(i)} : k \in U \cup {NIL} /\ (k = NIL \/ w[k] <= n)
    <3>1. \A k \in {L(i), R(i)} : k # NIL => k \in U /\ w[k] < w[i]
      BY <1>8 DEF L, R, Sides
    <3>2. \A k \in U : w[k] \in Nat
      BY <1>2, <1>7
    <3>3. QED
      BY <3>1, <3>2
  <2>5. part[n][L(i)] = Part(L(i)) /\ part[n][R(i)] = Part(R(i))
    BY <1>13, <2>1, <2>4
  <2> DEFINE l == e[i]["left"]
             r == e[i]["right"]
             c == p[i]
  <2>6. /\ 1 <= l /\ l <= c /\ c <= r /\ r <= N /\ s[c] = i
        /\ l \in Int /\ r \in Int /\ c \in Int
    BY <1>5, <1>9
  <2>7. Part(L(i)) = SubSeq(s, l, c - 1)
    <3>1. Fills(t, p, e, i, "left")
      BY <1>4 DEF Spanned, Sides
    <3>2. CASE L(i) = NIL
      <4>1. l = c
        BY <3>1, <3>2 DEF Fills, L
      <4>2. SubSeq(s, c, c - 1) = << >>
        BY <2>6
      <4>3. QED
        BY <3>2, <4>1, <4>2 DEF Part
    <3>3. CASE L(i) # NIL
      <4>1. e[L(i)]["left"] = l /\ e[L(i)]["right"] = c - 1
        BY <2>6, <3>1, <3>3 DEF Fills, L, Across, Forth
      <4>2. QED
        BY <3>3, <4>1 DEF Part
    <3>4. QED
      BY <3>2, <3>3
  <2>8. Part(R(i)) = SubSeq(s, c + 1, r)
    <3>1. Fills(t, p, e, i, "right")
      BY <1>4 DEF Spanned, Sides
    <3>2. CASE R(i) = NIL
      <4>1. r = c
        BY <3>1, <3>2 DEF Fills, R
      <4>2. SubSeq(s, c + 1, c) = << >>
        BY <2>6
      <4>3. QED
        BY <3>2, <4>1, <4>2 DEF Part
    <3>3. CASE R(i) # NIL
      <4>1. e[R(i)]["right"] = r /\ e[R(i)]["left"] = c + 1
        BY <2>6, <3>1, <3>3 DEF Fills, R, Across, Forth
      <4>2. QED
        BY <3>3, <4>1 DEF Part
    <3>4. QED
      BY <3>2, <3>3
  <2>9. Part(i) = SubSeq(s, l, r)
    BY <2>2 DEF Part
  <2> HIDE DEF l, r, c
  <2>10. SubSeq(s, l, c - 1) \o << s[c] >> \o SubSeq(s, c + 1, r) = SubSeq(s, l, r)
    BY <1>5, <2>6, SplitPlaces
  <2>11. QED
    BY <2>3, <2>5, <2>6, <2>7, <2>8, <2>9, <2>10
<1>14. \A n \in Nat : n \in X
  <2> HIDE DEF X
  <2>1. QED
    BY <1>12, <1>13, NatSetInduction
<1>15. t.root \in U \cup {NIL}
  BY <1>6 DEF Joined
<1>16. part[Size][t.root] = Part(t.root)
  <2> HIDE DEF w, Part
  <2>1. t.root = NIL \/ w[t.root] <= Size
    BY <1>2, <1>7, <1>15
  <2>2. Size \in X /\ Size <= Size
    BY <1>2, <1>14
  <2>3. QED
    BY <1>15, <2>1, <2>2
<1>17. Part(t.root) = s
  <2>1. CASE t.root = NIL
    <3>1. U = {}
      BY <1>6, <2>1 DEF Joined
    <3>2. N = 0
      BY <1>5, <3>1
    <3>3. s = << >>
      BY <1>5, <3>2
    <3>4. QED
      BY <2>1, <3>3
  <2>2. CASE t.root # NIL
    <3>1. Part(t.root) = SubSeq(s, 1, N)
      BY <1>4, <2>2 DEF Spanned
    <3>2. SubSeq(s, 1, N) = s
      BY <1>5
    <3>3. QED
      BY <3>1, <3>2
  <2>3. QED
    BY <2>1, <2>2
<1>18. QED
  BY <1>1, <1>16, <1>17

-----------------------------------------------------------------------------
(* No repair and no removal writes a value.                                *)

SameValues(t, u) == \A i \in Index : u.node[i].value = t.node[i].value

LEMMA SetColorValues ==
    ASSUME NEW t \in Trees, NEW i \in Links, NEW color
    PROVE  SameValues(t, SetColor(t, i, color))
<1> DEFINE u == [t EXCEPT !.node[i].color = color]
<1>1. CASE i = NIL
  BY <1>1 DEF SetColor, SameValues
<1>2. CASE i # NIL
  <2>1. SetColor(t, i, color) = u
    BY <1>2 DEF SetColor
  <2>2. \A j \in Index : u.node[j].value = t.node[j].value
    BY <1>2 DEF Trees, Nodes
  <2>3. QED
    BY <2>1, <2>2 DEF SameValues
<1>3. QED
  BY <1>1, <1>2

LEMMA SetParentValues ==
    ASSUME NEW t \in Trees, NEW i \in Links, NEW parent
    PROVE  SameValues(t, SetParent(t, i, parent))
<1> DEFINE u == [t EXCEPT !.node[i].parent = parent]
<1>1. CASE i = NIL
  BY <1>1 DEF SetParent, SameValues
<1>2. CASE i # NIL
  <2>1. SetParent(t, i, parent) = u
    BY <1>2 DEF SetParent
  <2>2. \A j \in Index : u.node[j].value = t.node[j].value
    BY <1>2 DEF Trees, Nodes
  <2>3. QED
    BY <2>1, <2>2 DEF SameValues
<1>3. QED
  BY <1>1, <1>2

LEMMA SetKidValues ==
    ASSUME NEW t \in Trees, NEW i \in Index, NEW side \in Sides, NEW kid
    PROVE  SameValues(t, SetKid(t, i, side, kid))
<1> DEFINE n == [t.node[i] EXCEPT ![side] = kid]
           node == [t.node EXCEPT ![i] = n]
           u == [t EXCEPT !.node = node]
<1>1. n.value = t.node[i].value
  <2>1. t.node[i] \in Nodes /\ side # "value"
    BY DEF Trees, Sides
  <2>2. QED
    BY <2>1 DEF Nodes
<1>2. SetKid(t, i, side, kid) = u
  BY DEF SetKid
<1> HIDE DEF n
<1>3. \A j \in Index : node[j] = IF j = i THEN n ELSE t.node[j]
  BY DEF Trees
<1> HIDE DEF node
<1>4. u.node = node
  BY DEF Trees
<1> HIDE DEF u
<1>5. QED
  BY <1>1, <1>2, <1>3, <1>4 DEF SameValues

LEMMA RelinkValues ==
    ASSUME NEW t \in Trees, NEW parent \in Links, NEW old, NEW new
    PROVE  SameValues(t, Relink(t, parent, old, new))
<1>1. CASE parent = NIL
  BY <1>1 DEF Relink, SameValues, Trees
<1>2. CASE parent # NIL
  <2> DEFINE side == IF t.node[parent].left = old THEN "left" ELSE "right"
  <2>1. Relink(t, parent, old, new) = SetKid(t, parent, side, new)
    BY <1>2 DEF Relink, SetKid
  <2>2. side \in Sides /\ parent \in Index
    BY <1>2 DEF Sides, Links
  <2> HIDE DEF side
  <2>3. QED
    BY <2>1, <2>2, SetKidValues
<1>3. QED
  BY <1>1, <1>2

LEMMA RotateValues ==
    ASSUME NEW t \in Trees, NEW g \in Index, NEW side \in Sides, Kid(t, g, Across(side)) # NIL
    PROVE  SameValues(t, Rotate(t, g, side))
<1> DEFINE far == Across(side)
           p == Kid(t, g, far)
           y == Kid(t, p, side)
           up == Up(t, g)
           t1 == SetParent(t, p, up)
           t2 == SetKid(t1, p, side, g)
           t3 == SetParent(t2, g, p)
           t4 == SetKid(t3, g, far, y)
           t5 == SetParent(t4, y, g)
           u == Relink(t5, up, g, p)
<1>1. far \in Sides /\ p \in Index /\ p # NIL /\ g # NIL /\ p \in Links /\ g \in Links
  BY AcrossSides, LinksTyped, NilNoBlock DEF Links
<1>2. y \in Links /\ up \in Links
  BY <1>1, LinksTyped
<1>3. u = Rotate(t, g, side)
  BY <1>1 DEF Rotate, SetParent, SetKid, Kid, Up
<1> HIDE DEF far, p, y, up
<1>4. t1 \in Trees /\ SameValues(t, t1)
  BY <1>1, <1>2, SetParentLinks, SetParentValues
<1> HIDE DEF t1
<1>5. t2 \in Trees /\ SameValues(t1, t2)
  BY <1>1, <1>4, SetKidLinks, SetKidValues
<1> HIDE DEF t2
<1>6. t3 \in Trees /\ SameValues(t2, t3)
  BY <1>1, <1>5, SetParentLinks, SetParentValues
<1> HIDE DEF t3
<1>7. t4 \in Trees /\ SameValues(t3, t4)
  BY <1>1, <1>2, <1>6, SetKidLinks, SetKidValues
<1> HIDE DEF t4
<1>8. t5 \in Trees /\ SameValues(t4, t5)
  BY <1>1, <1>2, <1>7, SetParentLinks, SetParentValues
<1> HIDE DEF t5
<1>9. SameValues(t5, u)
  BY <1>2, <1>8, RelinkValues
<1>10. QED
  BY <1>3, <1>4, <1>5, <1>6, <1>7, <1>8, <1>9 DEF SameValues

LEMMA RotateDoubleValues ==
    ASSUME NEW t \in Trees, NEW g \in Index, NEW side \in Sides,
           NEW c1 \in Colors, NEW c2 \in Colors, NEW c3 \in Colors,
           Kid(t, g, side) \in Index \ {g},
           Kid(t, Kid(t, g, side), Across(side)) \in Index \ {g, Kid(t, g, side)}
    PROVE  SameValues(t, RotateDouble(t, g, side, c1, c2, c3))
<1> DEFINE far == Across(side)
           p == Kid(t, g, side)
           middle == Kid(t, p, far)
           toP == Kid(t, middle, side)
           toG == Kid(t, middle, far)
           up == Up(t, g)
           n1 == [t.node[middle] EXCEPT !.color = c1, !.parent = up, ![side] = p, ![far] = g]
           n2 == [t.node[p] EXCEPT !.color = c2, !.parent = middle, ![far] = toP]
           n3 == [t.node[g] EXCEPT !.color = c3, !.parent = middle, ![side] = toG]
           t1 == PutNode(t, middle, n1)
           t2 == PutNode(t1, p, n2)
           t3 == PutNode(t2, g, n3)
           t4 == SetParent(t3, toP, p)
           t5 == SetParent(t4, toG, g)
           u == Relink(t5, up, g, middle)
<1>1. /\ far \in Sides /\ p \in Index /\ middle \in Index /\ p # g /\ middle # g /\ middle # p
      /\ p \in Links /\ g \in Links /\ middle \in Links
  BY AcrossSides DEF Links
<1>2. toP \in Links /\ toG \in Links /\ up \in Links
  BY <1>1, LinksTyped
<1> HIDE DEF far, p, middle, toP, toG, up
<1>3. t.node[middle] \in Nodes /\ t.node[p] \in Nodes /\ t.node[g] \in Nodes
  BY <1>1 DEF Trees
<1>4. /\ n1 \in Nodes /\ n1.value = t.node[middle].value
      /\ n2 \in Nodes /\ n2.value = t.node[p].value
      /\ n3 \in Nodes /\ n3.value = t.node[g].value
  <2>1. n1 \in Nodes /\ n1.value = t.node[middle].value
    BY <1>1, <1>2, <1>3 DEF Nodes, Sides
  <2>2. n2 \in Nodes /\ n2.value = t.node[p].value
    BY <1>1, <1>2, <1>3 DEF Nodes, Sides
  <2>3. n3 \in Nodes /\ n3.value = t.node[g].value
    BY <1>1, <1>2, <1>3 DEF Nodes, Sides
  <2>4. QED
    BY <2>1, <2>2, <2>3
<1>5. u = RotateDouble(t, g, side, c1, c2, c3)
  <2> DEFINE turned == [t EXCEPT !.node[middle] = n1, !.node[p] = n2, !.node[g] = n3]
  <2>1. RotateDouble(t, g, side, c1, c2, c3)
            = Relink(SetParent(SetParent(turned, toP, p), toG, g), up, g, middle)
    BY DEF RotateDouble, far, p, middle, toP, toG, up, Kid, Up
  <2> HIDE DEF n1, n2, n3
  <2>2. turned = t3
    BY DEF PutNode
  <2> HIDE DEF turned, t3
  <2>3. QED
    BY <2>1, <2>2
<1> HIDE DEF n1, n2, n3
<1>6. t1 \in Trees /\ \A j \in Index : t1.node[j] = IF j = middle THEN n1 ELSE t.node[j]
  BY <1>1, <1>4, PutNodeLinks
<1> HIDE DEF t1
<1>7. t2 \in Trees /\ \A j \in Index : t2.node[j] = IF j = p THEN n2 ELSE t1.node[j]
  BY <1>1, <1>4, <1>6, PutNodeLinks
<1> HIDE DEF t2
<1>8. t3 \in Trees /\ \A j \in Index : t3.node[j] = IF j = g THEN n3 ELSE t2.node[j]
  BY <1>1, <1>4, <1>7, PutNodeLinks
<1> HIDE DEF t3
<1>9. SameValues(t, t3)
  BY <1>1, <1>4, <1>6, <1>7, <1>8 DEF SameValues
<1>10. t4 \in Trees /\ SameValues(t3, t4)
  BY <1>1, <1>2, <1>8, SetParentLinks, SetParentValues
<1> HIDE DEF t4
<1>11. t5 \in Trees /\ SameValues(t4, t5)
  BY <1>1, <1>2, <1>10, SetParentLinks, SetParentValues
<1> HIDE DEF t5
<1>12. SameValues(t5, u)
  BY <1>2, <1>11, RelinkValues
<1>13. QED
  BY <1>5, <1>9, <1>10, <1>11, <1>12 DEF SameValues

LEMMA SplicedValues ==
    ASSUME NEW t \in Trees, NEW a \in Index
    PROVE  SameValues(t, Spliced(t, a).tree)
<1> DEFINE kid == IF Kid(t, a, "left") # NIL THEN Kid(t, a, "left") ELSE Kid(t, a, "right")
           up == Up(t, a)
           v == SetParent(t, kid, up)
           u == Relink(v, up, a, kid)
<1>1. kid \in Links /\ up \in Links
  BY LinksTyped DEF Sides
<1>2. Spliced(t, a).tree = u
  BY DEF Spliced, Kid, Up
<1> HIDE DEF kid, up
<1>3. v \in Trees /\ SameValues(t, v)
  BY <1>1, SetParentLinks, SetParentValues
<1> HIDE DEF v
<1>4. SameValues(v, u)
  BY <1>1, <1>3, RelinkValues
<1>5. QED
  BY <1>2, <1>3, <1>4 DEF SameValues

LEMMA TransplantedValues ==
    ASSUME NEW t \in Trees, NEW a \in Index, NEW next, SucceedsNode(t, a, next)
    PROVE  SameValues(t, Transplanted(t, a).tree)
<1> DEFINE left == Kid(t, a, "left")
           right == Kid(t, a, "right")
           up == Up(t, a)
           kid == Kid(t, next, "right")
           near == Up(t, next) = a
           above == IF near THEN next ELSE Up(t, next)
           cut == IF near THEN t ELSE SetParent(SetKid(t, above, "left", kid), right, next)
           m1 == SetParent(cut, kid, above)
           m2 == SetParent(m1, left, next)
           third == IF near THEN kid ELSE right
           color == t.node[a].color
           n == WithFields(m2.node[next], up, left, third, color)
           m3 == PutNode(m2, next, n)
           u == Relink(m3, up, a, next)
<1>1. /\ left \in Links /\ right \in Links /\ up \in Links /\ kid \in Links /\ above \in Index
      /\ next \in Index /\ next \in Links /\ above \in Links
      /\ "left" \in Sides /\ color \in Colors
  BY LinksTyped DEF SucceedsNode, Links, Sides, Trees, Nodes
<1>2. third \in Links
  BY <1>1
<1>3. Transplanted(t, a).tree = Relink(SetFields(m2, next, up, left, third, color), up, a, next)
  <2>1. RepairParent(t, a, next) = above
    BY DEF RepairParent, Up
  <2> HIDE DEF above
  <2>2. next = Outermost(t, t.node[a].right, "left")
    BY DEF SucceedsNode
  <2>3. QED
    BY <2>1, <2>2 DEF Transplanted, SetKid, SetFields, Kid, Up
<1> HIDE DEF left, right, up, kid, near, above, color
<1>4. cut \in Trees /\ SameValues(t, cut)
  <2>1. CASE near
    BY <2>1 DEF SameValues
  <2>2. CASE ~ near
    <3> DEFINE c == SetKid(t, above, "left", kid)
    <3>1. c \in Trees /\ SameValues(t, c)
      BY <1>1, SetKidLinks, SetKidValues
    <3>2. cut = SetParent(c, right, next)
      BY <2>2
    <3> HIDE DEF c, cut
    <3>3. cut \in Trees /\ SameValues(c, cut)
      BY <1>1, <3>1, <3>2, SetParentLinks, SetParentValues
    <3>4. QED
      BY <3>1, <3>3 DEF SameValues
  <2>3. QED
    BY <2>1, <2>2
<1> HIDE DEF cut
<1>5. m1 \in Trees /\ SameValues(cut, m1)
  BY <1>1, <1>4, SetParentLinks, SetParentValues
<1> HIDE DEF m1
<1>6. m2 \in Trees /\ SameValues(m1, m2)
  BY <1>1, <1>5, SetParentLinks, SetParentValues
<1> HIDE DEF m2, third
<1>7. n \in Nodes /\ SetFields(m2, next, up, left, third, color) = m3
  BY <1>1, <1>2, <1>6, PutFields
<1>8. n.value = m2.node[next].value
  <2>1. m2.node[next] \in Nodes
    BY <1>1, <1>6 DEF Trees
  <2>2. QED
    BY <2>1 DEF WithFields, Nodes
<1>9. Transplanted(t, a).tree = u
  BY <1>3, <1>7
<1> HIDE DEF n
<1>10. m3 \in Trees /\ \A j \in Index : m3.node[j] = IF j = next THEN n ELSE m2.node[j]
  BY <1>1, <1>6, <1>7, PutNodeLinks
<1> HIDE DEF m3
<1>11. SameValues(m3, u)
  BY <1>1, <1>10, RelinkValues
<1>12. QED
  BY <1>4, <1>5, <1>6, <1>8, <1>9, <1>10, <1>11 DEF SameValues

\* A removal writes no value.
LEMMA CutValues ==
    ASSUME NEW t \in Trees, NEW U \in SUBSET Index, IsTree(t, U), NEW a \in U
    PROVE  SameValues(t, Cut(t, a).tree)
<1>1. CASE ~ IsInternal(t, a)
  <2>1. Cut(t, a) = Spliced(t, a) /\ a \in Index
    BY <1>1 DEF Cut
  <2>2. QED
    BY <2>1, SplicedValues
<1>2. CASE IsInternal(t, a)
  <2>1. Cut(t, a) = Transplanted(t, a)
    BY <1>2 DEF Cut
  <2>2. QED
    BY <1>2, <2>1, SuccessorSucceeds, TransplantedValues
<1>3. QED
  BY <1>1, <1>2

-----------------------------------------------------------------------------
(* No repair changes the order.                                            *)

\* The tree u lists what the tree t lists.
Keeps(t, u, U) ==
    /\ u \in Trees /\ IsTree(u, U) /\ u.max = t.max
    /\ SameValues(t, u)
    /\ \A s : Ordered(t, U, s) => Ordered(u, U, s)

LEMMA KeepsOn ==
    ASSUME NEW t, NEW u, NEW v, NEW U, Keeps(t, u, U), Keeps(u, v, U)
    PROVE  Keeps(t, v, U)
BY DEF Keeps, SameValues

LEMMA SameTreeKeeps ==
    ASSUME NEW t \in Trees, NEW U, IsTree(t, U)
    PROVE  Keeps(t, t, U)
BY DEF Keeps, SameValues

LEMMA ColorKeeps ==
    ASSUME NEW t \in Trees, NEW U \in SUBSET Index, IsTree(t, U), NEW i \in Links, NEW color \in Colors
    PROVE  Keeps(t, SetColor(t, i, color), U) /\ SameLinks(t, SetColor(t, i, color))
<1> DEFINE u == SetColor(t, i, color)
<1>1. u \in Trees /\ u.max = t.max /\ IsTree(u, U) /\ SameLinks(t, u)
  BY ColoredTree
<1>2. SameValues(t, u)
  BY SetColorValues
<1> HIDE DEF u
<1>3. ASSUME NEW s, Ordered(t, U, s)
      PROVE  Ordered(u, U, s)
  <2>1. PICK p : Enumerates(s, U, p) /\ \E e : Spanned(t, U, p, e, Len(s))
    BY <1>3 DEF Ordered
  <2>2. PICK e : Spanned(t, U, p, e, Len(s))
    BY <2>1
  <2>3. Spanned(u, U, p, e, Len(s))
    BY <1>1, <2>2, SameLinksSpanned
  <2>4. QED
    BY <2>1, <2>3 DEF Ordered
<1>4. QED
  BY <1>1, <1>2, <1>3 DEF Keeps, u

LEMMA RotateKeeps ==
    ASSUME NEW t \in Trees, NEW U \in SUBSET Index, IsTree(t, U), NEW g \in U, NEW side \in Sides,
           Kid(t, g, Across(side)) # NIL
    PROVE  Keeps(t, Rotate(t, g, side), U)
<1> DEFINE u == Rotate(t, g, side)
<1>1. u \in Trees /\ u.max = t.max /\ IsTree(u, U) /\ Rotated(t, u, g, side)
  BY RotateTree
<1>2. SameValues(t, u)
  BY RotateValues
<1> HIDE DEF u
<1>3. ASSUME NEW s, Ordered(t, U, s)
      PROVE  Ordered(u, U, s)
  <2>1. PICK p : Enumerates(s, U, p) /\ \E e : Spanned(t, U, p, e, Len(s))
    BY <1>3 DEF Ordered
  <2>2. PICK e : Spanned(t, U, p, e, Len(s))
    BY <2>1
  <2>3. p \in [U -> Int]
    BY <2>1 DEF Enumerates
  <2>4. \E f : Spanned(u, U, p, f, Len(s))
    BY <1>1, <2>2, <2>3, RotatedSpanned
  <2>5. QED
    BY <2>1, <2>4 DEF Ordered
<1>4. QED
  BY <1>1, <1>2, <1>3 DEF Keeps, u

LEMMA RotateDoubleKeeps ==
    ASSUME NEW t \in Trees, NEW U \in SUBSET Index, IsTree(t, U), NEW g \in U, NEW side \in Sides,
           NEW c1 \in Colors, NEW c2 \in Colors, NEW c3 \in Colors,
           Kid(t, g, side) # NIL, Kid(t, Kid(t, g, side), Across(side)) # NIL
    PROVE  Keeps(t, RotateDouble(t, g, side, c1, c2, c3), U)
<1> DEFINE u == RotateDouble(t, g, side, c1, c2, c3)
<1>1. u \in Trees /\ u.max = t.max /\ IsTree(u, U) /\ Doubled(t, u, g, side)
  BY RotateDoubleTree
<1>2. SameValues(t, u)
  <2> DEFINE p == Kid(t, g, side)
             m == Kid(t, p, Across(side))
  <2>1. PICK h : Graded(t, U, h)
    BY DEF IsTree
  <2>2. Joined(t, U) /\ Across(side) \in Sides
    BY AcrossSides DEF IsTree
  <2>3. p \in U /\ h[p] < h[g]
    BY <2>1, <2>2, Apart
  <2>4. m \in U /\ h[m] < h[p]
    <3> HIDE DEF p
    <3>1. QED
      BY <2>1, <2>2, <2>3, Apart DEF p
  <2>5. h[p] \in Nat /\ h[m] \in Nat /\ h[g] \in Nat
    BY <2>1, <2>3, <2>4 DEF Graded
  <2>6. p \in Index \ {g} /\ m \in Index \ {g, p}
    <3> HIDE DEF p, m
    <3>1. QED
      BY <2>3, <2>4, <2>5
  <2>7. QED
    BY <2>6, RotateDoubleValues
<1> HIDE DEF u
<1>3. ASSUME NEW s, Ordered(t, U, s)
      PROVE  Ordered(u, U, s)
  <2>1. PICK p : Enumerates(s, U, p) /\ \E e : Spanned(t, U, p, e, Len(s))
    BY <1>3 DEF Ordered
  <2>2. PICK e : Spanned(t, U, p, e, Len(s))
    BY <2>1
  <2>3. p \in [U -> Int]
    BY <2>1 DEF Enumerates
  <2>4. \E f : Spanned(u, U, p, f, Len(s))
    BY <1>1, <2>2, <2>3, DoubledSpanned
  <2>5. QED
    BY <2>1, <2>4 DEF Ordered
<1>4. QED
  BY <1>1, <1>2, <1>3 DEF Keeps, u

\* What a step of a repair promises: Fixed(u, r) with a tree u that lists the same.
Undisturbed == used' = used /\ Keeps(tree, tree', used)

LEMMA InsertFixRootKeeps ==
    ASSUME TreeInv, InsertFixRoot
    PROVE  Undisturbed
<1> DEFINE top == IF tree.root = repair.at THEN repair.at ELSE FixParent
           u == SetColor(tree, top, "black")
<1>1. tree \in Trees /\ used \in SUBSET Index /\ IsTree(tree, used) /\ repair.at \in used
  BY DEF TreeInv, RepairSound, InsertFixRoot, Done
<1>2. top \in Links /\ "black" \in Colors
  BY <1>1, LinksTyped, ChildIsKid DEF FixParent, Links, Colors
<1>3. Fixed(u, Done)
  BY DEF InsertFixRoot
<1> HIDE DEF top
<1>4. Keeps(tree, u, used)
  BY <1>1, <1>2, ColorKeeps
<1> HIDE DEF u
<1>5. QED
  BY <1>3, <1>4 DEF Undisturbed, Fixed

LEMMA InsertFixNothingKeeps ==
    ASSUME TreeInv, InsertFixNothing
    PROVE  Undisturbed
<1>1. tree' = tree /\ used' = used /\ tree \in Trees /\ IsTree(tree, used)
  BY DEF InsertFixNothing, Fixed, TreeInv
<1>2. QED
  BY <1>1, SameTreeKeeps DEF Undisturbed

LEMMA InsertFixRecolorKeeps ==
    ASSUME TreeInv, InsertFixRecolor
    PROVE  Undisturbed
<1> DEFINE t1 == SetColor(tree, FixParent, "black")
           t2 == SetColor(t1, FixUncle, "black")
           t3 == SetColor(t2, FixGrandparent, "red")
<1>1. /\ FixParent \in Links /\ FixUncle \in Links /\ FixGrandparent \in Links
      /\ "black" \in Colors /\ "red" \in Colors
      /\ tree \in Trees /\ used \in SUBSET Index /\ IsTree(tree, used)
  BY FixFamily DEF InsertFixRecolor, TreeInv, Links, Colors
<1>2. Fixed(t3, Inserting(FixGrandparent))
  BY DEF InsertFixRecolor
<1>3. Keeps(tree, t1, used)
  BY <1>1, ColorKeeps
<1> HIDE DEF t1
<1>4. Keeps(t1, t2, used)
  BY <1>1, <1>3, ColorKeeps DEF Keeps
<1> HIDE DEF t2
<1>5. Keeps(t2, t3, used)
  BY <1>1, <1>4, ColorKeeps DEF Keeps
<1> HIDE DEF t3
<1>6. Keeps(tree, t3, used)
  BY <1>3, <1>4, <1>5, KeepsOn
<1>7. QED
  BY <1>2, <1>6 DEF Undisturbed, Fixed

LEMMA InsertFixOuterKeeps ==
    ASSUME TreeInv, InsertFixOuter
    PROVE  Undisturbed
<1> DEFINE p == FixParent
           g == FixGrandparent
           side == Across(FixSide)
           t1 == Rotate(tree, g, side)
           t2 == SetColor(t1, g, Color(tree, p))
           t3 == SetColor(t2, p, Color(tree, g))
<1>1. /\ p \in Links /\ g \in used /\ g \in Links /\ FixSide \in Sides
      /\ Kid(tree, g, FixSide) = p /\ p # NIL
      /\ Color(tree, p) \in Colors /\ Color(tree, g) \in Colors
      /\ tree \in Trees /\ used \in SUBSET Index /\ IsTree(tree, used)
  BY FixFamily DEF InsertFixOuter, TreeInv, Links
<1>2. Fixed(t3, Done)
  BY DEF InsertFixOuter
<1> HIDE DEF p, g
<1>3. side \in Sides /\ Kid(tree, g, Across(side)) # NIL
  BY <1>1, AcrossSides
<1>4. Keeps(tree, t1, used)
  <2> HIDE DEF side
  <2>1. QED
    BY <1>1, <1>3, RotateKeeps
<1> HIDE DEF t1
<1>5. Keeps(t1, t2, used)
  BY <1>1, <1>4, ColorKeeps DEF Keeps
<1> HIDE DEF t2
<1>6. Keeps(t2, t3, used)
  BY <1>1, <1>5, ColorKeeps DEF Keeps
<1> HIDE DEF t3
<1>7. Keeps(tree, t3, used)
  BY <1>4, <1>5, <1>6, KeepsOn
<1>8. QED
  BY <1>2, <1>7 DEF Undisturbed, Fixed

LEMMA InsertFixInnerKeeps ==
    ASSUME TreeInv, InsertFixInner
    PROVE  Undisturbed
<1> DEFINE p == FixParent
           g == FixGrandparent
           t1 == RotateDouble(tree, g, FixSide, Color(tree, g), Color(tree, p), "red")
<1>1. /\ g \in used /\ FixSide \in Sides /\ Kid(tree, g, FixSide) = p /\ p # NIL
      /\ Kid(tree, p, FixSide) # repair.at => Kid(tree, p, Across(FixSide)) = repair.at
      /\ repair.at # NIL
      /\ Color(tree, p) \in Colors /\ Color(tree, g) \in Colors /\ "red" \in Colors
      /\ tree \in Trees /\ used \in SUBSET Index /\ IsTree(tree, used)
  BY FixFamily DEF InsertFixInner, TreeInv, Colors
<1>2. Fixed(t1, Done) /\ Kid(tree, p, FixSide) # repair.at
  BY DEF InsertFixInner, Kid
<1> HIDE DEF p, g
<1>3. Keeps(tree, t1, used)
  BY <1>1, <1>2, RotateDoubleKeeps
<1> HIDE DEF t1
<1>4. QED
  BY <1>2, <1>3 DEF Undisturbed, Fixed

LEMMA RemoveFixRootKeeps ==
    ASSUME TreeInv, RemoveFixRoot
    PROVE  Undisturbed
<1>1. tree' = tree /\ used' = used /\ tree \in Trees /\ IsTree(tree, used)
  BY DEF RemoveFixRoot, Fixed, TreeInv
<1>2. QED
  BY <1>1, SameTreeKeeps DEF Undisturbed

LEMMA RemoveFixRedSiblingKeeps ==
    ASSUME TreeInv, RemoveFixRedSibling
    PROVE  Undisturbed
<1> DEFINE g == repair.parent
           side == FixedSide
           p == FixSibling
           t1 == Rotate(tree, g, side)
           t2 == SetColor(t1, g, "red")
           t3 == SetColor(t2, p, "black")
<1>1. /\ g \in used /\ side \in Sides /\ p = Kid(tree, g, Across(side)) /\ p \in used \cup {NIL}
  BY FixPlace DEF RemoveFixRedSibling
<1>2. Fixed(t3, Removing(repair.at, g)) /\ p # NIL
  BY RedIsBlock DEF RemoveFixRedSibling
<1>3. /\ tree \in Trees /\ used \in SUBSET Index /\ IsTree(tree, used)
      /\ "black" \in Colors /\ "red" \in Colors
  BY DEF TreeInv, Colors
<1>4. g \in Links /\ p \in Links
  BY <1>1, <1>3 DEF Links
<1> HIDE DEF side, p, g
<1>5. Keeps(tree, t1, used)
  BY <1>1, <1>2, <1>3, RotateKeeps
<1> HIDE DEF t1
<1>6. Keeps(t1, t2, used)
  BY <1>3, <1>4, <1>5, ColorKeeps DEF Keeps
<1> HIDE DEF t2
<1>7. Keeps(t2, t3, used)
  BY <1>3, <1>4, <1>6, ColorKeeps DEF Keeps
<1> HIDE DEF t3
<1>8. Keeps(tree, t3, used)
  BY <1>5, <1>6, <1>7, KeepsOn
<1>9. QED
  BY <1>2, <1>8 DEF Undisturbed, Fixed

LEMMA RemoveFixOuterKeeps ==
    ASSUME TreeInv, RemoveFixOuter
    PROVE  Undisturbed
<1> DEFINE g == repair.parent
           side == FixedSide
           p == FixSibling
           t1 == SetColor(tree, OuterNephew, "black")
           t2 == SetColor(t1, g, "black")
           t3 == SetColor(t2, p, Color(tree, g))
           t4 == Rotate(t3, g, side)
<1>1. /\ g \in used /\ side \in Sides
      /\ p = Kid(tree, g, Across(side)) /\ p \in used \cup {NIL}
  BY FixPlace DEF RemoveFixOuter
<1>2. Fixed(t4, Done) /\ OuterNephew # NIL
  BY RedIsBlock DEF RemoveFixOuter
<1>3. /\ tree \in Trees /\ used \in SUBSET Index /\ IsTree(tree, used) /\ NIL \notin used
      /\ "black" \in Colors /\ Across(side) \in Sides
  BY <1>1, NilNoBlock, AcrossSides DEF TreeInv, Colors
<1>4. p # NIL
  BY <1>2 DEF OuterNephew, Child
<1>5. OuterNephew \in Links /\ g \in Links /\ p \in Links
  <2>1. p \in Index /\ g \in Index
    BY <1>1, <1>3, <1>4
  <2>2. OuterNephew = Kid(tree, p, Across(side))
    BY <2>1, ChildIsKid DEF OuterNephew
  <2>3. OuterNephew \in Links
    <3> HIDE DEF p, side
    <3>1. QED
      BY <1>3, <2>1, <2>2, LinksTyped
  <2>4. QED
    BY <2>1, <2>3 DEF Links
<1>6. Color(tree, g) \in Colors
  BY <1>3, <1>5, ColorTyped
<1> HIDE DEF side, p, g
<1>7. Keeps(tree, t1, used) /\ SameLinks(tree, t1)
  BY <1>3, <1>5, ColorKeeps
<1> HIDE DEF t1
<1>8. Keeps(t1, t2, used) /\ SameLinks(t1, t2)
  BY <1>3, <1>5, <1>7, ColorKeeps DEF Keeps
<1> HIDE DEF t2
<1>9. Keeps(t2, t3, used) /\ SameLinks(t2, t3)
  BY <1>3, <1>5, <1>6, <1>8, ColorKeeps DEF Keeps
<1> HIDE DEF t3
<1>10. Kid(t3, g, Across(side)) # NIL
  <2>1. g \in Index
    BY <1>1, <1>3
  <2>2. Kid(t3, g, Across(side)) = Kid(tree, g, Across(side))
    BY <1>3, <1>7, <1>8, <1>9, <2>1 DEF SameLinks
  <2>3. QED
    BY <1>1, <1>4, <2>2
<1>11. Keeps(t3, t4, used)
  BY <1>1, <1>3, <1>9, <1>10, RotateKeeps DEF Keeps
<1> HIDE DEF t4
<1>12. Keeps(tree, t4, used)
  <2>1. Keeps(tree, t3, used)
    BY <1>7, <1>8, <1>9, KeepsOn
  <2>2. QED
    BY <1>11, <2>1, KeepsOn
<1>13. QED
  BY <1>2, <1>12 DEF Undisturbed, Fixed

LEMMA RemoveFixInnerKeeps ==
    ASSUME TreeInv, RemoveFixInner
    PROVE  Undisturbed
<1> DEFINE g == repair.parent
           side == Across(FixedSide)
           p == FixSibling
           u == RotateDouble(tree, g, side, Color(tree, g), "black", "black")
<1>1. /\ g \in used /\ FixedSide \in Sides /\ p = Kid(tree, g, side) /\ p \in used \cup {NIL}
  BY FixPlace DEF RemoveFixInner
<1>2. Fixed(u, Done) /\ InnerNephew # NIL
  BY RedIsBlock DEF RemoveFixInner
<1>3. /\ tree \in Trees /\ used \in SUBSET Index /\ IsTree(tree, used) /\ NIL \notin used
      /\ "black" \in Colors /\ side \in Sides /\ Across(side) = FixedSide
  BY <1>1, NilNoBlock, AcrossSides DEF TreeInv, Colors
<1>4. p # NIL
  BY <1>2 DEF InnerNephew, Child
<1>5. Kid(tree, p, Across(side)) # NIL
  <2>1. p \in Index
    BY <1>1, <1>3, <1>4
  <2>2. InnerNephew = Kid(tree, p, FixedSide)
    BY <2>1, ChildIsKid DEF InnerNephew
  <2>3. QED
    BY <1>2, <1>3, <2>2
<1>6. Color(tree, g) \in Colors
  BY <1>1, <1>3, ColorTyped DEF Links
<1> HIDE DEF p, g, side
<1>7. Keeps(tree, u, used)
  BY <1>1, <1>3, <1>4, <1>5, <1>6, RotateDoubleKeeps
<1> HIDE DEF u
<1>8. QED
  BY <1>2, <1>7 DEF Undisturbed, Fixed

LEMMA RemoveFixAbsorbKeeps ==
    ASSUME TreeInv, RemoveFixAbsorb
    PROVE  Undisturbed
<1> DEFINE t1 == SetColor(tree, FixSibling, "red")
           t2 == SetColor(t1, repair.parent, "black")
<1>1. /\ repair.parent \in Links /\ FixSibling \in Links
      /\ tree \in Trees /\ used \in SUBSET Index /\ IsTree(tree, used)
      /\ "black" \in Colors /\ "red" \in Colors
  BY FixPlace DEF RemoveFixAbsorb, BlackNephews, TreeInv, Colors, Links
<1>2. Fixed(t2, Done)
  BY DEF RemoveFixAbsorb
<1>3. Keeps(tree, t1, used)
  BY <1>1, ColorKeeps
<1> HIDE DEF t1
<1>4. Keeps(t1, t2, used)
  BY <1>1, <1>3, ColorKeeps DEF Keeps
<1> HIDE DEF t2
<1>5. QED
  BY <1>2, <1>3, <1>4, KeepsOn DEF Undisturbed, Fixed

LEMMA RemoveFixPropagateKeeps ==
    ASSUME TreeInv, RemoveFixPropagate
    PROVE  Undisturbed
<1> DEFINE u == SetColor(tree, FixSibling, "red")
<1>1. /\ FixSibling \in Links
      /\ tree \in Trees /\ used \in SUBSET Index /\ IsTree(tree, used) /\ "red" \in Colors
  BY FixPlace DEF RemoveFixPropagate, BlackNephews, TreeInv, Colors, Links
<1>2. tree' = u /\ used' = used
  BY DEF RemoveFixPropagate, Fixed
<1>3. Keeps(tree, u, used)
  BY <1>1, ColorKeeps
<1> HIDE DEF u
<1>4. QED
  BY <1>2, <1>3 DEF Undisturbed

LEMMA RepairKeeps ==
    ASSUME TreeInv, InsertFix \/ RemoveFix
    PROVE  Undisturbed
BY InsertFixRootKeeps, InsertFixNothingKeeps, InsertFixRecolorKeeps, InsertFixOuterKeeps,
   InsertFixInnerKeeps, RemoveFixRootKeeps, RemoveFixRedSiblingKeeps, RemoveFixOuterKeeps,
   RemoveFixInnerKeeps, RemoveFixAbsorbKeeps, RemoveFixPropagateKeeps DEF InsertFix, RemoveFix

-----------------------------------------------------------------------------
(* The values of the listing.                                              *)

Key(t, i) == t.node[i].value.key

\* The smallest key first.
Sorted(t, s) == \A m, n \in 1 .. Len(s) : m <= n => Key(t, s[m]) <= Key(t, s[n])

\* The stored maximum is the last of the listing.
MaxExact(t, s) == t.max = IF TRACKS_MAX /\ s # << >> THEN s[Len(s)] ELSE NIL

LEMMA KeysAreNumbers ==
    /\ \A t \in Trees, i \in Index : t.node[i].value \in Values /\ Key(t, i) \in Int
    /\ \A value \in Values : value.key \in Int
BY TreeAssumption DEF Trees, Nodes, Values, Key

\* The search for the place of a value ends with the smaller keys before it and the
\* others behind it.
LEMMA DescentPlace ==
    ASSUME NEW t \in Trees, NEW U \in SUBSET Index, IsTree(t, U), t.root # NIL,
           NEW value \in Values, NEW s, NEW p, Enumerates(s, U, p),
           NEW e, Spanned(t, U, p, e, Len(s)), Sorted(t, s)
    PROVE  \A n \in 1 .. Len(s) :
                Key(t, s[n]) < value.key <=> n <= Before(p, Descend(t, value))
<1> DEFINE N == Len(s)
           Less(n) == Key(t, s[n]) < value.key
           Low(i) == e[i]["left"]
           High(i) == e[i]["right"]
           Y == {i \in U : \A n \in 1 .. N : (n < Low(i) => Less(n)) /\ (n > High(i) => ~ Less(n))}
           D(i) == DescentSide(t, value, i)
<1>1. /\ Joined(t, U) /\ Weighed(t, U, Weights(t, U)) /\ NIL \notin U
      /\ "left" \in Sides /\ "right" \in Sides /\ "left" # "right"
      /\ Across("left") = "right" /\ Across("right") = "left"
      /\ Forth("right") = 1 /\ Forth("left") = - 1
  BY TreeWeighed, NilNoBlock DEF IsTree, Sides, Across, Forth
<1>2. /\ N \in Nat /\ \A i \in U : p[i] \in 1 .. N /\ s[p[i]] = i
      /\ \A n \in 1 .. N : s[n] \in U /\ Key(t, s[n]) \in Int
      /\ value.key \in Int
  BY KeysAreNumbers DEF Enumerates
<1>3. \A i \in U : /\ Low(i) \in Int /\ High(i) \in Int /\ Low(i) <= p[i] /\ p[i] <= High(i)
                   /\ D(i) = (IF Less(p[i]) THEN "right" ELSE "left")
  <2>1. ASSUME NEW i \in U
        PROVE  D(i) = (IF Less(p[i]) THEN "right" ELSE "left")
    <3>1. Above(value, t.node[i].value) <=> Less(p[i])
      BY <1>2 DEF Above, Key
    <3>2. QED
      BY <3>1 DEF DescentSide
  <2>2. QED
    BY <1>1, <2>1 DEF Spanned
<1>4. \A m, n \in 1 .. N : m <= n /\ Less(n) => Less(m)
  <2>1. ASSUME NEW m \in 1 .. N, NEW n \in 1 .. N, m <= n, Less(n)
        PROVE  Less(m)
    <3>1. Key(t, s[m]) <= Key(t, s[n]) /\ Key(t, s[n]) < value.key
      BY <2>1 DEF Sorted
    <3>2. QED
      BY <1>2, <3>1
  <2>2. QED
    BY <2>1
<1> HIDE DEF Less, D
<1>5. \A i \in U, side \in Sides :
            LET kid == Kid(t, i, side)
            IN  IF kid = NIL THEN e[i][side] = p[i]
                ELSE kid \in U /\ e[kid][side] = e[i][side] /\ e[kid][Across(side)] = p[i] + Forth(side)
  BY <1>1 DEF Spanned, Fills, Joined
<1>6. t.root \in Y
  <2>1. t.root \in U /\ Low(t.root) = 1 /\ High(t.root) = N
    BY <1>1 DEF Joined, Spanned
  <2>2. QED
    BY <1>2, <2>1
<1>7. ASSUME NEW i \in Y
      PROVE  Kid(t, i, D(i)) \in Y \cup {NIL}
  <2> DEFINE k == Kid(t, i, D(i))
  <2> SUFFICES ASSUME k # NIL PROVE k \in Y
    OBVIOUS
  <2>1. /\ i \in U /\ p[i] \in 1 .. N
        /\ \A n \in 1 .. N : (n < Low(i) => Less(n)) /\ (n > High(i) => ~ Less(n))
    BY <1>2
  <2>2. CASE Less(p[i])
    <3>1. D(i) = "right"
      BY <1>3, <2>1, <2>2
    <3>2. k \in U /\ High(k) = High(i) /\ Low(k) = p[i] + 1
      BY <1>1, <1>5, <2>1, <3>1
    <3> HIDE DEF k
    <3>3. ASSUME NEW n \in 1 .. N
          PROVE  (n < Low(k) => Less(n)) /\ (n > High(k) => ~ Less(n))
      BY <1>3, <1>4, <2>1, <2>2, <3>2
    <3>4. QED
      BY <3>2, <3>3 DEF k
  <2>3. CASE ~ Less(p[i])
    <3>1. D(i) = "left"
      BY <1>3, <2>1, <2>3
    <3>2. k \in U /\ Low(k) = Low(i) /\ High(k) = p[i] - 1
      BY <1>1, <1>2, <1>5, <2>1, <3>1
    <3> HIDE DEF k
    <3>3. ASSUME NEW n \in 1 .. N
          PROVE  (n < Low(k) => Less(n)) /\ (n > High(k) => ~ Less(n))
      BY <1>3, <1>4, <2>1, <2>3, <3>2
    <3>4. QED
      BY <3>2, <3>3 DEF k
  <2>4. QED
    BY <2>2, <2>3
<1>8. /\ Y \in SUBSET U
      /\ \A i \in Y, n \in 1 .. N : (n < Low(i) => Less(n)) /\ (n > High(i) => ~ Less(n))
  OBVIOUS
<1> HIDE DEF Y
<1> DEFINE place == Descend(t, value)
           c == place.parent
<1>9. c \in Y /\ place.side = D(c) /\ Kid(t, c, D(c)) = NIL
  <2>1. \A j \in Y : Kid(t, j, DescentSide(t, value, j)) \in Y \cup {NIL}
    BY <1>7 DEF D
  <2>2. /\ place.parent \in Y /\ place.side = DescentSide(t, value, place.parent)
        /\ Kid(t, place.parent, place.side) = NIL
    BY <1>1, <1>6, <1>8, <2>1, DescendIn
  <2>3. QED
    BY <2>2 DEF D
<1> HIDE DEF c
<1>10. Before(p, place) = IF D(c) = "right" THEN p[c] ELSE p[c] - 1
  BY <1>9 DEF Before, c
<1>11. c \in U /\ p[c] \in 1 .. N
  BY <1>2, <1>8, <1>9
<1>12. ASSUME NEW n \in 1 .. N
       PROVE  Less(n) <=> n <= Before(p, place)
  <2>1. CASE Less(p[c])
    <3>1. D(c) = "right" /\ High(c) = p[c]
      BY <1>1, <1>3, <1>5, <1>9, <1>11, <2>1
    <3>2. QED
      BY <1>4, <1>8, <1>9, <1>10, <1>11, <2>1, <3>1
  <2>2. CASE ~ Less(p[c])
    <3>1. D(c) = "left" /\ Low(c) = p[c]
      BY <1>1, <1>3, <1>5, <1>9, <1>11, <2>2
    <3>2. QED
      BY <1>1, <1>4, <1>8, <1>9, <1>10, <1>11, <2>2, <3>1
  <2>3. QED
    BY <2>1, <2>2
<1>13. QED
  BY <1>12 DEF Less

\* So does the place that a value above the maximum is given without a search.
LEMMA LeafPlaceOrdered ==
    ASSUME NEW t \in Trees, NEW U \in SUBSET Index, IsTree(t, U), t.root # NIL,
           NEW value \in Values, NEW s, NEW p, Enumerates(s, U, p),
           NEW e, Spanned(t, U, p, e, Len(s)), Sorted(t, s), MaxExact(t, s)
    PROVE  /\ \A n \in 1 .. Len(s) :
                Key(t, s[n]) < value.key <=> n <= Before(p, LeafPlace(t, value))
           /\ ExceedsMax(t, value) <=> TRACKS_MAX /\ Before(p, LeafPlace(t, value)) = Len(s)
<1> DEFINE N == Len(s)
           place == LeafPlace(t, value)
           k == Before(p, place)
           max == t.max
<1>1. N \in Nat /\ N # 0 /\ t.root \in U
  <2>1. t.root \in U
    BY DEF IsTree, Joined
  <2>2. N \in Nat /\ p[t.root] \in 1 .. N
    BY <2>1 DEF Enumerates
  <2>3. QED
    BY <2>1, <2>2
<1>2. /\ s[N] \in U /\ p[s[N]] = N /\ s # << >>
      /\ \A n \in 1 .. N : Key(t, s[n]) \in Int /\ Key(t, s[n]) <= Key(t, s[N])
      /\ value.key \in Int /\ s[N] # NIL
  <2>1. N \in 1 .. N
    BY <1>1
  <2>2. s[N] \in U /\ p[s[N]] = N /\ \A n \in 1 .. N : s[n] \in U
    BY <2>1 DEF Enumerates
  <2>3. \A n \in 1 .. N : Key(t, s[n]) <= Key(t, s[N])
    BY <2>1 DEF Sorted
  <2>4. s # << >>
    BY <1>1
  <2>5. QED
    BY <2>2, <2>3, <2>4, KeysAreNumbers, NilNoBlock
<1>3. max = IF TRACKS_MAX THEN s[N] ELSE NIL
  BY <1>2 DEF MaxExact
<1>4. ExceedsMax(t, value) <=> TRACKS_MAX /\ Key(t, s[N]) < value.key
  BY <1>2, <1>3 DEF ExceedsMax, Above, Key
<1>5. \A n \in 1 .. N : Key(t, s[n]) < value.key <=> n <= k
  <2>1. CASE place = Descend(t, value)
    BY <2>1, DescentPlace
  <2>2. CASE place # Descend(t, value)
    <3>1. ExceedsMax(t, value) /\ place = [parent |-> max, side |-> "right"]
      BY <2>2 DEF LeafPlace
    <3>2. k = N /\ Key(t, s[N]) < value.key
      BY <1>2, <1>3, <1>4, <3>1 DEF Before
    <3> HIDE DEF k
    <3>3. QED
      BY <1>1, <1>2, <3>2
  <2>3. QED
    BY <2>1, <2>2
<1>6. k <= N /\ k \in Int
  <2>1. /\ place.parent \in U /\ place.side \in Sides /\ Kid(t, place.parent, place.side) = NIL
    <3>1. Joined(t, U) /\ Weighed(t, U, Weights(t, U))
      BY TreeWeighed DEF IsTree
    <3>2. t.max \in U \cup {NIL}
      BY <1>2, <1>3
    <3>3. QED
      BY <3>1, <3>2, LeafPlaceFree
  <2> HIDE DEF place
  <2>2. p[place.parent] \in 1 .. N
    BY <2>1 DEF Enumerates
  <2>3. QED
    BY <1>1, <2>2 DEF Before
<1> HIDE DEF k
<1>7. N <= k <=> k = N
  BY <1>1, <1>6
<1>8. Key(t, s[N]) < value.key <=> k = N
  BY <1>1, <1>5, <1>7
<1>9. QED
  BY <1>4, <1>5, <1>8 DEF k

\* What the listing s tells a caller: blocks and values.
ListOf(t, s) == [n \in 1 .. Len(s) |-> [index |-> s[n], value |-> t.node[s[n]].value]]

Listings == [index : Index, value : Values]

LEMMA ListOfPlaces ==
    ASSUME NEW t \in Trees, NEW s \in Seq(Index)
    PROVE  /\ ListOf(t, s) \in Seq(Listings) /\ Len(ListOf(t, s)) = Len(s)
           /\ \A n \in 1 .. Len(s) :
                ListOf(t, s)[n] = [index |-> s[n], value |-> t.node[s[n]].value]
<1> DEFINE Entry(n) == [index |-> s[n], value |-> t.node[s[n]].value]
           N == Len(s)
           list == [n \in 1 .. N |-> Entry(n)]
<1>1. N \in Nat /\ \A n \in 1 .. N : s[n] \in Index
  OBVIOUS
<1>2. \A n \in 1 .. N : Entry(n) \in Listings
  BY <1>1, KeysAreNumbers DEF Listings
<1>3. ListOf(t, s) = list
  BY DEF ListOf
<1>4. \A n \in 1 .. N : list[n] = Entry(n)
  <2> HIDE DEF Entry
  <2>1. QED
    OBVIOUS
<1>5. list \in Seq(Listings) /\ Len(list) = N
  <2> HIDE DEF Entry, N, Listings
  <2>1. QED
    BY <1>1, <1>2
<1>6. QED
  BY <1>3, <1>4, <1>5

\* A tree with the same values and a value more.
ValuesWith(t, u, index, value) ==
    /\ u.node[index].value = value
    /\ \A j \in Index \ {index} : u.node[j].value = t.node[j].value

LEMMA ListWith ==
    ASSUME NEW t \in Trees, NEW u \in Trees, NEW index \in Index, NEW value \in Values,
           ValuesWith(t, u, index, value), NEW s \in Seq(Index),
           \A n \in 1 .. Len(s) : s[n] # index, NEW k \in 0 .. Len(s)
    PROVE  ListOf(u, InsertAt(s, k + 1, index))
              = InsertAt(ListOf(t, s), k + 1, [index |-> index, value |-> value])
<1> DEFINE N == Len(s)
           r == InsertAt(s, k + 1, index)
           a == ListOf(t, s)
           b == ListOf(u, r)
           i == [index |-> index, value |-> value]
           c == InsertAt(a, k + 1, i)
<1>1. N \in Nat /\ k \in 0 .. N /\ \A n \in 1 .. N : s[n] \in Index
  OBVIOUS
<1>2. /\ r \in Seq(Index) /\ Len(r) = N + 1
      /\ \A n \in 1 .. N + 1 : r[n] = IF n <= k THEN s[n] ELSE IF n = k + 1 THEN index ELSE s[n - 1]
  BY InsertAtPlaces
<1> HIDE DEF r
<1>3. /\ a \in Seq(Listings) /\ Len(a) = N
      /\ \A n \in 1 .. N : a[n] = [index |-> s[n], value |-> t.node[s[n]].value]
  BY ListOfPlaces
<1>4. /\ b \in Seq(Listings) /\ Len(b) = N + 1
      /\ \A n \in 1 .. N + 1 : b[n] = [index |-> r[n], value |-> u.node[r[n]].value]
  BY <1>2, ListOfPlaces
<1> HIDE DEF a, b
<1>5. /\ c \in Seq(Listings) /\ Len(c) = N + 1
      /\ \A n \in 1 .. N + 1 : c[n] = IF n <= k THEN a[n] ELSE IF n = k + 1 THEN i ELSE a[n - 1]
  <2>1. i \in Listings /\ k \in 0 .. Len(a)
    BY <1>3 DEF Listings
  <2> HIDE DEF i
  <2>2. QED
    BY <1>3, <2>1, InsertAtPlaces
<1> HIDE DEF c
<1>6. ASSUME NEW n \in 1 .. N + 1
      PROVE  b[n] = c[n]
  <2>1. b[n] = [index |-> r[n], value |-> u.node[r[n]].value]
    BY <1>4
  <2>2. CASE n <= k
    <3>1. n \in 1 .. N
      BY <1>1, <2>2
    <3>2. r[n] = s[n] /\ c[n] = a[n] /\ u.node[s[n]].value = t.node[s[n]].value
      BY <1>1, <1>2, <1>5, <2>2, <3>1 DEF ValuesWith
    <3>3. QED
      BY <1>3, <2>1, <3>1, <3>2
  <2>3. CASE n = k + 1
    <3>1. r[n] = index /\ c[n] = i /\ u.node[index].value = value
      BY <1>1, <1>2, <1>5, <2>3 DEF ValuesWith
    <3>2. QED
      BY <2>1, <3>1
  <2>4. CASE n > k + 1
    <3>1. n - 1 \in 1 .. N /\ n # k + 1 /\ ~ (n <= k)
      BY <1>1, <2>4
    <3>2. /\ r[n] = s[n - 1] /\ c[n] = a[n - 1]
          /\ u.node[s[n - 1]].value = t.node[s[n - 1]].value
      BY <1>1, <1>2, <1>5, <3>1 DEF ValuesWith
    <3>3. QED
      BY <1>3, <2>1, <3>1, <3>2
  <2>5. QED
    BY <1>1, <2>2, <2>3, <2>4
<1>7. b = c
  <2>1. Len(b) = Len(c) /\ \A n \in 1 .. Len(b) : b[n] = c[n]
    BY <1>4, <1>5, <1>6
  <2>2. QED
    BY <1>4, <1>5, <2>1, SamePlaces
<1>8. QED
  BY <1>7 DEF b, c, a, r

LEMMA ListWithout ==
    ASSUME NEW t \in Trees, NEW u \in Trees, SameValues(t, u), NEW s \in Seq(Index),
           NEW k \in 1 .. Len(s)
    PROVE  ListOf(u, RemoveAt(s, k)) = RemoveAt(ListOf(t, s), k)
<1> DEFINE N == Len(s)
           r == RemoveAt(s, k)
           a == ListOf(t, s)
           b == ListOf(u, r)
           c == RemoveAt(a, k)
<1>1. N \in Nat /\ k \in 1 .. N /\ \A n \in 1 .. N : s[n] \in Index
  OBVIOUS
<1>2. /\ r \in Seq(Index) /\ Len(r) = N - 1
      /\ \A n \in 1 .. N - 1 : r[n] = IF n < k THEN s[n] ELSE s[n + 1]
  BY RemoveAtPlaces
<1> HIDE DEF r
<1>3. /\ a \in Seq(Listings) /\ Len(a) = N
      /\ \A n \in 1 .. N : a[n] = [index |-> s[n], value |-> t.node[s[n]].value]
  BY ListOfPlaces
<1>4. /\ b \in Seq(Listings) /\ Len(b) = N - 1
      /\ \A n \in 1 .. N - 1 : b[n] = [index |-> r[n], value |-> u.node[r[n]].value]
  BY <1>2, ListOfPlaces
<1> HIDE DEF a, b
<1>5. /\ c \in Seq(Listings) /\ Len(c) = N - 1
      /\ \A n \in 1 .. N - 1 : c[n] = IF n < k THEN a[n] ELSE a[n + 1]
  BY <1>3, RemoveAtPlaces
<1> HIDE DEF c
<1>6. ASSUME NEW n \in 1 .. N - 1
      PROVE  b[n] = c[n]
  <2> DEFINE m == IF n < k THEN n ELSE n + 1
  <2>1. m \in 1 .. N /\ r[n] = s[m] /\ c[n] = a[m]
    BY <1>1, <1>2, <1>5
  <2> HIDE DEF m
  <2>2. u.node[s[m]].value = t.node[s[m]].value
    BY <1>1, <2>1 DEF SameValues
  <2>3. b[n] = [index |-> s[m], value |-> u.node[s[m]].value]
    BY <1>4, <2>1
  <2>4. c[n] = [index |-> s[m], value |-> t.node[s[m]].value]
    BY <1>3, <2>1
  <2>5. QED
    BY <2>2, <2>3, <2>4
<1>7. b = c
  <2>1. Len(b) = Len(c) /\ \A n \in 1 .. Len(b) : b[n] = c[n]
    BY <1>4, <1>5, <1>6
  <2>2. QED
    BY <1>4, <1>5, <2>1, SamePlaces
<1>8. QED
  BY <1>7 DEF b, c, a, r

LEMMA SortedWith ==
    ASSUME NEW t \in Trees, NEW u \in Trees, NEW index \in Index, NEW value \in Values,
           ValuesWith(t, u, index, value), NEW s \in Seq(Index),
           \A n \in 1 .. Len(s) : s[n] # index, NEW k \in 0 .. Len(s), Sorted(t, s),
           \A n \in 1 .. Len(s) : Key(t, s[n]) < value.key <=> n <= k
    PROVE  Sorted(u, InsertAt(s, k + 1, index))
<1> DEFINE N == Len(s)
           r == InsertAt(s, k + 1, index)
           K(n) == Key(t, s[n])
           R(n) == Key(u, r[n])
<1>1. N \in Nat /\ k \in 0 .. N /\ \A n \in 1 .. N : s[n] \in Index /\ s[n] # index
  OBVIOUS
<1>2. /\ r \in Seq(Index) /\ Len(r) = N + 1
      /\ \A n \in 1 .. N + 1 : r[n] = IF n <= k THEN s[n] ELSE IF n = k + 1 THEN index ELSE s[n - 1]
  BY InsertAtPlaces
<1> HIDE DEF r
<1>3. value.key \in Int /\ \A n \in 1 .. N : K(n) \in Int /\ (K(n) < value.key <=> n <= k)
  BY <1>1, KeysAreNumbers
<1>4. \A m, n \in 1 .. N : m <= n => K(m) <= K(n)
  BY DEF Sorted
<1>5. ASSUME NEW n \in 1 .. N + 1
      PROVE  R(n) = IF n <= k THEN K(n) ELSE IF n = k + 1 THEN value.key ELSE K(n - 1)
  <2>1. CASE n <= k
    <3>1. r[n] = s[n] /\ n \in 1 .. N
      BY <1>1, <1>2, <2>1
    <3>2. QED
      BY <1>1, <2>1, <3>1 DEF Key, ValuesWith
  <2>2. CASE n = k + 1
    <3>1. r[n] = index /\ ~ (n <= k)
      BY <1>1, <1>2, <2>2
    <3>2. QED
      BY <2>2, <3>1 DEF Key, ValuesWith
  <2>3. CASE n > k + 1
    <3>1. r[n] = s[n - 1] /\ n - 1 \in 1 .. N /\ ~ (n <= k) /\ n # k + 1
      BY <1>1, <1>2, <2>3
    <3>2. QED
      BY <1>1, <3>1 DEF Key, ValuesWith
  <2>4. QED
    BY <1>1, <2>1, <2>2, <2>3
<1> HIDE DEF K, R, N
<1>6. ASSUME NEW m \in 1 .. N + 1, NEW n \in 1 .. N + 1, m <= n
      PROVE  R(m) <= R(n)
  <2>1. CASE n <= k
    <3>1. m \in 1 .. N /\ n \in 1 .. N /\ m <= k
      BY <1>1, <1>6, <2>1
    <3>2. QED
      BY <1>4, <1>5, <1>6, <2>1, <3>1
  <2>2. CASE n = k + 1 /\ m <= k
    <3>1. m \in 1 .. N /\ R(m) = K(m) /\ R(n) = value.key
      BY <1>1, <1>5, <2>2
    <3>2. QED
      BY <1>3, <2>2, <3>1
  <2>3. CASE n > k + 1 /\ m <= k
    <3>1. m \in 1 .. N /\ n - 1 \in 1 .. N /\ m <= n - 1 /\ R(m) = K(m) /\ R(n) = K(n - 1)
      BY <1>1, <1>5, <2>3
    <3>2. QED
      BY <1>4, <3>1
  <2>4. CASE n > k + 1 /\ m = k + 1
    <3>1. n - 1 \in 1 .. N /\ ~ (n - 1 <= k) /\ R(m) = value.key /\ R(n) = K(n - 1)
      BY <1>1, <1>5, <2>4
    <3>2. QED
      BY <1>3, <3>1
  <2>5. CASE n = k + 1 /\ m = k + 1
    BY <1>1, <1>3, <1>5, <2>5
  <2>6. CASE m > k + 1
    <3>1. /\ m - 1 \in 1 .. N /\ n - 1 \in 1 .. N /\ m - 1 <= n - 1
          /\ R(m) = K(m - 1) /\ R(n) = K(n - 1)
      BY <1>1, <1>5, <1>6, <2>6
    <3>2. QED
      BY <1>4, <3>1
  <2>7. QED
    BY <1>1, <1>6, <2>1, <2>2, <2>3, <2>4, <2>5, <2>6
<1>7. QED
  BY <1>2, <1>6 DEF Sorted, R, r

LEMMA SortedWithout ==
    ASSUME NEW t \in Trees, NEW u \in Trees, SameValues(t, u), NEW s \in Seq(Index),
           NEW k \in 1 .. Len(s), Sorted(t, s)
    PROVE  Sorted(u, RemoveAt(s, k))
<1> DEFINE N == Len(s)
           r == RemoveAt(s, k)
           at(n) == IF n < k THEN n ELSE n + 1
<1>1. N \in Nat /\ k \in 1 .. N /\ \A n \in 1 .. N : s[n] \in Index
  OBVIOUS
<1>2. /\ Len(r) = N - 1
      /\ \A n \in 1 .. N - 1 : r[n] = s[at(n)] /\ at(n) \in 1 .. N
  <2>1. /\ Len(r) = N - 1 /\ \A n \in 1 .. N - 1 : r[n] = IF n < k THEN s[n] ELSE s[n + 1]
    BY RemoveAtPlaces
  <2> HIDE DEF r
  <2>2. QED
    BY <1>1, <2>1
<1> HIDE DEF r
<1>3. ASSUME NEW m \in 1 .. N - 1, NEW n \in 1 .. N - 1, m <= n
      PROVE  Key(u, r[m]) <= Key(u, r[n])
  <2>1. at(m) <= at(n) /\ at(m) \in 1 .. N /\ at(n) \in 1 .. N
    BY <1>1, <1>2, <1>3
  <2> HIDE DEF at
  <2>2. Key(t, s[at(m)]) <= Key(t, s[at(n)])
    BY <2>1 DEF Sorted
  <2>3. QED
    BY <1>1, <1>2, <2>1, <2>2 DEF Key, SameValues
<1>4. QED
  BY <1>2, <1>3 DEF Sorted, r

-----------------------------------------------------------------------------
(* The predecessor.                                                        *)

\* get_next_lower_index gives the block before, and none from the first.
LEMMA NextLowerPlace ==
    ASSUME NEW t \in Trees, NEW U \in SUBSET Index, IsTree(t, U),
           NEW s, NEW p, Enumerates(s, U, p), NEW e, Spanned(t, U, p, e, Len(s)), NEW a \in U
    PROVE  GetNextLowerIndex(t, a) = IF p[a] = 1 THEN NIL ELSE s[p[a] - 1]
<1> DEFINE N == Len(s)
           left == Kid(t, a, "left")
           next == GetNextLowerIndex(t, a)
<1>1. /\ Joined(t, U) /\ Weighed(t, U, Weights(t, U)) /\ NIL \notin U
      /\ "left" \in Sides /\ "right" \in Sides
      /\ Across("left") = "right" /\ Across("right") = "left"
      /\ Forth("right") = 1 /\ Forth("left") = - 1
  BY TreeWeighed, NilNoBlock DEF IsTree, Sides, Across, Forth
<1>2. N \in Nat /\ p \in [U -> Int] /\ \A i \in U : p[i] \in 1 .. N /\ s[p[i]] = i
  <2>1. N \in Nat /\ p \in [U -> 1 .. N] /\ \A i \in U : p[i] \in 1 .. N /\ s[p[i]] = i
    BY DEF Enumerates
  <2>2. QED
    BY <2>1
<1>3. ASSUME NEW b \in U, next = b, p[b] = p[a] - 1
      PROVE  next = IF p[a] = 1 THEN NIL ELSE s[p[a] - 1]
  <2>1. p[a] # 1
    BY <1>2, <1>3
  <2>2. QED
    BY <1>2, <1>3, <2>1
<1>4. CASE left # NIL
  <2>1. next = Outermost(t, left, "right")
    BY <1>1, <1>4 DEF GetNextLowerIndex, Kid
  <2>2. next \in U /\ p[next] = p[a] + Forth("left")
    <3>1. Kid(t, a, Across("right")) # NIL
      BY <1>1, <1>4
    <3>2. LET b == Outermost(t, Kid(t, a, Across("right")), "right")
          IN  b \in U /\ p[b] = p[a] + Forth(Across("right"))
      BY <1>1, <1>2, <3>1, OutermostNext
    <3>3. QED
      BY <1>1, <2>1, <3>2
  <2> HIDE DEF next
  <2>3. p[next] = p[a] - 1
    BY <1>1, <1>2, <2>2
  <2>4. QED
    BY <1>3, <2>2, <2>3 DEF next
<1>5. CASE left = NIL
  <2> DEFINE Y == {j \in U : e[j]["left"] = p[a]}
  <2>1. \A i \in U, side \in Sides : Fills(t, p, e, i, side)
    BY DEF Spanned
  <2>2. a \in Y
    BY <1>1, <1>5, <2>1 DEF Fills
  <2>3. ASSUME NEW j \in Y, j # t.root, Kid(t, Up(t, j), "left") = j
        PROVE  Up(t, j) \in Y
    <3>1. Up(t, j) \in U /\ j # NIL
      BY <1>1, <2>3 DEF Joined
    <3>2. e[j]["left"] = e[Up(t, j)]["left"]
      BY <1>1, <2>1, <2>3, <3>1 DEF Fills
    <3>3. QED
      BY <3>1, <3>2
  <2>4. Y \in SUBSET U /\ \A j \in Y : j \in U /\ e[j]["left"] = p[a]
    OBVIOUS
  <2> HIDE DEF Y
  <2>5. PICK b \in Y : /\ b # t.root => Kid(t, Up(t, b), "left") # b
                       /\ next = IF b = t.root THEN NIL ELSE Up(t, b)
    BY <1>1, <1>5, <2>2, <2>3, <2>4, ClimbIn
  <2>6. b \in U /\ e[b]["left"] = p[a] /\ b # NIL
    BY <1>1, <2>4
  <2>7. CASE b = t.root
    <3>1. e[b]["left"] = 1
      BY <2>6, <2>7 DEF Spanned
    <3>2. QED
      BY <2>5, <2>6, <2>7, <3>1
  <2>8. CASE b # t.root
    <3> DEFINE up == Up(t, b)
    <3>1. up \in U /\ \E side \in Sides : Kid(t, up, side) = b
      BY <1>1, <2>6, <2>8 DEF Joined
    <3>2. Kid(t, up, "right") = b
      BY <2>5, <2>8, <3>1 DEF Sides
    <3> HIDE DEF up
    <3>3. e[b]["left"] = p[up] + 1
      BY <1>1, <2>1, <2>6, <3>1, <3>2 DEF Fills
    <3>4. p[up] = p[a] - 1
      BY <1>2, <2>6, <3>1, <3>3
    <3>5. next = up
      BY <2>5, <2>8 DEF up
    <3>6. QED
      BY <1>3, <3>1, <3>4, <3>5
  <2>9. QED
    BY <2>7, <2>8
<1>6. QED
  BY <1>4, <1>5

-----------------------------------------------------------------------------
(* Insertion and removal.                                                  *)

\* The order that the invariant claims.
Listed(t, U, s) == Ordered(t, U, s) /\ Sorted(t, s) /\ MaxExact(t, s)

LEMMA ListedTyped ==
    ASSUME NEW t, NEW U \in SUBSET Index, NEW s, Ordered(t, U, s)
    PROVE  /\ s \in Seq(Index) /\ Len(s) \in Nat
           /\ \A n \in 1 .. Len(s) : s[n] \in U
           /\ \A i \in U : \E n \in 1 .. Len(s) : s[n] = i
           /\ \A m, n \in 1 .. Len(s) : s[m] = s[n] => m = n
<1>1. PICK p : Enumerates(s, U, p)
  BY DEF Ordered
<1>2. QED
  BY <1>1 DEF Enumerates

\* A leaf takes its value with it, and the maximum if it is above it.
LEMMA LinkedValues ==
    ASSUME NEW t \in Trees, NEW index \in Index, NEW value \in Values,
           LeafPlace(t, value).parent \in Index \ {index}, LeafPlace(t, value).side \in Sides
    PROVE  LET u == Linked(t, index, value)
           IN  /\ ValuesWith(t, u, index, value)
               /\ u.max = IF ExceedsMax(t, value) THEN index ELSE t.max
<1> DEFINE place == LeafPlace(t, value)
           P == place.parent
           S == place.side
           leaf == Leaf(value, P, "red")
           max == IF ExceedsMax(t, value) THEN index ELSE t.max
           v == SetKid(t, P, S, index)
           w == PutNode(v, index, leaf)
           u == [w EXCEPT !.max = max]
<1>1. P \in Index /\ P # index /\ S \in Sides /\ index \in Links
  BY DEF Links
<1> HIDE DEF P, S, place
<1>2. leaf \in Nodes /\ leaf.value = value
  BY <1>1 DEF Leaf, Nodes, Links, Colors
<1>3. v \in Trees /\ SameValues(t, v)
  BY <1>1, SetKidLinks, SetKidValues
<1>4. Linked(t, index, value) = u
  <2>1. Linked(t, index, value) =
          [t EXCEPT !.max = max,
                    !.node = [@ EXCEPT ![P][S] = index, ![index] = leaf]]
    BY DEF Linked, place, P, S
  <2>2. QED
    BY <1>1, <2>1 DEF SetKid, PutNode, Trees
<1> HIDE DEF v, leaf, max
<1>5. w \in Trees /\ \A j \in Index : w.node[j] = IF j = index THEN leaf ELSE v.node[j]
  BY <1>2, <1>3, PutNodeLinks
<1> HIDE DEF w
<1>6. u.max = max /\ u.node = w.node
  BY <1>5 DEF Trees
<1> HIDE DEF u
<1>7. ValuesWith(t, u, index, value)
  BY <1>2, <1>3, <1>5, <1>6 DEF ValuesWith, SameValues
<1>8. QED
  BY <1>4, <1>6, <1>7 DEF max

\* Insertion at a leaf puts the block above the smaller keys and below the others.
LEMMA LinkedListed ==
    ASSUME NEW t \in Trees, NEW U \in SUBSET Index, IsTree(t, U), t.root # NIL,
           t.max \in U \cup {NIL}, NEW index \in Index \ U, NEW value \in Values,
           NEW s, Listed(t, U, s)
    PROVE  LET u == Linked(t, index, value)
           IN  \E k \in 0 .. Len(s) :
                /\ \A n \in 1 .. Len(s) : Key(t, s[n]) < value.key <=> n <= k
                /\ Listed(u, U \cup {index}, InsertAt(s, k + 1, index))
                /\ ValuesWith(t, u, index, value) /\ u \in Trees
<1> DEFINE u == Linked(t, index, value)
           place == LeafPlace(t, value)
           V == U \cup {index}
           N == Len(s)
<1>1. PICK p : Enumerates(s, U, p) /\ \E e : Spanned(t, U, p, e, Len(s))
  BY DEF Listed, Ordered
<1>2. PICK e : Spanned(t, U, p, e, Len(s))
  BY <1>1
<1>3. /\ place.parent \in U /\ place.side \in Sides
      /\ Kid(t, place.parent, place.side) = NIL
  <2>1. Joined(t, U) /\ Weighed(t, U, Weights(t, U))
    BY TreeWeighed DEF IsTree
  <2>2. QED
    BY <2>1, LeafPlaceFree
<1>4. place.parent \in Index \ {index}
  BY <1>3
<1>5. u \in Trees /\ Hung(t, u, index, place)
  BY <1>3, <1>4, LinkedLinks
<1>6. ValuesWith(t, u, index, value) /\ u.max = IF ExceedsMax(t, value) THEN index ELSE t.max
  BY <1>3, <1>4, LinkedValues
<1> DEFINE k == Before(p, place)
           r == InsertAt(s, k + 1, index)
<1>7. /\ \A n \in 1 .. N : Key(t, s[n]) < value.key <=> n <= k
      /\ ExceedsMax(t, value) <=> TRACKS_MAX /\ k = N
  BY <1>1, <1>2, LeafPlaceOrdered DEF Listed
<1> HIDE DEF u, place
<1>8. k \in 0 .. N /\ \E f : Spanned(u, V, PlacesWith(p, U, index, k), f, N + 1)
  BY <1>1, <1>2, <1>3, <1>5, HungSpanned
<1> HIDE DEF k
<1>9. /\ s \in Seq(Index) /\ N \in Nat /\ \A n \in 1 .. N : s[n] \in Index /\ s[n] # index
  BY <1>1 DEF Enumerates
<1>10. /\ r \in Seq(Index) /\ Len(r) = N + 1
       /\ \A n \in 1 .. N + 1 : r[n] = IF n <= k THEN s[n] ELSE IF n = k + 1 THEN index ELSE s[n - 1]
  <2>1. PICK c \in 0 .. Len(s) : c = k
    BY <1>8
  <2>2. /\ r \in Seq(Index) /\ Len(r) = Len(s) + 1
        /\ \A n \in 1 .. Len(r) :
            r[n] = IF n <= k THEN s[n] ELSE IF n = k + 1 THEN index ELSE s[n - 1]
    <3>1. LET q == InsertAt(s, c + 1, index)
          IN  /\ q \in Seq(Index) /\ Len(q) = Len(s) + 1
              /\ \A n \in 1 .. Len(q) :
                    q[n] = IF n <= c THEN s[n] ELSE IF n = c + 1 THEN index ELSE s[n - 1]
      <4>1. s \in Seq(Index) /\ index \in Index
        BY <1>9
      <4>2. QED
        BY <4>1, InsertAtPlaces
    <3>2. QED
      BY <2>1, <3>1
  <2> HIDE DEF r
  <2>3. QED
    BY <2>2
<1>11. Ordered(u, V, r)
  <2>1. Enumerates(r, V, PlacesWith(p, U, index, k))
    BY <1>1, <1>8, EnumeratesWith
  <2> HIDE DEF r, V
  <2>2. QED
    BY <1>8, <1>10, <2>1 DEF Ordered
<1>12. Sorted(u, r)
  <2>1. Sorted(t, s) /\ index \in Index
    BY DEF Listed
  <2>2. QED
    BY <1>5, <1>6, <1>7, <1>8, <1>9, <2>1, SortedWith
<1> HIDE DEF r
<1>13. MaxExact(u, r)
  <2>1. r # << >> /\ N + 1 \in 1 .. N + 1
    BY <1>9, <1>10
  <2>2. r[Len(r)] = IF k = N THEN index ELSE s[N]
    BY <1>8, <1>9, <1>10, <2>1
  <2>3. t.max = IF TRACKS_MAX THEN s[N] ELSE NIL
    <3>1. t.root \in U
      BY DEF IsTree, Joined
    <3>2. s # << >>
      BY <1>1, <3>1 DEF Enumerates
    <3>3. QED
      BY <3>2 DEF Listed, MaxExact
  <2>4. QED
    BY <1>6, <1>7, <2>1, <2>2, <2>3 DEF MaxExact
<1>14. QED
  BY <1>5, <1>6, <1>7, <1>8, <1>11, <1>12, <1>13 DEF Listed, u, r

\* A first node is all there is in order.
LEMMA RootListed ==
    ASSUME NEW t \in Trees, NEW u \in Trees, NEW s, Ordered(t, {}, s), NEW index \in Index,
           u.root = index, \A side \in Sides : Kid(u, index, side) = NIL,
           u.max = IF TRACKS_MAX THEN index ELSE NIL
    PROVE  Len(s) = 0 /\ Listed(u, {index}, InsertAt(s, 1, index))
<1> DEFINE r == InsertAt(s, 1, index)
           p == [i \in {index} |-> 1]
           e == [i \in {index} |-> [side \in Sides |-> 1]]
<1>1. s \in Seq(Index) /\ Len(s) = 0
  <2>1. PICK p1 : Enumerates(s, {}, p1)
    BY DEF Ordered
  <2>2. s \in Seq(Index) /\ \A n \in 1 .. Len(s) : FALSE
    BY <2>1 DEF Enumerates
  <2>3. QED
    BY <2>2
<1>2. r \in Seq(Index) /\ Len(r) = 1 /\ r[1] = index
  <2>1. PICK k \in 0 .. Len(s) : k = 0
    BY <1>1
  <2> DEFINE q == InsertAt(s, k + 1, index)
  <2>2. /\ q \in Seq(Index) /\ Len(q) = Len(s) + 1
        /\ \A n \in 1 .. Len(q) :
            q[n] = IF n <= k THEN s[n] ELSE IF n = k + 1 THEN index ELSE s[n - 1]
    <3>1. s \in Seq(Index) /\ index \in Index
      BY <1>1
    <3>2. QED
      BY <3>1, InsertAtPlaces
  <2>3. q = r
    BY <2>1
  <2> HIDE DEF q, r
  <2>4. QED
    BY <1>1, <2>1, <2>2, <2>3
<1> HIDE DEF r
<1>3. Enumerates(r, {index}, p)
  BY <1>2 DEF Enumerates
<1>4. Spanned(u, {index}, p, e, 1)
  <2>1. \A i \in {index}, side \in Sides : Fills(u, p, e, i, side)
    BY DEF Fills
  <2>2. e[index]["left"] = 1 /\ e[index]["right"] = 1 /\ e \in [{index} -> [Sides -> Int]]
    BY DEF Sides
  <2>3. QED
    BY <2>1, <2>2 DEF Spanned
<1>5. Ordered(u, {index}, r)
  BY <1>2, <1>3, <1>4 DEF Ordered
<1>6. Sorted(u, r)
  BY <1>2, KeysAreNumbers DEF Sorted
<1>7. MaxExact(u, r)
  <2>1. Len(<< >>) = 0 /\ Len(r) = 1
    BY <1>2
  <2>2. r # << >>
    BY <2>1
  <2>3. QED
    BY <1>2, <2>2 DEF MaxExact
<1>8. QED
  BY <1>1, <1>5, <1>6, <1>7 DEF Listed, r

\* A removal takes one place out of the order, and the maximum with it if it is the
\* last one.
LEMMA CutListed ==
    ASSUME NEW t \in Trees, NEW U \in SUBSET Index, IsTree(t, U),
           t.max \in U \cup {NIL}, NEW a \in U, NEW s, Listed(t, U, s)
    PROVE  LET cut == Cut(t, a)
               closed == SetColor(cut.tree, cut.child, "black")
               u == [closed EXCEPT !.max = MaxWithout(t, a)]
           IN  /\ SameValues(t, u) /\ u \in Trees
               /\ \E k \in 1 .. Len(s) : s[k] = a /\ Listed(u, U \ {a}, RemoveAt(s, k))
<1> DEFINE cut == Cut(t, a)
           closed == SetColor(cut.tree, cut.child, "black")
           max == MaxWithout(t, a)
           u == [closed EXCEPT !.max = max]
           V == U \ {a}
           N == Len(s)
<1>1. PICK p : Enumerates(s, U, p) /\ \E e : Spanned(t, U, p, e, Len(s))
  BY DEF Listed, Ordered
<1>2. PICK e : Spanned(t, U, p, e, Len(s))
  BY <1>1
<1> DEFINE k == p[a]
           r == RemoveAt(s, k)
<1>3. cut.tree \in Trees /\ IsTree(cut.tree, V) /\ cut.child \in Links /\ Without(t, cut.tree, U, a)
  BY CutTree
<1>4. SameValues(t, cut.tree)
  BY CutValues
<1> HIDE DEF cut
<1>5. V \in SUBSET Index /\ a # NIL /\ a \in Index
  BY NilNoBlock
<1>6. closed \in Trees /\ SameLinks(cut.tree, closed) /\ SameValues(t, closed)
  <2>1. "black" \in Colors
    BY DEF Colors
  <2>2. closed \in Trees /\ SameLinks(cut.tree, closed) /\ SameValues(cut.tree, closed)
    BY <1>3, <2>1, SetColorLinks, SetColorValues
  <2> HIDE DEF closed
  <2>3. QED
    BY <1>4, <2>2 DEF SameValues
<1> HIDE DEF closed
<1>7. max \in Links
  <2>1. Joined(t, U) /\ Weighed(t, U, Weights(t, U))
    BY TreeWeighed DEF IsTree
  <2>2. max \in (U \ {a}) \cup {NIL}
    BY <2>1, MaxWithoutLinks
  <2>3. QED
    BY <2>2 DEF Links
<1>8. max = IF a = t.max THEN GetNextLowerIndex(t, a) ELSE t.max
  BY DEF MaxWithout
<1> HIDE DEF max
<1>9. u \in Trees /\ u.max = max /\ SameLinks(closed, u) /\ SameValues(t, u)
  BY <1>6, <1>7 DEF Trees, SameLinks, SameValues, Up, Kid
<1>10. SameLinks(cut.tree, u)
  BY <1>6, <1>9 DEF SameLinks
<1> HIDE DEF u
<1>11. /\ s \in Seq(Index) /\ N \in Nat /\ k \in 1 .. N /\ s[k] = a
       /\ \A n \in 1 .. N : s[n] = a => n = k
  BY <1>1 DEF Enumerates
<1>12. Enumerates(r, V, PlacesWithout(p, U, a))
  BY <1>1, EnumeratesWithout
<1>13. PICK f : Spanned(cut.tree, V, PlacesWithout(p, U, a), f, N - 1)
  BY <1>1, <1>2, <1>3, WithoutSpanned
<1>14. Spanned(u, V, PlacesWithout(p, U, a), f, N - 1)
  <2> HIDE DEF V
  <2>1. QED
    BY <1>5, <1>10, <1>13, SameLinksSpanned
<1>15. GetNextLowerIndex(t, a) = IF k = 1 THEN NIL ELSE s[k - 1]
  BY <1>1, <1>2, NextLowerPlace
<1> HIDE DEF k
<1>16. /\ Len(r) = N - 1
       /\ \A n \in 1 .. N - 1 : r[n] = IF n < k THEN s[n] ELSE s[n + 1]
  BY <1>11, RemoveAtPlaces
<1>17. Ordered(u, V, r)
  <2> HIDE DEF r, V
  <2>1. QED
    BY <1>12, <1>14, <1>16 DEF Ordered
<1>18. Sorted(u, r)
  BY <1>9, <1>11, SortedWithout DEF Listed
<1>19. r \in Seq(Index)
  BY <1>12 DEF Enumerates
<1> HIDE DEF r
<1>20. MaxExact(u, r)
  <2>1. s # << >> /\ N \in 1 .. N
    BY <1>11
  <2>2. t.max = IF TRACKS_MAX THEN s[N] ELSE NIL
    BY <2>1 DEF Listed, MaxExact
  <2>3. CASE ~ TRACKS_MAX
    BY <1>5, <1>8, <1>9, <2>2, <2>3 DEF MaxExact
  <2>4. CASE TRACKS_MAX /\ k = N
    <3>1. max = IF N = 1 THEN NIL ELSE s[N - 1]
      BY <1>8, <1>11, <1>15, <2>2, <2>4
    <3>2. r # << >> <=> N # 1
      BY <1>11, <1>16, <1>19
    <3>3. N # 1 => r[N - 1] = s[N - 1]
      BY <1>11, <1>16, <2>4
    <3>4. QED
      BY <1>9, <1>16, <2>4, <3>1, <3>2, <3>3 DEF MaxExact
  <2>5. CASE TRACKS_MAX /\ k # N
    <3>1. max = s[N]
      BY <1>8, <1>11, <2>1, <2>2, <2>5
    <3>2. r # << >> /\ N - 1 \in 1 .. N - 1 /\ ~ (N - 1 < k)
      BY <1>11, <1>16, <1>19, <2>5
    <3>3. r[N - 1] = s[N]
      BY <1>11, <1>16, <3>2
    <3>4. QED
      BY <1>9, <1>16, <2>5, <3>1, <3>2, <3>3 DEF MaxExact
  <2>6. QED
    BY <2>3, <2>4, <2>5
<1>21. QED
  BY <1>9, <1>11, <1>17, <1>18, <1>20 DEF Listed, u, r, cut, closed, max

-----------------------------------------------------------------------------
(* The inductive invariant.                                                *)

\* The tree lists its blocks in order of their keys, and the maximum is the last.
OrderInv == TreeInv /\ \E s : Listed(tree, used, s)

LEMMA InitListed ==
    Init => Listed(tree, {}, << >>)
<1> SUFFICES ASSUME Init PROVE Listed(tree, {}, << >>)
  OBVIOUS
<1>1. tree.root = NIL /\ tree.max = NIL
  BY DEF Init
<1> DEFINE p == [i \in {} |-> 1]
           e == [i \in {} |-> [side \in Sides |-> 1]]
<1>2. Enumerates(<< >>, {}, p)
  BY DEF Enumerates
<1>3. Spanned(tree, {}, p, e, 0)
  BY <1>1 DEF Spanned
<1>4. Ordered(tree, {}, << >>)
  BY <1>2, <1>3 DEF Ordered
<1>5. Sorted(tree, << >>) /\ MaxExact(tree, << >>)
  BY <1>1 DEF Sorted, MaxExact
<1>6. QED
  BY <1>4, <1>5 DEF Listed

LEMMA InsertListed ==
    ASSUME TreeInv, NEW s, Listed(tree, used, s), NEW index \in Index, NEW value \in Values,
           InsertRoot(index, value) \/ InsertLeaf(index, value)
    PROVE  /\ index \notin used
           /\ \E k \in 0 .. Len(s) :
                /\ \A n \in 1 .. Len(s) : Key(tree, s[n]) < value.key <=> n <= k
                /\ Listed(tree', used', InsertAt(s, k + 1, index))
                /\ ValuesWith(tree, tree', index, value) /\ tree' \in Trees
<1>1. /\ tree \in Trees /\ used \in SUBSET Index /\ tree.max \in used \cup {NIL}
      /\ IsTree(tree, used) /\ index \notin used /\ used' = used \cup {index}
  BY DEF TreeInv, InsertRoot, InsertLeaf
<1>2. CASE InsertLeaf(index, value)
  <2>1. tree.root # NIL /\ tree' = Linked(tree, index, value) /\ index \in Index \ used
    BY <1>1, <1>2 DEF InsertLeaf
  <2>2. QED
    BY <1>1, <2>1, LinkedListed
<1>3. CASE InsertRoot(index, value)
  <2> DEFINE leaf == Leaf(value, NIL, "black")
             max == IF TRACKS_MAX THEN index ELSE NIL
             u == [tree EXCEPT !.root = index, !.max = max, !.node[index] = leaf]
  <2>1. tree' = u /\ used = {}
    BY <1>1, <1>3 DEF InsertRoot, IsTree, Joined
  <2>2. leaf \in Nodes /\ leaf["left"] = NIL /\ leaf["right"] = NIL /\ leaf.value = value
    BY DEF Leaf, Nodes, Links, Colors
  <2>3. max \in Links /\ index \in Links
    BY DEF Links
  <2> HIDE DEF leaf, max
  <2>4. /\ u \in Trees /\ u.root = index /\ u.max = max
        /\ \A j \in Index : u.node[j] = IF j = index THEN leaf ELSE tree.node[j]
    BY <1>1, <2>2, <2>3 DEF Trees
  <2> HIDE DEF u
  <2>5. \A side \in Sides : Kid(u, index, side) = NIL
    BY <2>2, <2>4 DEF Kid, Sides
  <2>6. ValuesWith(tree, u, index, value)
    BY <2>2, <2>4 DEF ValuesWith
  <2>7. Ordered(tree, {}, s)
    BY <2>1 DEF Listed
  <2>8. Len(s) = 0 /\ Listed(u, {index}, InsertAt(s, 1, index))
    <3>1. u.max = IF TRACKS_MAX THEN index ELSE NIL
      BY <2>4 DEF max
    <3>2. QED
      BY <1>1, <2>4, <2>5, <2>7, <3>1, RootListed
  <2>9. 0 \in 0 .. Len(s) /\ \A n \in 1 .. Len(s) : FALSE
    BY <2>8
  <2>10. Listed(tree', used', InsertAt(s, 0 + 1, index))
    BY <1>1, <2>1, <2>8
  <2>11. QED
    BY <1>1, <2>1, <2>4, <2>6, <2>9, <2>10
<1>4. QED
  BY <1>2, <1>3

LEMMA RemoveListed ==
    ASSUME TreeInv, NEW s, Listed(tree, used, s), NEW index \in Index, RemoveByIndex(index)
    PROVE  /\ SameValues(tree, tree') /\ tree' \in Trees
           /\ \E k \in 1 .. Len(s) : s[k] = index /\ Listed(tree', used', RemoveAt(s, k))
<1>1. /\ tree \in Trees /\ used \in SUBSET Index /\ tree.max \in used \cup {NIL}
      /\ IsTree(tree, used) /\ index \in used /\ used' = used \ {index}
      /\ tree' = [SetColor(Cut(tree, index).tree, Cut(tree, index).child, "black")
                    EXCEPT !.max = MaxWithout(tree, index)]
  BY DEF TreeInv, RemoveByIndex
<1>2. QED
  BY <1>1, CutListed

LEMMA RepairListed ==
    ASSUME TreeInv, NEW s, Listed(tree, used, s), InsertFix \/ RemoveFix
    PROVE  used' = used /\ SameValues(tree, tree') /\ tree' \in Trees /\ Listed(tree', used', s)
<1>1. used' = used /\ Keeps(tree, tree', used) /\ tree \in Trees
  BY RepairKeeps DEF Undisturbed, TreeInv
<1>2. s \in Seq(Index)
  BY ListedTyped DEF Listed, TreeInv
<1>3. Sorted(tree', s)
  BY <1>1, <1>2 DEF Listed, Sorted, Key, Keeps, SameValues
<1>4. QED
  BY <1>1, <1>3 DEF Listed, Keeps, MaxExact

LEMMA NextListed ==
    ASSUME OrderInv, [Next]_vars
    PROVE  OrderInv'
<1>1. TreeInv /\ TreeInv'
  BY NextTree DEF OrderInv
<1>2. PICK s : Listed(tree, used, s)
  BY DEF OrderInv
<1>3. \E r : Listed(tree', used', r)
  <2>1. ASSUME NEW index \in Index, NEW value \in Values,
               InsertRoot(index, value) \/ InsertLeaf(index, value)
        PROVE  \E r : Listed(tree', used', r)
    BY <1>1, <1>2, <2>1, InsertListed
  <2>2. ASSUME NEW index \in Index, RemoveByIndex(index)
        PROVE  \E r : Listed(tree', used', r)
    BY <1>1, <1>2, <2>2, RemoveListed
  <2>3. CASE InsertFix \/ RemoveFix
    BY <1>1, <1>2, <2>3, RepairListed
  <2>4. CASE UNCHANGED vars
    BY <1>2, <2>4 DEF vars
  <2>5. QED
    BY <2>1, <2>2, <2>3, <2>4 DEF Next
<1>4. QED
  BY <1>1, <1>3 DEF OrderInv

\* Between operations and after every iteration of a repair, the blocks are listed by
\* the tree in order of their keys and the stored maximum is the last of them.
THEOREM OrderInductive == Spec => []OrderInv
<1>1. Init => OrderInv
  <2>1. Init => TreeInv
    BY InitTree
  <2>2. Init => used = {}
    BY DEF Init
  <2>3. QED
    BY <2>1, <2>2, InitListed DEF OrderInv
<1>2. OrderInv /\ [Next]_vars => OrderInv'
  BY NextListed
<1>3. QED
  BY <1>1, <1>2, PTL DEF Spec

LEMMA ListedWalk ==
    ASSUME NEW s, TreeInv, Listed(tree, used, s)
    PROVE  InOrder = s /\ List = ListOf(tree, s)
<1>1. InOrder = s
  BY OrderedWalk DEF TreeInv, Listed, InOrder
<1>2. QED
  BY <1>1 DEF List, ListOf

LEMMA NextListedWalk ==
    ASSUME NEW s, TreeInv', Listed(tree', used', s)
    PROVE  List' = ListOf(tree', s)
<1>1. InOrder' = s
  <2>1. tree' \in Trees /\ used' \in SUBSET Index /\ IsTree(tree', used') /\ Ordered(tree', used', s)
    BY DEF TreeInv, Listed
  <2>2. InOrderOf(tree') = s
    BY <2>1, OrderedWalk
  <2>3. QED
    BY <2>2 DEF InOrder
<1>2. QED
  BY <1>1 DEF List, ListOf

\* The stored maximum is the last node in order at every moment, in the middle of a
\* repair too, and is never set when the caller does not track it.
THEOREM MaximumAlwaysExact == Spec => []MaximumExact
<1>1. OrderInv => MaximumExact
  <2> SUFFICES ASSUME OrderInv PROVE MaximumExact
    OBVIOUS
  <2>1. PICK s : TreeInv /\ Listed(tree, used, s)
    BY DEF OrderInv
  <2>2. InOrder = s
    BY <2>1, ListedWalk
  <2>3. /\ s \in Seq(Index) /\ Len(s) \in Nat
        /\ \A n \in 1 .. Len(s) : s[n] \in used
        /\ \A i \in used : \E n \in 1 .. Len(s) : s[n] = i
    <3>1. used \in SUBSET Index /\ \E p : Enumerates(s, used, p)
      BY <2>1 DEF Listed, TreeInv, Ordered
    <3>2. QED
      BY <3>1 DEF Enumerates
  <2>4. s # << >> <=> used # {}
    <3>1. s = << >> <=> Len(s) = 0
      BY <2>3
    <3>2. Len(s) = 0 <=> used = {}
      BY <2>3
    <3>3. QED
      BY <3>1, <3>2
  <2>5. QED
    BY <2>1, <2>2, <2>4 DEF Listed, MaxExact, MaximumExact, Last
<1>2. QED
  BY <1>1, OrderInductive, PTL

-----------------------------------------------------------------------------
(* The priority list.                                                      *)

LEMMA InsertInserts ==
    ASSUME OrderInv, OrderInv', NEW index \in Index, NEW value \in Values,
           InsertRoot(index, value) \/ InsertLeaf(index, value)
    PROVE  Priority!Insert(index, value)
<1>1. PICK s : TreeInv /\ Listed(tree, used, s)
  BY DEF OrderInv
<1> DEFINE i == [index |-> index, value |-> value]
<1>2. PICK k \in 0 .. Len(s) :
        /\ \A n \in 1 .. Len(s) : Key(tree, s[n]) < value.key <=> n <= k
        /\ Listed(tree', used', InsertAt(s, k + 1, index))
        /\ ValuesWith(tree, tree', index, value) /\ tree' \in Trees
  BY <1>1, InsertListed
<1>3. /\ index \notin used /\ tree \in Trees /\ used \in SUBSET Index
      /\ s \in Seq(Index) /\ Len(s) \in Nat /\ \A n \in 1 .. Len(s) : s[n] \in used
  <2>1. index \notin used
    BY <1>1, InsertListed
  <2>2. QED
    BY <1>1, <2>1, ListedTyped DEF TreeInv, Listed
<1>4. List = ListOf(tree, s)
  BY <1>1, ListedWalk
<1>5. List' = ListOf(tree', InsertAt(s, k + 1, index))
  BY <1>2, NextListedWalk DEF OrderInv
<1>6. List' = InsertAt(List, k + 1, i)
  <2>1. \A n \in 1 .. Len(s) : s[n] # index
    BY <1>3
  <2>2. ListOf(tree', InsertAt(s, k + 1, index)) = InsertAt(ListOf(tree, s), k + 1, i)
    BY <1>2, <1>3, <2>1, ListWith
  <2>3. QED
    BY <1>4, <1>5, <2>2
<1>7. /\ Len(List) = Len(s)
      /\ \A n \in 1 .. Len(s) : List[n].index = s[n] /\ List[n].value.key = Key(tree, s[n])
  <2>1. /\ Len(ListOf(tree, s)) = Len(s)
        /\ \A n \in 1 .. Len(s) :
            ListOf(tree, s)[n] = [index |-> s[n], value |-> tree.node[s[n]].value]
    BY <1>3, ListOfPlaces
  <2>2. ASSUME NEW n \in 1 .. Len(s)
        PROVE  List[n].index = s[n] /\ List[n].value.key = Key(tree, s[n])
    <3>1. List[n] = [index |-> s[n], value |-> tree.node[s[n]].value]
      BY <1>4, <2>1
    <3>2. QED
      BY <3>1 DEF Key
  <2>3. QED
    BY <1>4, <2>1, <2>2
<1> HIDE DEF i
<1>8. index \notin Priority!Held
  BY <1>3, <1>7 DEF Priority!Held
<1>9. \A n \in 1 .. Len(List) : List[n].value.key < value.key <=> n <= k
  BY <1>2, <1>7
<1>10. k \in 0 .. Len(List)
  BY <1>7
<1>11. Priority!InsertAt(List, k + 1, i) = InsertAt(List, k + 1, i)
  BY DEF Priority!InsertAt, InsertAt
<1>12. QED
  BY <1>6, <1>8, <1>9, <1>10, <1>11 DEF Priority!Insert, i

LEMMA RemoveDeletes ==
    ASSUME OrderInv, OrderInv', NEW index \in Index, RemoveByIndex(index)
    PROVE  Priority!Delete(index)
<1>1. PICK s : TreeInv /\ Listed(tree, used, s)
  BY DEF OrderInv
<1>2. SameValues(tree, tree') /\ tree' \in Trees
  BY <1>1, RemoveListed
<1>3. PICK k \in 1 .. Len(s) : s[k] = index /\ Listed(tree', used', RemoveAt(s, k))
  BY <1>1, RemoveListed
<1>4. tree \in Trees /\ s \in Seq(Index)
  BY <1>1, ListedTyped DEF TreeInv, Listed
<1>5. List = ListOf(tree, s)
  BY <1>1, ListedWalk
<1>6. List' = RemoveAt(List, k)
  <2>1. List' = ListOf(tree', RemoveAt(s, k))
    BY <1>3, NextListedWalk DEF OrderInv
  <2>2. ListOf(tree', RemoveAt(s, k)) = RemoveAt(ListOf(tree, s), k)
    BY <1>2, <1>4, ListWithout
  <2>3. QED
    BY <1>5, <2>1, <2>2
<1>7. k \in 1 .. Len(List) /\ List[k].index = index
  <2>1. /\ Len(ListOf(tree, s)) = Len(s)
        /\ \A n \in 1 .. Len(s) :
            ListOf(tree, s)[n] = [index |-> s[n], value |-> tree.node[s[n]].value]
    BY <1>4, ListOfPlaces
  <2>2. List[k] = [index |-> s[k], value |-> tree.node[s[k]].value]
    BY <1>5, <2>1
  <2>3. QED
    BY <1>3, <1>5, <2>1, <2>2
<1>8. Priority!RemoveAt(List, k) = RemoveAt(List, k)
  BY DEF Priority!RemoveAt, RemoveAt
<1>9. QED
  BY <1>6, <1>7, <1>8 DEF Priority!Delete

LEMMA RepairStutters ==
    ASSUME OrderInv, OrderInv', InsertFix \/ RemoveFix
    PROVE  List' = List
<1>1. PICK s : TreeInv /\ Listed(tree, used, s)
  BY DEF OrderInv
<1>2. SameValues(tree, tree') /\ Listed(tree', used', s)
  BY <1>1, RepairListed
<1>3. s \in Seq(Index)
  BY <1>1, ListedTyped DEF TreeInv, Listed
<1>4. List = ListOf(tree, s)
  BY <1>1, ListedWalk
<1>5. List' = ListOf(tree', s)
  BY <1>2, NextListedWalk DEF OrderInv
<1>6. ListOf(tree', s) = ListOf(tree, s)
  <2>1. \A n \in 1 .. Len(s) : tree'.node[s[n]].value = tree.node[s[n]].value
    BY <1>2, <1>3 DEF SameValues
  <2>2. QED
    BY <2>1 DEF ListOf
<1>7. QED
  BY <1>4, <1>5, <1>6

\* The tree implements the priority list: linking a node inserts its value above every
\* smaller key and below every equal or larger one, cutting a node takes its entry
\* out, and no iteration of insert_fix or remove_fix moves an entry.
THEOREM TreeImplementsList == Spec => ImplementsPriorityList
<1>1. Init => Priority!Init
  <2> SUFFICES ASSUME Init PROVE Priority!Init
    OBVIOUS
  <2>1. TreeInv /\ used = {} /\ Listed(tree, {}, << >>)
    BY InitTree, InitListed DEF Init
  <2>2. List = ListOf(tree, << >>)
    BY <2>1, ListedWalk
  <2>3. ListOf(tree, << >>) = << >>
    BY DEF ListOf
  <2>4. QED
    BY <2>2, <2>3 DEF Priority!Init
<1>2. OrderInv /\ OrderInv' /\ [Next]_vars => [Priority!Next]_List
  <2> SUFFICES ASSUME OrderInv, OrderInv', [Next]_vars PROVE Priority!Next \/ List' = List
    OBVIOUS
  <2>1. ASSUME NEW index \in Index, NEW value \in Values,
               InsertRoot(index, value) \/ InsertLeaf(index, value)
        PROVE  Priority!Next
    BY <2>1, InsertInserts DEF Priority!Next
  <2>2. ASSUME NEW index \in Index, RemoveByIndex(index)
        PROVE  Priority!Next
    BY <2>2, RemoveDeletes DEF Priority!Next
  <2>3. CASE InsertFix \/ RemoveFix
    BY <2>3, RepairStutters
  <2>4. CASE UNCHANGED vars
    BY <2>4 DEF vars, List, InOrder
  <2>5. QED
    BY <2>1, <2>2, <2>3, <2>4 DEF Next
<1>3. QED
  BY <1>1, <1>2, OrderInductive, PTL DEF Spec, ImplementsPriorityList, Priority!Spec

-----------------------------------------------------------------------------
(* Iteration.                                                              *)

\* No listing is longer than the account has blocks.
LEMMA ListFits ==
    ASSUME NEW U \in SUBSET Index, NEW s, NEW p, Enumerates(s, U, p)
    PROVE  Len(s) \in Nat /\ Len(s) <= Size
<1> DEFINE N == Len(s)
           f == [n \in 1 .. N |-> s[n]]
<1>1. N \in Nat /\ \A n \in 1 .. N : s[n] \in U /\ p[s[n]] = n
  BY DEF Enumerates
<1>2. f \in Injection(1 .. N, Index)
  <2>1. f \in [1 .. N -> Index]
    BY <1>1
  <2>2. \A m, n \in 1 .. N : f[m] = f[n] => m = n
    BY <1>1
  <2>3. IsInjective(f)
    BY <2>2 DEF IsInjective
  <2>4. QED
    BY <2>1, <2>2 DEF Injection, IsInjective
<1>3. Cardinality(1 .. N) = N
  <2>1. Cardinality(1 .. N) = IF 1 > N THEN 0 ELSE N - 1 + 1
    BY <1>1, FS_Interval
  <2>2. QED
    BY <1>1, <2>1
<1>4. Cardinality(1 .. N) <= Cardinality(Index)
  BY <1>2, FS_Injection, TreeAssumption
<1>5. QED
  BY <1>1, <1>3, <1>4 DEF Size

\* A walk that starts nowhere ends nowhere.
LEMMA OutermostNil ==
    ASSUME NEW t, NEW side
    PROVE  Outermost(t, NIL, side) = NIL
<1> DEFINE Step(j) == IF Child(t, j, side) = NIL THEN j ELSE Child(t, j, side)
           Eq(f) == f = [n \in 0 .. Size |-> IF n = 0 THEN NIL ELSE Step(f[n - 1])]
           f == CHOOSE f : Eq(f)
           g == [n \in 0 .. Size |-> NIL]
<1>1. Outermost(t, NIL, side) = f[Size]
  BY DEF Outermost
<1>2. Size \in Nat
  BY TreeAssumption, FS_CardinalityType DEF Size
<1>3. Step(NIL) = NIL
  BY DEF Child
<1>4. Eq(g)
  <2>1. ASSUME NEW n \in 0 .. Size
        PROVE  NIL = IF n = 0 THEN NIL ELSE Step(g[n - 1])
    <3>1. n # 0 => n - 1 \in 0 .. Size
      BY <1>2
    <3> HIDE DEF Step
    <3>2. QED
      BY <1>3, <3>1
  <2> HIDE DEF Step
  <2>2. QED
    BY <2>1
<1>5. Eq(f)
  <2> HIDE DEF Eq, g
  <2>1. QED
    BY <1>4
<1> DEFINE X == {n \in Nat : n <= Size => f[n] = NIL}
<1> HIDE DEF f
<1>6. \A n \in 0 .. Size : f[n] = IF n = 0 THEN NIL ELSE Step(f[n - 1])
  <2> HIDE DEF Step
  <2>1. QED
    BY <1>5
<1> HIDE DEF Step, Eq
<1>7. 0 \in X
  BY <1>2, <1>6
<1>8. ASSUME NEW n \in Nat, n \in X
      PROVE  n + 1 \in X
  <2>1. n + 1 <= Size => n + 1 \in 0 .. Size /\ n + 1 # 0 /\ n + 1 - 1 = n /\ n <= Size
    BY <1>2
  <2>2. n + 1 <= Size => f[n + 1] = Step(f[n])
    BY <1>6, <2>1
  <2>3. QED
    BY <1>3, <1>8, <2>1, <2>2
<1>9. \A n \in Nat : n \in X
  <2> HIDE DEF X
  <2>1. QED
    BY <1>7, <1>8, NatSetInduction
<1>10. QED
  BY <1>1, <1>2, <1>9

\* The rightmost block is the last of the listing.
LEMMA LookupMaxPlace ==
    ASSUME NEW t \in Trees, NEW U \in SUBSET Index, IsTree(t, U), NEW s, Ordered(t, U, s)
    PROVE  LookupMaxIndex(t) = IF Len(s) = 0 THEN NIL ELSE s[Len(s)]
<1> DEFINE N == Len(s)
<1>1. PICK p : Enumerates(s, U, p) /\ \E e : Spanned(t, U, p, e, N)
  BY DEF Ordered
<1>2. PICK e : Spanned(t, U, p, e, N)
  BY <1>1
<1>3. Joined(t, U) /\ Weighed(t, U, Weights(t, U)) /\ "right" \in Sides /\ NIL \notin U
  BY TreeWeighed, NilNoBlock DEF IsTree, Sides
<1>4. N \in Nat /\ \A i \in U : p[i] \in 1 .. N /\ s[p[i]] = i
  BY <1>1 DEF Enumerates
<1>5. \A n \in 1 .. N : s[n] \in U
  BY <1>1 DEF Enumerates
<1>6. CASE t.root = NIL
  <2>1. U = {}
    BY <1>3, <1>6 DEF Joined
  <2>2. N = 0
    BY <1>4, <1>5, <2>1
  <2>3. QED
    BY <1>6, <2>2, OutermostNil DEF LookupMaxIndex
<1>7. CASE t.root # NIL
  <2> DEFINE Y == {j \in U : e[j]["right"] = N}
             b == Outermost(t, t.root, "right")
  <2>1. t.root \in Y
    BY <1>2, <1>3, <1>7 DEF Joined, Spanned
  <2>2. \A i \in U : Fills(t, p, e, i, "right") /\ Kid(t, i, "right") \in U \cup {NIL}
    BY <1>2, <1>3 DEF Spanned, Joined
  <2>3. \A j \in Y : Kid(t, j, "right") \in Y \cup {NIL}
    BY <2>2 DEF Fills
  <2>4. Y \in SUBSET U /\ \A j \in Y : j \in U /\ e[j]["right"] = N
    OBVIOUS
  <2> HIDE DEF Y
  <2>5. b \in Y /\ Kid(t, b, "right") = NIL
    BY <1>3, <2>1, <2>3, <2>4, OutermostIn
  <2> HIDE DEF b
  <2>6. p[b] = N /\ b \in U
    BY <2>2, <2>4, <2>5 DEF Fills
  <2>7. N # 0 /\ s[N] = b
    BY <1>4, <2>6
  <2>8. QED
    BY <2>7 DEF LookupMaxIndex, b
<1>8. QED
  BY <1>6, <1>7

\* The iterator lists the blocks from the last to the first.
LEMMA IterationReverses ==
    ASSUME NEW t \in Trees, NEW U \in SUBSET Index, IsTree(t, U), NEW s, Listed(t, U, s)
    PROVE  Iteration(t) = Reverse(s)
<1> DEFINE N == Len(s)
           first == IF t.max # NIL THEN t.max ELSE LookupMaxIndex(t)
           Eq(f) == f = [n \in Nat |-> IF n = 0 THEN first ELSE GetNextLowerIndex(t, f[n - 1])]
           f == CHOOSE f : Eq(f)
           Ends(n) == (n = Size + 1 \/ f[n] = NIL) /\ \A k \in 0 .. n - 1 : f[k] # NIL
           length == CHOOSE n \in 0 .. Size + 1 : Ends(n)
           At(n) == IF n < N THEN s[N - n] ELSE NIL
           g == [n \in Nat |-> At(n)]
<1>1. Iteration(t) = [k \in 1 .. length |-> f[k - 1]]
  BY DEF Iteration
<1>2. PICK p : Enumerates(s, U, p) /\ \E e : Spanned(t, U, p, e, N)
  BY DEF Listed, Ordered
<1>3. PICK e : Spanned(t, U, p, e, N)
  BY <1>2
<1>4. N \in Nat /\ N <= Size /\ Size \in Nat
  BY <1>2, ListFits, TreeAssumption, FS_CardinalityType DEF Size
<1>5. \A n \in 1 .. N : s[n] \in U /\ p[s[n]] = n /\ s[n] # NIL
  BY <1>2, NilNoBlock DEF Enumerates
<1>6. first = At(0)
  <2>1. LookupMaxIndex(t) = At(0)
    BY <1>4, LookupMaxPlace DEF Listed
  <2>2. t.max # NIL => t.max = s[N] /\ s # << >>
    BY DEF Listed, MaxExact
  <2>3. s # << >> => N # 0
    BY <1>2 DEF Enumerates
  <2>4. QED
    BY <1>4, <2>1, <2>2, <2>3
<1>7. \A n \in Nat : At(n + 1) = GetNextLowerIndex(t, At(n))
  <2> SUFFICES ASSUME NEW n \in Nat PROVE At(n + 1) = GetNextLowerIndex(t, At(n))
    OBVIOUS
  <2>1. CASE n < N
    <3>1. N - n \in 1 .. N /\ s[N - n] \in U /\ p[s[N - n]] = N - n /\ At(n) = s[N - n]
      BY <1>4, <1>5, <2>1
    <3> DEFINE a == s[N - n]
    <3> HIDE DEF a
    <3>2. GetNextLowerIndex(t, a) = IF p[a] = 1 THEN NIL ELSE s[p[a] - 1]
      BY <1>2, <1>3, <3>1, NextLowerPlace DEF a
    <3>3. At(n + 1) = IF N - n = 1 THEN NIL ELSE s[N - n - 1]
      <4>1. n + 1 < N <=> N - n # 1
        BY <1>4, <2>1
      <4>2. N - (n + 1) = N - n - 1
        BY <1>4
      <4>3. QED
        BY <4>1, <4>2
    <3>4. QED
      BY <3>1, <3>2, <3>3 DEF a
  <2>2. CASE ~ (n < N)
    <3>1. At(n) = NIL /\ At(n + 1) = NIL
      BY <1>4, <2>2
    <3>2. GetNextLowerIndex(t, NIL) = NIL
      BY DEF GetNextLowerIndex
    <3>3. QED
      BY <3>1, <3>2
  <2>3. QED
    BY <2>1, <2>2
<1> HIDE DEF At, first
<1>8. Eq(g)
  <2>1. \A n \in Nat : g[n] = At(n)
    OBVIOUS
  <2>2. ASSUME NEW n \in Nat
        PROVE  At(n) = IF n = 0 THEN first ELSE GetNextLowerIndex(t, g[n - 1])
    <3>1. CASE n = 0
      BY <1>6, <3>1
    <3>2. CASE n # 0
      <4>1. n - 1 \in Nat /\ n - 1 + 1 = n
        BY <3>2
      <4>2. QED
        BY <1>7, <2>1, <3>2, <4>1
    <3>3. QED
      BY <3>1, <3>2
  <2>3. QED
    BY <2>2
<1>9. Eq(f)
  <2> HIDE DEF Eq, g
  <2>1. QED
    BY <1>8
<1> HIDE DEF f, g
<1>10. \A n \in Nat : f[n] = IF n = 0 THEN first ELSE GetNextLowerIndex(t, f[n - 1])
  BY <1>9
<1> HIDE DEF Eq
<1> DEFINE X == {n \in Nat : f[n] = At(n)}
<1>11. 0 \in X
  BY <1>6, <1>10
<1>12. ASSUME NEW n \in Nat, n \in X
       PROVE  n + 1 \in X
  <2>1. n + 1 \in Nat /\ n + 1 # 0 /\ n + 1 - 1 = n
    OBVIOUS
  <2>2. f[n + 1] = GetNextLowerIndex(t, f[n])
    BY <1>10, <2>1
  <2>3. QED
    BY <1>7, <1>12, <2>2
<1>13. \A n \in Nat : f[n] = At(n)
  <2>1. \A n \in Nat : n \in X
    <3> HIDE DEF X
    <3>1. QED
      BY <1>11, <1>12, NatSetInduction
  <2>2. QED
    BY <2>1
<1>14. length = N
  <2>1. N \in 0 .. Size + 1 /\ Ends(N)
    <3>1. f[N] = NIL /\ \A k \in 0 .. N - 1 : f[k] = s[N - k] /\ N - k \in 1 .. N
      BY <1>4, <1>13 DEF At
    <3>2. QED
      BY <1>4, <1>5, <3>1
  <2>2. ASSUME NEW n \in 0 .. Size + 1, Ends(n)
        PROVE  n = N
    <3>1. ~ (N < n)
      <4>1. N < n => N \in 0 .. n - 1
        BY <1>4
      <4>2. f[N] = NIL
        BY <1>4, <1>13 DEF At
      <4>3. QED
        BY <2>2, <4>1, <4>2
    <3>2. ~ (n < N)
      <4>1. n < N => n # Size + 1 /\ f[n] = s[N - n] /\ N - n \in 1 .. N
        BY <1>4, <1>13 DEF At
      <4>2. QED
        BY <1>5, <2>2, <4>1
    <3>3. QED
      BY <1>4, <3>1, <3>2
  <2> HIDE DEF Ends
  <2>3. length \in 0 .. Size + 1 /\ Ends(length)
    BY <2>1
  <2>4. QED
    BY <2>2, <2>3
<1> HIDE DEF length
<1>15. \A k \in 1 .. N : f[k - 1] = s[N - k + 1]
  <2> SUFFICES ASSUME NEW k \in 1 .. N PROVE f[k - 1] = s[N - k + 1]
    OBVIOUS
  <2>1. k - 1 \in Nat /\ k - 1 < N /\ N - (k - 1) = N - k + 1
    BY <1>4
  <2>2. QED
    BY <1>13, <2>1 DEF At
<1>16. QED
  BY <1>1, <1>14, <1>15 DEF Reverse

\* Between operations the iterator visits every node once, from the best to the
\* worst, and ends.
THEOREM IterationAlwaysComplete == Spec => []IterationComplete
<1>1. OrderInv => IterationComplete
  <2> SUFFICES ASSUME OrderInv PROVE IterationComplete
    OBVIOUS
  <2>1. PICK s : TreeInv /\ Listed(tree, used, s)
    BY DEF OrderInv
  <2>2. InOrder = s
    BY <2>1, ListedWalk
  <2>3. Iteration(tree) = Reverse(s)
    BY <2>1, IterationReverses DEF TreeInv
  <2>4. QED
    BY <2>2, <2>3 DEF IterationComplete
<1>2. QED
  BY <1>1, OrderInductive, PTL

-----------------------------------------------------------------------------
(* Search.                                                                 *)

\* What lookup_index makes, at block i, of what it finds on the two sides.
Hit(t, value, i, left, right) ==
    CASE Equal(t.node[i].value, value) -> i
      [] ~ Equal(t.node[i].value, value) /\ Above(t.node[i].value, value) -> left
      [] ~ Equal(t.node[i].value, value) /\ Above(value, t.node[i].value) -> right
      [] ~ Equal(t.node[i].value, value) /\ t.node[i].value.key = value.key ->
            FirstFound(left, right)

LEMMA HitCases ==
    ASSUME NEW t \in Trees, NEW value \in Values, NEW i \in Index, NEW left, NEW right
    PROVE  LET hit == Hit(t, value, i, left, right)
           IN  /\ Equal(t.node[i].value, value) => hit = i
               /\ ~ Equal(t.node[i].value, value) => hit \in {left, right}
               /\ ~ Equal(t.node[i].value, value) =>
                    /\ Key(t, i) > value.key => hit = left
                    /\ Key(t, i) < value.key => hit = right
                    /\ Key(t, i) = value.key => hit = IF left # NIL THEN left ELSE right
<1>1. Key(t, i) \in Int /\ value.key \in Int
  BY KeysAreNumbers
<1>2. CASE Equal(t.node[i].value, value)
  BY <1>2 DEF Hit
<1>3. CASE ~ Equal(t.node[i].value, value)
  <2>1. CASE Key(t, i) > value.key
    <3>1. /\ Above(t.node[i].value, value) /\ ~ Above(value, t.node[i].value)
          /\ t.node[i].value.key # value.key
      BY <1>1, <2>1 DEF Above, Key
    <3>2. Hit(t, value, i, left, right) = left
      BY <1>3, <3>1 DEF Hit
    <3>3. QED
      BY <1>1, <1>3, <2>1, <3>2
  <2>2. CASE Key(t, i) < value.key
    <3>1. /\ ~ Above(t.node[i].value, value) /\ Above(value, t.node[i].value)
          /\ t.node[i].value.key # value.key
      BY <1>1, <2>2 DEF Above, Key
    <3>2. Hit(t, value, i, left, right) = right
      BY <1>3, <3>1 DEF Hit
    <3>3. QED
      BY <1>1, <1>3, <2>2, <3>2
  <2>3. CASE Key(t, i) = value.key
    <3>1. /\ ~ Above(t.node[i].value, value) /\ ~ Above(value, t.node[i].value)
          /\ t.node[i].value.key = value.key
      BY <1>1, <2>3 DEF Above, Key
    <3>2. Hit(t, value, i, left, right) = IF left # NIL THEN left ELSE right
      BY <1>3, <3>1 DEF Hit, FirstFound
    <3>3. QED
      BY <1>1, <1>3, <2>3, <3>2
  <2>4. QED
    BY <1>1, <2>1, <2>2, <2>3
<1>4. QED
  BY <1>2, <1>3

LEMMA SearchWalk ==
    ASSUME NEW t \in Trees, NEW value \in Values
    PROVE  \E part :
            /\ LookupIndex(t, value) = part[Size][t.root]
            /\ \A n \in 0 .. Size, i \in Links :
                part[n][i] = IF i = NIL \/ n = 0 THEN NIL
                             ELSE Hit(t, value, i, part[n - 1][Kid(t, i, "left")],
                                                   part[n - 1][Kid(t, i, "right")])
<1> DEFINE L(i) == Kid(t, i, "left")
           R(i) == Kid(t, i, "right")
           H(i, l, r) == Hit(t, value, i, l, r)
           Eq(part) == part = [fuel \in 0 .. Size |-> [i \in Links |->
                IF i = NIL \/ fuel = 0 THEN NIL
                ELSE H(i, part[fuel - 1][L(i)], part[fuel - 1][R(i)])]]
           part == CHOOSE part : Eq(part)
           S == [Links -> Links]
           Step(p) == [i \in Links |-> IF i = NIL THEN NIL ELSE H(i, p[L(i)], p[R(i)])]
           step == [p \in S |-> Step(p)]
           none == [i \in Links |-> NIL]
<1>1. LookupIndex(t, value) = part[Size][t.root]
  BY DEF LookupIndex, Hit, Kid
<1>2. Size \in Nat /\ Links = Index \cup {NIL}
  BY TreeAssumption, FS_CardinalityType DEF Size, Links
<1>3. \A i \in Index : L(i) \in Links /\ R(i) \in Links
  BY LinksTyped DEF Sides
<1>4. none \in S
  BY <1>2
<1>5. ASSUME NEW i \in Index, NEW l \in Links, NEW r \in Links
      PROVE  H(i, l, r) \in Links
  <2>1. H(i, l, r) \in {i, l, r}
    BY HitCases
  <2>2. QED
    BY <1>2, <2>1
<1> HIDE DEF L, R, H
<1>6. step \in [S -> S]
  <2>1. ASSUME NEW p \in S PROVE Step(p) \in S
    <3>1. ASSUME NEW i \in Links, i # NIL
          PROVE  H(i, p[L(i)], p[R(i)]) \in Links
      BY <1>2, <1>3, <1>5, <3>1
    <3>2. QED
      BY <1>2, <3>1
  <2> HIDE DEF S, Step
  <2>2. QED
    BY <2>1
<1>7. \E f : Eq(f)
  <2> HIDE DEF step, none, S
  <2>1. PICK f \in [0 .. Size -> S] : IsIteration(f, none, step, Size)
    BY <1>2, <1>4, <1>6, IterationExists
  <2>2. f = [n \in 0 .. Size |-> IF n = 0 THEN none ELSE step[f[n - 1]]]
    BY <2>1 DEF IsIteration
  <2>3. ASSUME NEW n \in 0 .. Size
        PROVE  (IF n = 0 THEN none ELSE step[f[n - 1]]) = [i \in Links |->
                IF i = NIL \/ n = 0 THEN NIL ELSE H(i, f[n - 1][L(i)], f[n - 1][R(i)])]
    <3>1. CASE n = 0
      BY <3>1 DEF none
    <3>2. CASE n # 0
      <4>1. n - 1 \in 0 .. Size
        BY <1>2, <3>2
      <4>2. f[n - 1] \in S
        BY <4>1
      <4>3. step[f[n - 1]] = Step(f[n - 1])
        <5> HIDE DEF Step
        <5>1. QED
          BY <4>2 DEF step
      <4>4. QED
        BY <3>2, <4>3
    <3>3. QED
      BY <3>1, <3>2
  <2>4. Eq(f)
    BY <2>2, <2>3
  <2>5. QED
    BY <2>4
<1>8. Eq(part)
  <2> HIDE DEF Eq
  <2>1. QED
    BY <1>7
<1>9. ASSUME NEW n \in 0 .. Size, NEW i \in Links
      PROVE  part[n][i] = IF i = NIL \/ n = 0 THEN NIL ELSE H(i, part[n - 1][L(i)], part[n - 1][R(i)])
  <2> HIDE DEF part
  <2> DEFINE g == part[n - 1]
  <2>1. part[n] = [j \in Links |->
            IF j = NIL \/ n = 0 THEN NIL ELSE H(j, part[n - 1][L(j)], part[n - 1][R(j)])]
    BY <1>8
  <2>2. part[n] = [j \in Links |-> IF j = NIL \/ n = 0 THEN NIL ELSE H(j, g[L(j)], g[R(j)])]
    BY <2>1
  <2> HIDE DEF g
  <2>3. part[n][i] = IF i = NIL \/ n = 0 THEN NIL ELSE H(i, g[L(i)], g[R(i)])
    BY <2>2
  <2>4. QED
    BY <2>3 DEF g
<1>10. QED
  BY <1>1, <1>9 DEF L, R, H

\* What lookup_index finds equals the value, and it finds something if a block of the
\* tree has exactly this value: a block that the search does not return sends it to
\* the side of the value, and where the keys are the same to both sides.
LEMMA LookupFinds ==
    ASSUME NEW t \in Trees, NEW U \in SUBSET Index, IsTree(t, U), NEW s, Listed(t, U, s),
           NEW value \in Values
    PROVE  LET found == LookupIndex(t, value)
           IN  /\ found # NIL => found \in U /\ Equal(t.node[found].value, value)
               /\ (\E i \in U : t.node[i].value = value) => found # NIL
<1> DEFINE N == Len(s)
           w == Weights(t, U)
           L(i) == Kid(t, i, "left")
           R(i) == Kid(t, i, "right")
           Here(i) == Equal(t.node[i].value, value)
<1>0. Across("left") = "right" /\ Across("right") = "left"
  BY DEF Across
<1>1. PICK part :
            /\ LookupIndex(t, value) = part[Size][t.root]
            /\ \A n \in 0 .. Size, i \in Links :
                part[n][i] = IF i = NIL \/ n = 0 THEN NIL
                             ELSE Hit(t, value, i, part[n - 1][L(i)], part[n - 1][R(i)])
  BY SearchWalk
<1>2. Size \in Nat /\ Links = Index \cup {NIL} /\ NIL \notin U
  BY TreeAssumption, FS_CardinalityType, NilNoBlock DEF Size, Links
<1>3. PICK p : Enumerates(s, U, p) /\ \E e : Spanned(t, U, p, e, N)
  BY DEF Listed, Ordered
<1>4. PICK e : Spanned(t, U, p, e, N)
  BY <1>3
<1>5. /\ N \in Nat /\ p \in [U -> Int]
      /\ \A i \in U : p[i] \in 1 .. N /\ s[p[i]] = i
      /\ \A n \in 1 .. N : s[n] \in U /\ p[s[n]] = n
  BY <1>3 DEF Enumerates
<1>6. Joined(t, U)
  BY DEF IsTree
<1>7. Graded(t, U, w) /\ \A i \in U : w[i] \in 1 .. Size
  BY WeightsGraded
<1>8. \A i \in U, side \in Sides : Kid(t, i, side) # NIL =>
            Kid(t, i, side) \in U /\ w[Kid(t, i, side)] < w[i]
  <2> HIDE DEF w
  <2>1. QED
    BY <1>6, <1>7, Apart DEF Joined
<1>9. \A i \in U : /\ 1 <= e[i]["left"] /\ e[i]["left"] <= p[i]
                   /\ p[i] <= e[i]["right"] /\ e[i]["right"] <= N
                   /\ e[i]["left"] \in Int /\ e[i]["right"] \in Int /\ p[i] \in Int
  <2>1. \A i \in U : 1 <= e[i]["left"] /\ e[i]["right"] <= N
    BY <1>4, <1>5, SpansBounded
  <2>2. QED
    BY <1>4, <1>5, <2>1 DEF Spanned, Sides
<1>10. \A i \in U : Fills(t, p, e, i, "left") /\ Fills(t, p, e, i, "right")
  BY <1>4 DEF Spanned, Sides
<1> HIDE DEF w
<1> DEFINE Held(i, m) == e[i]["left"] <= m /\ m <= e[i]["right"] /\ t.node[s[m]].value = value
           Sound(n, i) == part[n][i] # NIL => part[n][i] \in U /\ Here(part[n][i])
           Full(n, i) == w[i] <= n /\ (\E m \in 1 .. N : Held(i, m)) => part[n][i] # NIL
           X == {n \in Nat : n <= Size =>
                    /\ \A i \in U \cup {NIL} : Sound(n, i)
                    /\ \A i \in U : Full(n, i)}
<1>11. \A n \in 0 .. Size : part[n][NIL] = NIL
  BY <1>1, <1>2
<1>12. 0 \in X
  <2>1. 0 \in 0 .. Size /\ \A i \in U : i \in Links /\ ~(w[i] <= 0)
    BY <1>2, <1>7
  <2>2. part[0][NIL] = NIL /\ \A i \in U : part[0][i] = NIL
    BY <1>1, <1>11, <2>1
  <2> HIDE DEF Here, Held
  <2>3. QED
    BY <2>1, <2>2
<1>13. ASSUME NEW n \in Nat, n \in X
       PROVE  n + 1 \in X
  <2> SUFFICES ASSUME n + 1 <= Size, NEW i \in U
               PROVE  Sound(n + 1, i) /\ Full(n + 1, i)
    <3>1. n + 1 <= Size => n + 1 \in 0 .. Size
      BY <1>2
    <3>2. n + 1 <= Size => Sound(n + 1, NIL)
      BY <1>11, <3>1
    <3> HIDE DEF Sound, Full
    <3>3. QED
      BY <3>2
  <2> DEFINE l == part[n][L(i)]
             r == part[n][R(i)]
             hit == part[n + 1][i]
  <2>1. n + 1 \in 0 .. Size /\ n <= Size /\ n + 1 # 0 /\ (n + 1) - 1 = n
    BY <1>2
  <2>2. i \in Index /\ i \in Links /\ i # NIL
    BY <1>2
  <2>3. part[n + 1][i] = Hit(t, value, i, l, r)
    BY <1>1, <2>1, <2>2
  <2>4. /\ Here(i) => hit = i
        /\ ~ Here(i) => hit \in {l, r}
        /\ ~ Here(i) =>
             /\ Key(t, i) > value.key => hit = l
             /\ Key(t, i) < value.key => hit = r
             /\ Key(t, i) = value.key => hit = IF l # NIL THEN l ELSE r
    BY <2>2, <2>3, HitCases
  <2>5. \A k \in {L(i), R(i)} : k \in U \cup {NIL} /\ (k # NIL => w[k] < w[i])
    BY <1>8 DEF Sides
  <2>6. /\ \A k \in U \cup {NIL} : Sound(n, k)
        /\ \A k \in U : Full(n, k)
    BY <1>13, <2>1
  <2>7. Sound(n + 1, i)
    <3>1. Sound(n, L(i)) /\ Sound(n, R(i))
      BY <2>5, <2>6
    <3>2. CASE Here(i)
      <4> HIDE DEF Here
      <4>1. QED
        BY <2>4, <3>2
    <3>3. CASE ~ Here(i)
      <4> HIDE DEF Here
      <4>1. QED
        BY <2>4, <3>1, <3>3
    <3>4. QED
      BY <3>2, <3>3
  <2>8. ASSUME w[i] <= n + 1, NEW m \in 1 .. N, Held(i, m), ~ Here(i)
        PROVE  hit # NIL
    <3>1. /\ Key(t, i) \in Int /\ value.key \in Int /\ Key(t, s[m]) = value.key
          /\ s[m] \in U /\ p[s[m]] = m /\ p[i] \in 1 .. N /\ s[p[i]] = i
      <4>1. s[m] \in U /\ p[s[m]] = m /\ p[i] \in 1 .. N /\ s[p[i]] = i
        BY <1>5
      <4>2. Key(t, s[m]) = value.key
        BY <2>8 DEF Key
      <4>3. QED
        BY <2>2, <4>1, <4>2, KeysAreNumbers
    <3>2. m # p[i]
      <4>1. TOLERANCE \in Nat /\ value.key - value.key = 0
        BY <3>1, TreeAssumption
      <4>2. Equal(value, value)
        BY <4>1 DEF Equal
      <4>3. m = p[i] => Here(i)
        BY <2>8, <3>1, <4>2
      <4>4. QED
        BY <2>8, <4>3
    <3>3. Sorted(t, s)
      BY DEF Listed
    <3>4. \A k \in U : w[k] \in Nat
      BY <1>7
    <3>5. CASE m < p[i]
      <4>1. value.key <= Key(t, i)
        <5>1. m <= p[i]
          BY <1>9, <3>5
        <5>2. Key(t, s[m]) <= Key(t, s[p[i]])
          BY <3>1, <3>3, <5>1 DEF Sorted
        <5>3. QED
          BY <3>1, <5>2
      <4>2. L(i) # NIL
        <5>1. L(i) = NIL => e[i]["left"] = p[i]
          BY <1>10 DEF Fills
        <5>2. QED
          BY <1>9, <2>8, <3>5, <5>1
      <4>3. e[L(i)]["left"] = e[i]["left"] /\ e[L(i)]["right"] = p[i] - 1
        <5>1. e[L(i)]["left"] = e[i]["left"] /\ e[L(i)]["right"] = p[i] + Forth("left")
          BY <1>10, <4>2, <1>0 DEF Fills
        <5>2. p[i] + Forth("left") = p[i] - 1
          BY <1>9 DEF Forth
        <5>3. QED
          BY <5>1, <5>2
      <4>4. Held(L(i), m)
        BY <1>9, <2>8, <3>5, <4>3
      <4>5. w[L(i)] <= n /\ L(i) \in U
        BY <2>5, <2>8, <3>4, <4>2
      <4>6. l # NIL
        <5> HIDE DEF Held
        <5>1. Full(n, L(i))
          BY <2>6, <4>5
        <5>2. QED
          BY <4>4, <4>5, <5>1
      <4>7. QED
        BY <2>4, <2>8, <3>1, <4>1, <4>6
    <3>6. CASE m > p[i]
      <4>1. Key(t, i) <= value.key
        <5>1. p[i] <= m
          BY <1>9, <3>6
        <5>2. Key(t, s[p[i]]) <= Key(t, s[m])
          BY <3>1, <3>3, <5>1 DEF Sorted
        <5>3. QED
          BY <3>1, <5>2
      <4>2. R(i) # NIL
        <5>1. R(i) = NIL => e[i]["right"] = p[i]
          BY <1>10 DEF Fills
        <5>2. QED
          BY <1>9, <2>8, <3>6, <5>1
      <4>3. e[R(i)]["right"] = e[i]["right"] /\ e[R(i)]["left"] = p[i] + 1
        BY <1>10, <4>2, <1>0 DEF Fills, Forth
      <4>4. Held(R(i), m)
        BY <1>9, <2>8, <3>6, <4>3
      <4>5. w[R(i)] <= n /\ R(i) \in U
        BY <2>5, <2>8, <3>4, <4>2
      <4>6. r # NIL
        <5> HIDE DEF Held
        <5>1. Full(n, R(i))
          BY <2>6, <4>5
        <5>2. QED
          BY <4>4, <4>5, <5>1
      <4>7. QED
        BY <2>4, <2>8, <3>1, <4>1, <4>6
    <3>7. QED
      BY <1>9, <3>2, <3>5, <3>6
  <2>9. Full(n + 1, i)
    <3> HIDE DEF Held, Here
    <3>1. Here(i) => hit # NIL
      BY <2>2, <2>4
    <3>2. QED
      BY <2>8, <3>1
  <2>10. QED
    <3> HIDE DEF Sound, Full
    <3>1. QED
      BY <2>7, <2>9
<1>14. \A n \in Nat : n \in X
  <2> HIDE DEF X
  <2>1. QED
    BY <1>12, <1>13, NatSetInduction
<1>15. /\ \A i \in U \cup {NIL} : Sound(Size, i)
       /\ \A i \in U : Full(Size, i)
  <2> HIDE DEF Sound, Full
  <2>1. QED
    BY <1>2, <1>14
<1> DEFINE found == LookupIndex(t, value)
<1>16. t.root \in U \cup {NIL} /\ found = part[Size][t.root]
  BY <1>1, <1>6 DEF Joined
<1>17. found # NIL => found \in U /\ Here(found)
  BY <1>15, <1>16
<1>18. ASSUME NEW i \in U, t.node[i].value = value
       PROVE  found # NIL
  <2>1. t.root # NIL /\ t.root \in U
    BY <1>6, <1>16 DEF Joined
  <2>2. e[t.root]["left"] = 1 /\ e[t.root]["right"] = N
    BY <1>4, <2>1 DEF Spanned
  <2>3. p[i] \in 1 .. N /\ s[p[i]] = i
    BY <1>5
  <2>4. Held(t.root, p[i])
    BY <1>5, <1>18, <2>2, <2>3
  <2>5. w[t.root] <= Size
    BY <1>2, <1>7, <2>1
  <2>6. QED
    <3> HIDE DEF Held, found
    <3>1. Full(Size, t.root)
      BY <1>15, <2>1
    <3>2. QED
      BY <1>16, <2>3, <2>4, <2>5, <3>1
<1>19. QED
  BY <1>17, <1>18

\* Between operations lookup_index returns a node that equals the value, and misses
\* none that has exactly this value.
THEOREM LookupAlwaysExact == Spec => []LookupExact
<1>1. OrderInv => LookupExact
  <2> SUFFICES ASSUME OrderInv PROVE LookupExact
    OBVIOUS
  <2>1. PICK s : TreeInv /\ Listed(tree, used, s)
    BY DEF OrderInv
  <2>2. tree \in Trees /\ used \in SUBSET Index /\ IsTree(tree, used)
    BY <2>1 DEF TreeInv
  <2>3. QED
    BY <2>1, <2>2, LookupFinds DEF LookupExact
<1>2. QED
  BY <1>1, OrderInductive, PTL

=============================================================================
