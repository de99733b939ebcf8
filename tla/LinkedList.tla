----------------------------- MODULE LinkedList -----------------------------
(***************************************************************************)
(* The doubly linked list that holds the open orders of a wrapper account  *)
(* (lib/src/linked_list.rs), and the conversion in place of a tree that an *)
(* older wrapper has left.  A list l is its head and the nodes of the same *)
(* blocks: "right" is the next node, "parent" the previous one, "left" is  *)
(* NIL and the color black, so that it reads as a right-leaning tree.      *)
(***************************************************************************)
EXTENDS RedBlackTree

NextInList(l, i) == IF i = NIL THEN NIL ELSE l.node[i].right

\* The iterator, from the head.
ListWalk(l) ==
    LET visit[n \in Nat] == IF n = 0 THEN l.head ELSE NextInList(l, visit[n - 1])
        length == CHOOSE n \in 0 .. Size + 1 :
                    (n = Size + 1 \/ visit[n] = NIL) /\ \A k \in 0 .. n - 1 : visit[k] # NIL
    IN  [k \in 1 .. length |-> visit[k - 1]]

\* The first node that equals the value.
ListLookup(l, value) ==
    LET walk == ListWalk(l)
        hits == {k \in DOMAIN walk : Equal(l.node[walk[k]].value, value)}
    IN  IF hits = {} THEN NIL ELSE walk[CHOOSE k \in hits : \A n \in hits : k <= n]

\* insert: at the head.
ListInsert(l, index, value) ==
    LET linked == IF l.head = NIL THEN l ELSE [l EXCEPT !.node[l.head].parent = index]
    IN  [linked EXCEPT !.head = index,
                       !.node[index] = [left |-> NIL, right |-> l.head, parent |-> NIL,
                                        color |-> "black", value |-> value]]

\* remove_by_index.
ListRemove(l, index) ==
    LET prev == l.node[index].parent
        next == l.node[index].right
        cut  == [l EXCEPT !.node[index].parent = NIL, !.node[index].right = NIL]
        down == IF prev = NIL THEN [cut EXCEPT !.head = next]
                              ELSE [cut EXCEPT !.node[prev].right = next]
    IN  IF next = NIL THEN down ELSE [down EXCEPT !.node[next].parent = prev]

\* validate_linked_list; blocks neither overlap nor are misaligned here.
IsValidList(l) ==
    LET walk == ListWalk(l)
    IN  /\ Len(walk) <= Size
        /\ \A k, n \in DOMAIN walk : walk[k] = walk[n] => k = n
        /\ \A k \in DOMAIN walk :
            /\ l.node[walk[k]].parent = IF k = 1 THEN NIL ELSE walk[k - 1]
            /\ l.node[walk[k]].left = NIL

-----------------------------------------------------------------------------
(* convert_red_black_tree_to_linked_list.                                  *)

\* Mutant: pass one finishes the header of each node as it goes.
SuccessorWrittenWhole(t, i, next) ==
    [t EXCEPT !.node[i].right = next, !.node[i].left = NIL]

SuccessorWritten(t, i, next) == [t EXCEPT !.node[i].right = next]

\* Pass one walks down from the maximum and overwrites the right link of each
\* node it leaves, in the tree that it is still walking.
Spine(t) ==
    LET pass[n \in 0 .. Size] ==
            IF n = 0 THEN [tree |-> [t EXCEPT !.max = NIL], at |-> LookupMaxIndex(t)]
            ELSE LET s == pass[n - 1]
                     next == GetNextLowerIndex(s.tree, s.at)
                 IN  IF s.at = NIL THEN s
                     ELSE [tree |-> SuccessorWritten(s.tree, s.at, next), at |-> next]
    IN  pass[Size].tree

\* Pass two follows the chain and finishes the headers.
Converted(t) ==
    LET head == LookupMaxIndex(t)
        pass[n \in 0 .. Size] ==
            IF n = 0 THEN [node |-> Spine(t).node, prev |-> NIL, at |-> head]
            ELSE LET s == pass[n - 1]
                 IN  IF s.at = NIL THEN s
                     ELSE [node |-> [s.node EXCEPT ![s.at].left = NIL, ![s.at].parent = s.prev,
                                                   ![s.at].color = "black"],
                           prev |-> s.at, at |-> s.node[s.at].right]
    IN  [head |-> head, node |-> pass[Size].node]

=============================================================================
