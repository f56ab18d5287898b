------------------------------- MODULE RbTree -------------------------------
(***************************************************************************)
(* The intrusive red-black tree of libcoll/src/rbtree.c.  A node is named  *)
(* by its key.  left and right are the sides "L" and "R" of kid, so that a *)
(* pair of mirrored branches of the code is one definition over a side.    *)
(* The fields of a node that is not in the tree belong to the caller; they *)
(* are kept at Blank.                                                      *)
(***************************************************************************)
EXTENDS Integers, Sequences, FiniteSets, SequencesExt

CONSTANT K     \* the number of nodes

ASSUME KAssumption == K \in Nat \ {0}

VARIABLES
  tree,        \* struct rbtree and the nodes linked into it
  keys         \* history: the keys of the nodes inserted and not removed

vars == <<tree, keys>>

Node == 1..K
Nil == 0

\* struct rbtree_node: the children of a node that has none.
Blank == [L |-> Nil, R |-> Nil]

Other(s) == IF s = "L" THEN "R" ELSE "L"

\* The side of p that n hangs on: the code tests one link and infers the other.
Side(t, p, n) == IF t.kid[p].L = n THEN "L" ELSE "R"

IsRed(t, n) == n # Nil /\ t.red[n]

\* get_sibling
Sibling(t, n) == IF t.up[n] = Nil THEN Nil ELSE t.kid[t.up[n]][Other(Side(t, t.up[n], n))]

SetUp(t, n, p) == IF n = Nil THEN t ELSE [t EXCEPT !.up[n] = p]

\* The link to n, in its parent p or in the tree, becomes a link to m.
Relink(t, p, n, m) ==
  IF p = Nil THEN [t EXCEPT !.root = m] ELSE [t EXCEPT !.kid[p][Side(t, p, n)] = m]

\* Fault: the inner subtree keeps its old parent.
RotateForgetsInner(t, n, s) ==
  LET c == t.kid[n][Other(s)]
  IN  Relink([t EXCEPT !.kid[n][Other(s)] = t.kid[c][s], !.up[n] = c,
                       !.kid[c][s] = n, !.up[c] = t.up[n]], t.up[n], n, c)

\* rotate_left and rotate_right: n goes down on side s, its other child rises.
Rotate(t, n, s) ==
  LET c == t.kid[n][Other(s)]
      inner == t.kid[c][s]
  IN  Relink([SetUp(t, inner, n) EXCEPT !.kid[n][Other(s)] = inner, !.up[n] = c,
                                        !.kid[c][s] = n, !.up[c] = t.up[n]], t.up[n], n, c)

RECURSIVE GetMin(_, _)
GetMin(t, n) == IF t.kid[n].L = Nil THEN n ELSE GetMin(t, t.kid[n].L)

RECURSIVE Climb(_, _)
Climb(t, n) ==
  LET p == t.up[n]
  IN  CASE p = Nil -> Nil [] p # Nil /\ t.kid[p].L = n -> p [] OTHER -> Climb(t, p)

\* rbtree_first and rbtree_next
First(t) == IF t.root = Nil THEN Nil ELSE GetMin(t, t.root)
NextNode(t, n) == IF t.kid[n].R # Nil THEN GetMin(t, t.kid[n].R) ELSE Climb(t, n)

\* rbtree_find: the loop at node next, which hangs on r.to_insert.
RECURSIVE Descend(_, _, _, _)
Descend(t, key, next, r) ==
  IF next = Nil THEN r
  ELSE CASE next < key -> Descend(t, key, t.kid[next].R, [r EXCEPT !.lower = next, !.to_insert = next])
         [] next > key -> Descend(t, key, t.kid[next].L, [r EXCEPT !.upper = next, !.to_insert = next])
         [] OTHER -> [lower |-> next, upper |-> next, to_insert |-> Nil]

\* Fault: the search starts with the bounds of an earlier one.
FindStale(t, key) == Descend(t, key, t.root, [lower |-> t.root, upper |-> Nil, to_insert |-> Nil])

Find(t, key) == Descend(t, key, t.root, [lower |-> Nil, upper |-> Nil, to_insert |-> Nil])

-----------------------------------------------------------------------------
(* Insertion *)

\* Cases 4 and 5: node n and its parent p are red, the uncle is not.
Straighten(t, n, p) ==
  LET g == t.up[p]
      s == Side(t, g, p)
      bent == Side(t, p, n) # s
      t1 == IF bent THEN Rotate(t, p, s) ELSE t
      top == IF bent THEN n ELSE p
  IN  Rotate([t1 EXCEPT !.red[top] = FALSE, !.red[g] = TRUE], g, Other(s))

RECURSIVE InsertionBalancing(_, _)
InsertionBalancing(t, n) ==
  LET p == t.up[n]
      red == [t EXCEPT !.red[n] = TRUE]
      u == Sibling(t, p)
  IN  CASE p = Nil -> [t EXCEPT !.red[n] = FALSE]
        [] p # Nil /\ ~t.red[p] -> red
        [] p # Nil /\ t.red[p] /\ IsRed(t, u) ->
             InsertionBalancing([red EXCEPT !.red[p] = FALSE, !.red[u] = FALSE,
                                            !.red[t.up[p]] = TRUE], t.up[p])
        [] OTHER -> Straighten(red, n, p)

\* rbtree_insert; a key that is in the tree already changes nothing.
RbInsert(t, n) ==
  LET p == Find(t, n).to_insert
  IN  IF t.root = Nil
        THEN [t EXCEPT !.root = n, !.up[n] = Nil, !.kid[n] = Blank, !.red[n] = FALSE]
        ELSE IF p = Nil THEN t
        ELSE InsertionBalancing([t EXCEPT !.up[n] = p, !.kid[n] = Blank,
                                          !.kid[p][IF n < p THEN "L" ELSE "R"] = n], n)

-----------------------------------------------------------------------------
(* Removal *)

\* removal_balancing from case 5 on: b, on side s of p, has a red child.
RotateSibling(t, p, b, s) ==
  LET near == t.kid[b][Other(s)]
      bent == IsRed(t, near) /\ ~IsRed(t, t.kid[b][s])
      t1 == IF bent THEN Rotate([t EXCEPT !.red[b] = TRUE, !.red[near] = FALSE], b, s) ELSE t
      top == IF bent THEN near ELSE b
  IN  Rotate([t1 EXCEPT !.red[top] = t1.red[p], !.red[p] = FALSE, !.red[t1.kid[top][s]] = FALSE],
             p, Other(s))

\* removal_balancing: the side of sib's parent opposite to sib is one black short.
RECURSIVE RemovalBalancing(_, _)
RemovalBalancing(t, sib) ==
  IF sib = Nil THEN t
  ELSE LET p == t.up[sib]
           s == Side(t, p, sib)
           t1 == IF t.red[sib]
                   THEN Rotate([t EXCEPT !.red[sib] = FALSE, !.red[p] = TRUE], p, Other(s))
                   ELSE t
           b == IF t.red[sib] THEN t.kid[sib][Other(s)] ELSE sib
           black == ~IsRed(t1, t1.kid[b].L) /\ ~IsRed(t1, t1.kid[b].R)
           fixed == [t1 EXCEPT !.red[b] = TRUE, !.red[p] = FALSE]
       IN  CASE black /\ ~t1.red[p] -> RemovalBalancing(fixed, Sibling(fixed, p))
             [] black /\ t1.red[p]  -> fixed
             [] OTHER -> RotateSibling(t1, p, b, s)

TwoChildren(t, n) == t.kid[n].L # Nil /\ t.kid[n].R # Nil
Successor(t, n) == GetMin(t, t.kid[n].R)

\* Fault: a black leaf is removed without balancing.
UnlinkUnbalanced(t, n) ==
  LET p == t.up[n]
      child == IF t.kid[n].L # Nil THEN t.kid[n].L ELSE t.kid[n].R
      t1 == Relink(t, p, n, child)
  IN  IF child # Nil THEN [t1 EXCEPT !.up[child] = p, !.red[child] = FALSE] ELSE t1

\* rbtree_remove of a node with at most one child.
Unlink(t, n) ==
  LET p == t.up[n]
      child == IF t.kid[n].L # Nil THEN t.kid[n].L ELSE t.kid[n].R
      sib == Sibling(t, n)
      t1 == Relink(t, p, n, child)
  IN  CASE child # Nil -> [t1 EXCEPT !.up[child] = p, !.red[child] = FALSE]
        [] child = Nil /\ t.red[n] -> t1
        [] OTHER -> RemovalBalancing(t1, sib)

\* m takes the place of n, whose parent is taken to be p.
Substitute(t, n, m, p) ==
  LET t1 == IF p = Nil THEN t ELSE [t EXCEPT !.kid[p][Side(t, p, n)] = m]
      t2 == [t1 EXCEPT !.up[m] = p, !.kid[m] = t1.kid[n], !.red[m] = t1.red[n],
                       !.root = IF @ = n THEN m ELSE @]
  IN  SetUp(SetUp(t2, t2.kid[m].L, m), t2.kid[m].R, m)

\* rbtree_remove.  A node with two children is replaced by its successor, after
\* the successor is removed; the parent was read before that.
RbRemove(t, n) ==
  IF TwoChildren(t, n)
    THEN Substitute(Unlink(t, Successor(t, n)), n, Successor(t, n), t.up[n])
    ELSE Unlink(t, n)

\* Removing the successor of n leaves n where it was, so that the parent read
\* before is still the parent.
ParentKept(t, n) == TwoChildren(t, n) => Unlink(t, Successor(t, n)).up[n] = t.up[n]

-----------------------------------------------------------------------------
\* rbtree_init
Init ==
  /\ tree = [root |-> Nil, up |-> [n \in Node |-> Nil],
             kid |-> [n \in Node |-> Blank], red |-> [n \in Node |-> FALSE]]
  /\ keys = {}

InsertNode(n) ==
  /\ tree' = RbInsert(tree, n)
  /\ keys' = keys \cup {n}

RemoveNode(n) ==
  /\ n \in keys
  /\ tree' = [RbRemove(tree, n) EXCEPT !.up[n] = Nil, !.kid[n] = Blank, !.red[n] = FALSE]
  /\ keys' = keys \ {n}

Next == \E n \in Node : InsertNode(n) \/ RemoveNode(n)

Spec == Init /\ [][Next]_vars

\* The behaviours in which the parent read early is still right when used.
NextKept == \E n \in Node : InsertNode(n) \/ (RemoveNode(n) /\ ParentKept(tree, n))

SpecKept == Init /\ [][NextKept]_vars

-----------------------------------------------------------------------------
(* Properties *)

\* The nodes from n on in the order of rbtree_next, at most k of them.
RECURSIVE Walk(_, _, _)
Walk(t, n, k) == IF n = Nil \/ k = 0 THEN <<>> ELSE <<n>> \o Walk(t, NextNode(t, n), k - 1)

\* Black nodes on the paths below n; -1 if the paths differ or two reds meet.
RECURSIVE BlackHeight(_, _)
BlackHeight(t, n) ==
  IF n = Nil THEN 0
  ELSE LET l == BlackHeight(t, t.kid[n].L)
           r == BlackHeight(t, t.kid[n].R)
           redPair == t.red[n] /\ \E s \in {"L", "R"} : IsRed(t, t.kid[n][s])
       IN  IF l = -1 \/ l # r \/ redPair THEN -1 ELSE IF t.red[n] THEN l ELSE l + 1

\* Every variable has its type.
TypeOK ==
  /\ tree \in [root : Node \cup {Nil}, up : [Node -> Node \cup {Nil}],
               kid : [Node -> [L : Node \cup {Nil}, R : Node \cup {Nil}]],
               red : [Node -> BOOLEAN]]
  /\ keys \subseteq Node

\* Iterating with rbtree_first and rbtree_next visits exactly the nodes that
\* were inserted and not removed, in ascending order, after any sequence of
\* insertions and removals.
InOrder ==
  LET w == Walk(tree, First(tree), K + 1)
  IN  ToSet(w) = keys /\ \A i \in 2..Len(w) : w[i - 1] < w[i]

\* The root is black, no red node has a red child, and every path from the
\* root has as many black nodes: no search takes longer than logarithmic time.
Balanced == TypeOK /\ ~IsRed(tree, tree.root) /\ BlackHeight(tree, tree.root) # -1

\* rbtree_find answers with the nearest keys on both sides, and with the node
\* to hang a new key on exactly when the key is absent.
FindOK ==
  \A key \in 0..K + 1 :
    LET r == Find(tree, key)
        below == {k \in keys : k <= key}
        above == {k \in keys : k >= key}
    IN  /\ IF below = {} THEN r.lower = Nil ELSE r.lower = Max(below)
        /\ IF above = {} THEN r.upper = Nil ELSE r.upper = Min(above)
        /\ r.to_insert # Nil <=> keys # {} /\ key \notin keys

\* A node that was removed is not found any more, also when it had two children.
Gone == \A k \in Node \ keys : Find(tree, k).lower # k
=============================================================================
