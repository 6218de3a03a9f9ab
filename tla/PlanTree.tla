------------------------------ MODULE PlanTree ------------------------------
(***************************************************************************)
(* A parsed plan and the traversals of it (core/src/analysis/traversal.rs).*)
(* A plan is a function from node paths to nodes: a path is the sequence   *)
(* of child indexes, from 0, that leads from the root to the node.         *)
(***************************************************************************)
EXTENDS Integers, Sequences, SequencesExt, FiniteSetsExt, Functions

root == <<>>
child_of(path, index) == Append(path, index)

child_count(plan, p) == Cardinality({q \in DOMAIN plan : q # root /\ Front(q) = p})

(* The children of a node, in order.                                       *)
children(plan, p) == [i \in 1 .. child_count(plan, p) |-> child_of(p, i - 1)]

IsPlan(plan) ==
  /\ root \in DOMAIN plan
  /\ \A p \in DOMAIN plan : p # root =>
       /\ Front(p) \in DOMAIN plan
       /\ Last(p) \in 0 .. child_count(plan, Front(p)) - 1

Frame(kind, p) == [kind |-> kind, path |-> p]

(* What depth_first pushes for a node; the top of the stack is the end.    *)
frames(p) == <<Frame("Exit", p), Frame("Visit", p), Frame("Enter", p)>>

(* The children's frames, the last child's first: they are popped in order.*)
push_children(stack, plan, p) ==
  stack \o FlattenSeq(Reverse([i \in 1 .. child_count(plan, p) |->
                                 frames(children(plan, p)[i])]))

-----------------------------------------------------------------------------
(* Relationships between nodes (NodeRelationshipAnalyzer).                 *)

get_node_at_path(plan, p) ==
  IF \A i \in 1 .. Len(p) : p[i] < child_count(plan, SubSeq(p, 1, i - 1))
  THEN {p} ELSE {}

get_parent(plan, p) == IF p = root THEN {} ELSE get_node_at_path(plan, Front(p))

get_siblings(plan, p) ==
  UNION {{q \in ToSet(children(plan, q0)) : Last(q) # Last(p)} : q0 \in get_parent(plan, p)}

is_ancestor(p, q) == Len(p) < Len(q) /\ SubSeq(q, 1, Len(p)) = p

(* The paths of the ancestors that exist, from the parent up.              *)
get_ancestors(plan, p) ==
  SelectSeq([i \in 1 .. Len(p) |-> SubSeq(p, 1, Len(p) - i)],
            LAMBDA q : get_node_at_path(plan, q) # {})

-----------------------------------------------------------------------------
(* The other traversals: a loop that takes a node from a stack or a queue  *)
(* and adds its children, run once for every node of the plan.             *)

Passes(plan) == [i \in 1 .. Cardinality(DOMAIN plan) |-> i]

Popped(plan, s) == [todo |-> Front(s.todo) \o Reverse(children(plan, Last(s.todo))),
                    out  |-> s.out]

(* find_nodes and collect: the nodes that satisfy the predicate, children  *)
(* pushed in reverse.                                                      *)
find_nodes(plan, P(_)) ==
  FoldLeft(LAMBDA s, i :
             [Popped(plan, s) EXCEPT !.out = IF P(Last(s.todo)) THEN Append(@, Last(s.todo))
                                             ELSE @],
           [todo |-> <<root>>, out |-> <<>>], Passes(plan)).out

get_leaf_nodes(plan) == find_nodes(plan, LAMBDA p : child_count(plan, p) = 0)

(* Children below the wanted depth are never pushed.                       *)
get_nodes_at_depth(plan, depth) ==
  FoldLeft(LAMBDA s, i :
             IF s.todo = <<>> THEN s
             ELSE IF Len(Last(s.todo)) = depth
             THEN [todo |-> Front(s.todo), out |-> Append(s.out, Last(s.todo))]
             ELSE Popped(plan, s),
           [todo |-> <<root>>, out |-> <<>>], Passes(plan)).out

(* The children are pushed in order here, so siblings come last first.     *)
get_parent_child_pairs(plan) ==
  FoldLeft(LAMBDA s, i :
             LET p == Last(s.todo)
             IN [todo |-> Front(s.todo) \o children(plan, p),
                 out  |-> s.out \o [k \in 1 .. child_count(plan, p) |->
                                       <<p, children(plan, p)[k]>>]],
           [todo |-> <<root>>, out |-> <<>>], Passes(plan)).out

breadth_first(plan) ==
  FoldLeft(LAMBDA s, i :
             [todo |-> Tail(s.todo) \o children(plan, Head(s.todo)),
              out  |-> Append(s.out, Head(s.todo))],
           [todo |-> <<root>>, out |-> <<>>], Passes(plan)).out

(* get_descendants recurses: each child, then the descendants of it.       *)
get_descendants(plan, p) == SelectSeq(find_nodes(plan, LAMBDA q : TRUE),
                                      LAMBDA q : is_ancestor(p, q))

-----------------------------------------------------------------------------
(* References for the orders of the traversals.                            *)

PreOrderBefore(p, q) ==
  \/ is_ancestor(p, q)
  \/ \E i \in 1 .. Len(p) :
       /\ i <= Len(q) /\ p[i] < q[i]
       /\ \A j \in 1 .. i - 1 : p[j] = q[j]

PostOrderBefore(p, q) ==
  \/ is_ancestor(q, p)
  \/ ~is_ancestor(p, q) /\ PreOrderBefore(p, q)

LevelOrderBefore(p, q) ==
  \/ Len(p) < Len(q)
  \/ Len(p) = Len(q) /\ PreOrderBefore(p, q)

InOrder(S, Before(_, _)) ==
  [i \in 1 .. Cardinality(S) |->
     CHOOSE p \in S : Cardinality({q \in S : Before(q, p)}) = i - 1]
=============================================================================
