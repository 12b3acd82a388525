----------------------------- MODULE ProductGraph -----------------------------
(***************************************************************************)
(* What a symbolic product promises the searches that walk it: a graph     *)
(* that is always the same.  A question about a node has one answer,       *)
(* whatever was asked before.                                              *)
(***************************************************************************)
CONSTANTS
    Products,        \* the products that may be constructed
    Operations,      \* the operations of the graph
    NodesOf(_),      \* the nodes of a product
    Answer(_, _, _)  \* the answer to an operation on a node of a product

VARIABLES
    product,  \* the product
    last      \* the last question, and its answer

Init ==
    /\ product \in Products
    /\ last = [op |-> "none", node |-> 0, answer |-> <<>>]

Ask(op, node) ==
    /\ last' = [op |-> op, node |-> node, answer |-> last'.answer]
    /\ last'.answer = Answer(product, op, node)
    /\ UNCHANGED product

Next == \E op \in Operations, node \in NodesOf(product) : Ask(op, node)

Spec == Init /\ [][Next]_<<product, last>>
=============================================================================
