--------------------------- MODULE SymbolicProduct ---------------------------
(***************************************************************************)
(* SymbolicProductAutomaton: the product is not stored; what post() or     *)
(* pre() find out about a node is, in a small cache the operations share.  *)
(*                                                                         *)
(* A search asks a product for neighbors of one kind: uses is the set of   *)
(* operations the product's clients call.  The nodes they ask about, and   *)
(* the order, are theirs.                                                  *)
(***************************************************************************)
EXTENDS Product

CONSTANTS
    CacheSizes,  \* the values of cache_size a product is constructed with
    Uses         \* the sets of operations its clients may call

ASSUME CacheSizesAssumption == CacheSizes \subseteq Nat \ {0}

VARIABLES
    product,   \* the model and the automata
    max_size,  \* m_cache.m_max_size
    uses,      \* the operations that are called
    m_cache,   \* m_cache.m_cache: from keys to permutation arrays
    status,    \* "running", "assertion failed" or "undefined"
    last       \* the operation called last, the node, and the answer

vars == <<product, max_size, uses, m_cache, status, last>>

Init ==
    /\ product \in Products
    /\ max_size \in CacheSizes
    /\ uses \in Uses
    /\ m_cache = [k \in {} |-> k]
    /\ status = "running"
    /\ last = [op |-> "none", node |-> 0, answer |-> <<>>]

-----------------------------------------------------------------------------
\* Slip seen by ImplementsProductGraph: the key is the model's node.
KeyOfModelNode(node) == unwrap(product, node)[1]

\* CacheElementKey's operator< compares nodes alone: the key's type, Forward
\* or Backward, makes no difference.
key(node) == node

has(node) == key(node) \in DOMAIN m_cache

Extend(m, k, v) == [x \in DOMAIN m \cup {k} |-> IF x = k THEN v ELSE m[x]]

\* Slip seen by TypeOK: the cache is never at its size.
MakeWithoutErasing(node, array) == Extend(m_cache, key(node), array)

\* make() erases the first element, the one with the least key, when the cache
\* is at its size; the new one is filled with array.
make(node, array) ==
    LET least == CHOOSE k \in DOMAIN m_cache : \A o \in DOMAIN m_cache : k <= o
        kept  == IF Cardinality(DOMAIN m_cache) >= max_size
                   THEN Restrict(m_cache, DOMAIN m_cache \ {least})
                   ELSE m_cache
    IN  Extend(kept, key(node), array)

\* The permutation array an operation works on, when post() or pre() would
\* find out made.
Retrieved(node, made) == IF has(node) THEN m_cache[key(node)] ELSE made

\* Every index into the automata's vectors is within them.
OptionsFit(node, q, follow(_, _)) ==
    \A a \in DOMAIN product.automata :
        Range(q.automaton_set_ind_options[a])
          \subseteq DOMAIN follow(product.automata[a], unwrap(product, node)[a + 1])

OutwardStatus(node, array) ==
    LET model_children == outgoing(product.model, unwrap(product, node)[1])
    IN  IF \A k \in DOMAIN array :
              /\ array[k].ts_ind_option \in DOMAIN model_children
              /\ OptionsFit(node, array[k], outgoing)
          THEN "running" ELSE "undefined"

InwardStatus(node, array) ==
    IF Len(array) > 1 THEN "assertion failed"
    ELSE IF \A k \in DOMAIN array : OptionsFit(node, array[k], incoming)
      THEN "running" ELSE "undefined"

\* The operation op is asked about node: it looks in the cache or makes an
\* element there, and answers unless that ends the program.
Serve(op, node, made, Status(_, _), answer(_, _, _)) ==
    LET array == Retrieved(node, made)
    IN  /\ status = "running"
        /\ op \in uses
        /\ m_cache' = IF has(node) THEN m_cache ELSE make(node, made)
        /\ status' = Status(node, array)
        /\ last' = IF Status(node, array) # "running" THEN last
                   ELSE [op |-> op, node |-> node, answer |-> answer(product, node, array)]
        /\ UNCHANGED <<product, max_size, uses>>

Children(node) == Serve("children", node, post(product, node), OutwardStatus, children)

OutgoingEdges(node) ==
    Serve("outgoingEdges", node, post(product, node), OutwardStatus, outgoingEdges)

Parents(node) == Serve("parents", node, pre(product, node), InwardStatus, parents)

IncomingEdges(node) ==
    Serve("incomingEdges", node, pre(product, node), InwardStatus, incomingEdges)

Next ==
    \E node \in WideNode(product) :
        \/ Children(node)
        \/ OutgoingEdges(node)
        \/ Parents(node)
        \/ IncomingEdges(node)

Spec == Init /\ [][Next]_vars

-----------------------------------------------------------------------------
\* Every variable has its type, and the cache never outgrows its size.
TypeOK ==
    /\ product \in Products
    /\ max_size \in CacheSizes
    /\ uses \in Uses
    /\ DOMAIN m_cache \subseteq WideNode(product)
    /\ Cardinality(DOMAIN m_cache) <= max_size
    /\ status \in {"running", "assertion failed", "undefined"}
    /\ last.op \in uses \cup {"none"}
    /\ last.op # "none" => last.node \in WideNode(product)

\* The product's definition, without its numbers or its enumeration: a model
\* connection together with a connection of every automaton whose observation
\* the model makes at the connection's end.
Transitions ==
    {t \in [model    : DOMAIN product.model.connections,
            automata : {f \in [DOMAIN product.automata ->
                                 UNION {DOMAIN product.automata[a].connections :
                                          a \in DOMAIN product.automata}] :
                          \A a \in DOMAIN f : f[a] \in DOMAIN product.automata[a].connections}] :
       \A a \in DOMAIN t.automata :
          observe(product, product.model.connections[t.model].dst,
                  product.automata[a].connections[t.automata[a]].edge)}

Connection(t) ==
    [model    |-> product.model.connections[t.model],
     automata |-> [a \in DOMAIN t.automata |-> product.automata[a].connections[t.automata[a]]]]

Leaving(node) == {t \in Transitions : Source(product, Connection(t)) = node}
Entering(node) == {t \in Transitions : Destination(product, Connection(t)) = node}

\* The sequence s holds F(t) once for every t of T.
Lists(s, T, F(_)) ==
    /\ Len(s) = Cardinality(T)
    /\ \A t \in T : Cardinality({k \in DOMAIN s : s[k] = F(t)})
                      = Cardinality({u \in T : F(u) = F(t)})

\* The answers without a cache.
AnswerOf(p, op, node) ==
    CASE op = "children"      -> children(p, node, post(p, node))
      [] op = "outgoingEdges" -> outgoingEdges(p, node, post(p, node))
      [] op = "parents"       -> parents(p, node, pre(p, node))
      [] op = "incomingEdges" -> incomingEdges(p, node, pre(p, node))

\* The k-th of the neighbors belongs to the k-th of the edges: a transition of T
\* has both.
Parallel(neighbors, edges, T, End(_, _)) ==
    /\ Len(neighbors) = Len(edges)
    /\ \A k \in DOMAIN neighbors : \E t \in T :
          /\ End(product, Connection(t)) = neighbors[k]
          /\ Inherited(Connection(t)) = edges[k]

\* children() and outgoingEdges() answer with the transitions that leave the
\* node, each once, and parents() and incomingEdges() with those that enter it,
\* whatever was asked before and whatever the cache holds or has erased.  A
\* search walks neighbors and edges side by side: the two are parallel.
AnswersExact ==
    CASE last.op = "children" ->
           /\ Lists(last.answer, Leaving(last.node), LAMBDA t : Destination(product, Connection(t)))
           /\ Parallel(last.answer, AnswerOf(product, "outgoingEdges", last.node), Leaving(last.node), Destination)
      [] last.op = "outgoingEdges" ->
           Lists(last.answer, Leaving(last.node), LAMBDA t : Inherited(Connection(t)))
      [] last.op = "parents" ->
           /\ Lists(last.answer, Entering(last.node), LAMBDA t : Source(product, Connection(t)))
           /\ Parallel(last.answer, AnswerOf(product, "incomingEdges", last.node), Entering(last.node), Source)
      [] last.op = "incomingEdges" ->
           Lists(last.answer, Entering(last.node), LAMBDA t : Inherited(Connection(t)))
      [] OTHER -> last.answer = <<>>

\* The ways to list fewer automata than the product has.
Ontos == {f \in UNION {[1 .. k -> DOMAIN product.automata] : k \in 1 .. Len(product.automata) - 1} :
            \A x, y \in DOMAIN f : f[x] = f[y] => x = y}

\* Projecting is walking along: the projections of a node and of its children,
\* or parents, are neighbors in the product that is projected onto.
ProjectionFollows ==
    last.op \in {"children", "parents"} =>
      \A onto \in Ontos :
        LET p == Onto(product, onto)
            node == project(product, onto, last.node)
            there == IF last.op = "children" THEN children(p, node, post(p, node))
                                             ELSE parents(p, node, pre(p, node))
        IN  \A k \in DOMAIN last.answer : project(product, onto, last.answer[k]) \in Range(there)

\* getAcceptingNodes() enumerates what acc() accepts: the nodes a backward
\* search starts from are those a forward search may stop at.
AcceptanceAgrees ==
    getAcceptingNodes(product) =
      {node \in WideNode(product) :
         /\ unwrap(product, node)[1] \in Range(nodes(product.model))
         /\ \A a \in DOMAIN product.automata : acc(product, node, a)}

\* getInitNodes() enumerates the initial states of the automata, with any state
\* of the model.
InitNodesAgree ==
    \A sp \in Node(product.model) :
      Range(getInitNodes(product, sp)) =
        {node \in WideNode(product) :
           /\ unwrap(product, node)[1] = sp
           /\ \A a \in DOMAIN product.automata : unwrap(product, node)[a + 1] \in Range(product.automata[a].init)}

\* The number of a product node is put together and taken apart in many places -
\* neighbors, projections, acceptance, the enumerations of the initial and of
\* the accepting nodes - and means the same in each (Graph.h:43,
\* ProductProjection.h:25, SymbolicProductAutomaton_impl.hpp:54).
NumberingAgrees == ProjectionFollows /\ InitNodesAgree /\ AcceptanceAgrees

\* The ASSERT of parents() and incomingEdges(): "Cache element for pre contains
\* does not contain one AugmentedNodePermutation".
AssertionHolds == status # "assertion failed"

\* The cache cannot be told from a product that is built.
Uncached == INSTANCE ProductGraph
    WITH Operations <- {"children", "outgoingEdges", "parents", "incomingEdges"},
         NodesOf <- WideNode, Answer <- AnswerOf

\* As long as it is used in one direction, the product keeps the promise of
\* ProductGraph.
ImplementsProductGraph == Uncached!Spec
=============================================================================
