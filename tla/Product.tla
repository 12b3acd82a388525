------------------------------- MODULE Product -------------------------------
(***************************************************************************)
(* The product of a model and automata that SymbolicProductAutomaton stands *)
(* for: the graphs it is made of, the numbering of its nodes, and the      *)
(* enumeration behind its edges.  Node numbers start with 0, as in the     *)
(* code; sequences, and so the indices into them, start with 1.            *)
(*                                                                         *)
(* A graph is its size() and its connections in the order they were made;  *)
(* the edge of an automaton's connection is the observation it asks for.   *)
(***************************************************************************)
EXTENDS Integers, FiniteSets, SequencesExt

CONSTANT Products  \* the products that may be constructed

Node(g) == 0 .. g.size - 1

\* The elements of s that are in S, in their order.
Among(s, S) == FoldLeft(LAMBDA kept, x : IF x \in S THEN Append(kept, x) ELSE kept, <<>>, s)

\* children(n) with outgoingEdges(n), and parents(n) with incomingEdges(n):
\* parallel vectors, in the order the connections were made.
outgoing(g, n) == Among(g.connections, {c \in Range(g.connections) : c.src = n})
incoming(g, n) == Among(g.connections, {c \in Range(g.connections) : c.dst = n})

\* The nodes of N from the least on.
Ascending(g, N) == Among([k \in 1 .. g.size |-> k - 1], N)

\* nodes() lists the nodes with a connection.
nodes(g) == Ascending(g, {n \in Node(g) : outgoing(g, n) # <<>> \/ incoming(g, n) # <<>>})

\* m_model->observe(sp, observation)
observe(p, sp, observation) == <<sp, observation>> \in p.observe

graphs(p) == <<p.model>> \o p.automata

-----------------------------------------------------------------------------
\* AugmentedNodeIndex: a product node is a number in the mixed radix of the
\* graphs' sizes, the model its least significant digit.
Times(s) == FoldLeft(LAMBDA x, y : x * y, 1, s)
Plus(s) == FoldLeft(LAMBDA x, y : x + y, 0, s)

\* temp: the product of the sizes before the k-th.
temp(sizes, k) == Times(SubSeq(sizes, 1, k - 1))

m_graph_sizes(p) == [k \in DOMAIN graphs(p) |-> graphs(p)[k].size]

wrap(p, inds) ==
    Plus([k \in DOMAIN graphs(p) |-> temp(m_graph_sizes(p), k) * inds[k]])

\* Digits are taken from the most significant one down: temp_mod is what the
\* digits above have left.
unwrap(p, node) ==
    LET sizes == m_graph_sizes(p)
        temp_mod(k) == IF k = Len(sizes) THEN node ELSE node % temp(sizes, k + 1)
    IN  [k \in DOMAIN sizes |->
            (temp_mod(k) - (node % temp(sizes, k))) \div temp(sizes, k)]

WideNode(p) == 0 .. Times(m_graph_sizes(p)) - 1

\* The product has at least one automaton, and every automaton an initial and
\* an accepting state: permutations() reads past its array otherwise.
IsProduct(p) ==
    /\ {"model", "automata", "observe"} \subseteq DOMAIN p
    /\ p.automata \in Seq(Range(p.automata))
    /\ \A k \in DOMAIN graphs(p) :
          LET g == graphs(p)[k]
          IN  /\ g.size \in Nat \ {0}
              /\ g.connections \in Seq(Range(g.connections))
              /\ \A j \in DOMAIN g.connections : {g.connections[j].src, g.connections[j].dst} \subseteq Node(g)
    /\ Times(m_graph_sizes(p)) \in Nat \ {0}  \* and fits a WideNode
    /\ p.automata # <<>>
    /\ \A a \in DOMAIN p.automata :
          /\ p.automata[a].init # <<>> /\ p.automata[a].init \in Seq(Range(p.automata[a].init))
          /\ Range(p.automata[a].init) \subseteq Node(p.automata[a])
          /\ p.automata[a].accepting # {} /\ p.automata[a].accepting \subseteq Node(p.automata[a])

ASSUME ProductAssumption == \A p \in Products : IsProduct(p)

\* permutations() counts through all choices of one option each, the first
\* index fastest.
permutations(n_options) ==
    [x \in 1 .. Times(n_options) |->
        [k \in DOMAIN n_options |-> 1 + (((x - 1) \div temp(n_options, k)) % n_options[k])]]

\* The choices of one member of each sequence of options.
Picks(options) ==
    LET perms == permutations([k \in DOMAIN options |-> Len(options[k])])
    IN  [x \in DOMAIN perms |-> [k \in DOMAIN options |-> options[k][perms[x][k]]]]

-----------------------------------------------------------------------------
Mapped(s, F(_)) == [k \in DOMAIN s |-> F(s[k])]

\* The automaton connections cs a step into model node sp may take: indices.
OptionsInto(p, sp, cs) ==
    Among([k \in DOMAIN cs |-> k], {k \in DOMAIN cs : observe(p, sp, cs[k].edge)})

\* post(): per child of the model node that every automaton can follow, its
\* index and the automata's options.
post(p, node) ==
    LET u == unwrap(p, node)
        model_children == outgoing(p.model, u[1])
        automaton_children == [a \in DOMAIN p.automata |-> outgoing(p.automata[a], u[a + 1])]
        perm(k) == [ts_ind_option |-> k,
                    automaton_set_ind_options |->
                      [a \in DOMAIN p.automata |->
                         OptionsInto(p, model_children[k].dst, automaton_children[a])]]
        perms == [k \in DOMAIN model_children |-> perm(k)]
    IN  Among(perms, {q \in Range(perms) : <<>> \notin Range(q.automaton_set_ind_options)})

Uninitialized == 0  \* no index: the field is never written

\* Slip seen by AssertionHolds: one permutation per parent of the model's node.
PrePerParent(p, node) ==
    LET u == unwrap(p, node)
    IN  Mapped(incoming(p.model, u[1]), LAMBDA c :
          [ts_ind_option |-> Uninitialized,
           automaton_set_ind_options |->
             [a \in DOMAIN p.automata |-> OptionsInto(p, u[1], incoming(p.automata[a], u[a + 1]))]])

\* pre(): the automata's options do not depend on the model's parent, so there
\* is one permutation or none, and its ts_ind_option is left as it was.
pre(p, node) ==
    LET u == unwrap(p, node)
        options == [a \in DOMAIN p.automata |->
                      OptionsInto(p, u[1], incoming(p.automata[a], u[a + 1]))]
    IN  IF <<>> \in Range(options) THEN <<>>
        ELSE <<[ts_ind_option |-> Uninitialized, automaton_set_ind_options |-> options]>>

\* EDGE_INHERITOR::inherit: CombinedProductEdgeInheritor, which keeps most.
inherit(model_edge, automaton_edges) ==
    [model_edge |-> model_edge, automaton_edge |-> automaton_edges]

\* What children() and outgoingEdges() make of the permutations in array,
\* and parents() and incomingEdges(): a product connection is a connection of
\* the model with one of each automaton.
Combine(model_connection, choices, automaton_connections) ==
    [x \in DOMAIN choices |->
        [model    |-> model_connection,
         automata |-> [a \in DOMAIN automaton_connections |->
                         automaton_connections[a][choices[x][a]]]]]

Outward(p, node, array) ==
    LET u == unwrap(p, node)
        model_children == outgoing(p.model, u[1])
        automaton_children == [a \in DOMAIN p.automata |-> outgoing(p.automata[a], u[a + 1])]
    IN  FlattenSeq([q \in DOMAIN array |->
            Combine(model_children[array[q].ts_ind_option],
                    Picks(array[q].automaton_set_ind_options), automaton_children)])

Inward(p, node, array) ==
    LET u == unwrap(p, node)
        model_parents == incoming(p.model, u[1])
        automaton_parents == [a \in DOMAIN p.automata |-> incoming(p.automata[a], u[a + 1])]
    IN  IF array = <<>> THEN <<>>
        ELSE FlattenSeq([k \in DOMAIN model_parents |->
               Combine(model_parents[k], Picks(array[1].automaton_set_ind_options),
                       automaton_parents)])

Source(p, c) == wrap(p, <<c.model.src>> \o [a \in DOMAIN c.automata |-> c.automata[a].src])
Destination(p, c) == wrap(p, <<c.model.dst>> \o [a \in DOMAIN c.automata |-> c.automata[a].dst])
Inherited(c) == inherit(c.model.edge, [a \in DOMAIN c.automata |-> c.automata[a].edge])

\* Slip seen by AnswersExact: edges are listed in the opposite order.
OutgoingEdgesBackwards(p, node, array) == Reverse(Mapped(Outward(p, node, array), Inherited))

children(p, node, array) == Mapped(Outward(p, node, array), LAMBDA c : Destination(p, c))
outgoingEdges(p, node, array) == Mapped(Outward(p, node, array), Inherited)
parents(p, node, array) == Mapped(Inward(p, node, array), LAMBDA c : Source(p, c))
incomingEdges(p, node, array) == Mapped(Inward(p, node, array), Inherited)

-----------------------------------------------------------------------------
getInitNodes(p, init_model_node) ==
    Mapped(Picks(Mapped(p.automata, LAMBDA a : a.init)),
           LAMBDA choice : wrap(p, <<init_model_node>> \o choice))

getAcceptingNodes(p) ==
    LET accepting == Mapped(p.automata, LAMBDA a : Ascending(a, a.accepting))
    IN  Range(Mapped(Picks(<<nodes(p.model)>> \o accepting), LAMBDA choice : wrap(p, choice)))

acc(p, node, a) == unwrap(p, node)[a + 1] \in p.automata[a].accepting

\* ProductAutomatonProjection::project onto the product of the automata with
\* the indices in onto: each is looked up by its identity, not its position.
Onto(p, onto) == [p EXCEPT !.automata = [a \in DOMAIN onto |-> p.automata[onto[a]]]]

\* Slip seen by NumberingAgrees: automata are matched by their position.
ProjectByPosition(p, onto, node) ==
    wrap(Onto(p, onto), SubSeq(unwrap(p, node), 1, Len(onto) + 1))

project(p, onto, node) ==
    wrap(Onto(p, onto), <<unwrap(p, node)[1]>> \o
                        [a \in DOMAIN onto |-> unwrap(p, node)[onto[a] + 1]])
=============================================================================
