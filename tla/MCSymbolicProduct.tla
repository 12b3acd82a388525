-------------------------- MODULE MCSymbolicProduct --------------------------
(***************************************************************************)
(* SymbolicProduct on products of a model with two nodes and two or three  *)
(* automata with three and two, so that the digits of a product node have  *)
(* weights of their own; parallel edges, loops, nodes that block, automata *)
(* that are not deterministic, and several initial states.                 *)
(***************************************************************************)
EXTENDS SymbolicProduct

c(src, edge, dst) == [src |-> src, dst |-> dst, edge |-> edge]

Option(x) == {<<>>, <<x>>}

Models ==
    {[size |-> 2, connections |-> <<c(0, "go", 1)>> \o x \o <<c(1, "back", 0), c(1, "stay", 1)>>] :
        x \in Option(c(0, "run", 1))}

\* First reach p, then q.
Sequenced ==
    {[size |-> 3, init |-> <<0>>, accepting |-> {2},
      connections |-> <<c(0, "~p", 0), c(0, "p", 1), c(1, "q", 2)>> \o x] :
        x \in Option(c(2, "any", 2))}

\* Avoid q: in one state, or with a choice.
Avoiding ==
    {[size |-> 2, init |-> <<0>>, accepting |-> {0, 1}, connections |-> <<c(0, "~q", 0)>>],
     [size |-> 2, init |-> <<0, 1>>, accepting |-> {0},
      connections |-> <<c(0, "~q", 0), c(0, "any", 1)>>]}

\* What is observed where p holds at the nodes of P and q at those of Q.
Observed(P, Q) ==
    (P \X {"p"}) \cup (Q \X {"q"}) \cup (({0, 1} \ P) \X {"~p"}) \cup (({0, 1} \ Q) \X {"~q"})
      \cup ({0, 1} \X {"any"})

MCProducts ==
    [model : Models, automata : {<<a, b>> : a \in Sequenced, b \in Avoiding},
     observe : {Observed({1}, {0}), Observed({0, 1}, {1})}]
    \cup
    {[model |-> m, automata |-> <<b, a, b>>, observe |-> Observed({0}, {1})] :
        m \in Models, a \in {x \in Sequenced : Len(x.connections) = 4},
        b \in {x \in Avoiding : Len(x.connections) = 2}}

\* Products of one automaton, for clients that go both ways.
FewProducts ==
    {[model |-> m, automata |-> <<b>>, observe |-> Observed({1}, {0})] :
        m \in Models, b \in Avoiding}

Forward == {"children", "outgoingEdges"}
Backward == {"parents", "incomingEdges"}

OneWay == {Forward, Backward}
BothWays == {Forward \cup Backward}
=============================================================================
