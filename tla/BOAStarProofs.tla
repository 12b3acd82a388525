---------------------------- MODULE BOAStarProofs ----------------------------
(***************************************************************************)
(* The enumeration of walks that BOAStar keeps and the solutions it reads  *)
(* back from it, proved for every problem, heuristic and container.  Where *)
(* gScore adds, the costs it gives its paths; where the heuristic is       *)
(* consistent too, that it reports the Pareto front.                       *)
(***************************************************************************)
EXTENDS BOAStar, MOSearchProofs

\* The numbers given out so far, and how many walks there are besides the
\* initial nodes.
Known == DOMAIN m_init_nodes \cup DOMAIN m_map
Walks == Cardinality(DOMAIN m_map)

\* Numbers are given out without a gap: the next one is always new.
Numbered ==
    /\ problem \in Problems
    /\ m_init_nodes \in Seq(problem.initialNodes)
    /\ IsFiniteSet(DOMAIN m_map)
    /\ DOMAIN m_map = Len(m_init_nodes) + 1 .. Len(m_init_nodes) + Walks

\* Every walk extends one that was numbered earlier, by an edge of the graph.
WalksExtend ==
    \A id \in DOMAIN m_map :
        /\ m_map[id].node \in Nodes
        /\ m_map[id].parent \in Known
        /\ m_map[id].parent < id
        /\ m_map[id].parent_edge \in Range(neighborEdges(problem, getNode(m_map[id].parent)))
        /\ m_map[id].parent_edge.to = m_map[id].node

\* What is open, and what is being expanded, is a numbered walk.
ElementsKnown ==
    /\ \A e \in open_set : e.node \in Known /\ e.g_score \in CostVector
    /\ pc = "neighbors" => curr.node \in Known
    /\ pc \in {"neighbors", "extract"} => curr.g_score \in CostVector

\* Two sequences that spell a walk of the graph from a node to a goal.
IsWalkToGoal(p, n, np, ep) ==
    /\ np \in Seq(Nodes)
    /\ ep \in Seq(Edge)
    /\ Len(np) = Len(ep) + 1
    /\ np[1] = n
    /\ goal(p, Last(np))
    /\ \A k \in DOMAIN ep :
          ep[k] \in Range(neighborEdges(p, np[k])) /\ ep[k].to = np[k + 1]

\* The path being extracted is a walk to a goal, from the node reached so far.
ExtractionIsWalk ==
    pc = "extract" =>
        /\ sol.at \in Known
        /\ IsWalkToGoal(problem, getNode(sol.at), sol.node_path, sol.edge_path)

\* The result's sequences belong together, and every solution is one.
ResultIsSolutions ==
    /\ result \in Result
    /\ Len(result.node_paths) = Len(result.pf)
    /\ Len(result.edge_paths) = Len(result.pf)
    /\ pc = "extract" => result.success
    /\ pc # "extract" => (result.success <=> result.pf # <<>>)
    /\ \A s \in 1 .. Len(result.pf) :
          IsSolution(problem, result.node_paths[s], result.edge_paths[s])

IInv == Numbered /\ WalksExtend /\ ElementsKnown /\ ExtractionIsWalk /\ ResultIsSolutions

-----------------------------------------------------------------------------
\* The next number is above all others.
LEMMA NextIsNew ==
    ASSUME Numbered
    PROVE  /\ Walks \in Nat
           /\ m_next_node = Len(m_init_nodes) + Walks + 1
           /\ Known = 1 .. Len(m_init_nodes) + Walks
<1>1. Walks \in Nat
  <2>1. IsFiniteSet(DOMAIN m_map)
    BY DEF Numbered
  <2>2. QED
    BY <2>1, FS_CardinalityType DEF Walks
<1>2. /\ Len(m_init_nodes) \in Nat
      /\ DOMAIN m_init_nodes = 1 .. Len(m_init_nodes)
  BY DEF Numbered
<1>3. Cardinality(DOMAIN m_init_nodes) = Len(m_init_nodes)
  <2>1. \A b \in Nat : Cardinality(1 .. b) = b
    <3> SUFFICES ASSUME NEW b \in Nat PROVE Cardinality(1 .. b) = b
      OBVIOUS
    <3>1. Cardinality(1 .. b) = IF 1 > b THEN 0 ELSE b - 1 + 1
      BY FS_Interval
    <3>2. QED
      BY <3>1
  <2>2. QED
    BY <1>2, <2>1
<1>4. m_next_node = Len(m_init_nodes) + Walks + 1
  BY <1>1, <1>2, <1>3 DEF m_next_node, Walks
<1>5. Known = 1 .. Len(m_init_nodes) + Walks
  BY <1>1, <1>2 DEF Known, Numbered
<1>6. QED
  BY <1>1, <1>4, <1>5

\* A numbered walk ends in a node of the graph.
LEMMA NodeTyped ==
    ASSUME Numbered, WalksExtend, NEW id \in Known
    PROVE  getNode(id) \in Nodes
<1>1. problem.initialNodes \subseteq Nodes
  BY MOProblemAssumption DEF Numbered, IsProblem
<1>2. CASE isInit(id)
  BY <1>1, <1>2 DEF Numbered, isInit, getNode
<1>3. CASE ~ isInit(id)
  BY <1>3 DEF WalksExtend, Known, isInit, getNode
<1>4. QED
  BY <1>2, <1>3

LEMMA InitIInv == Init => IInv
<1> SUFFICES ASSUME Init PROVE IInv
  OBVIOUS
<1> USE DEF Init
<1>1. m_init_nodes \in Seq(problem.initialNodes)
  BY InitialNodesNumbered
<1>2. DOMAIN m_map = {} /\ Walks = 0 /\ IsFiniteSet(DOMAIN m_map)
  BY FS_EmptySet DEF Walks
<1>3. Numbered
  BY <1>1, <1>2 DEF Numbered
<1>4. WalksExtend
  BY <1>2 DEF WalksExtend
<1>5. ElementsKnown
  BY ZeroTyped DEF ElementsKnown, Known
<1>6. ExtractionIsWalk
  BY DEF ExtractionIsWalk
<1>7. ResultIsSolutions
  BY DEF ResultIsSolutions, NoResult, Result
<1>8. QED
  BY <1>3, <1>4, <1>5, <1>6, <1>7 DEF IInv

\* A step that numbers no walk keeps all that the walks are.
LEMMA WalksStay ==
    ASSUME IInv, UNCHANGED <<problem, m_init_nodes, m_map>>
    PROVE  /\ Numbered' /\ WalksExtend'
           /\ Known' = Known
           /\ \A id \in Known : getNode(id)' = getNode(id)
BY DEF IInv, Numbered, WalksExtend, Known, Walks, getNode, isInit

\* A step that leaves the result alone and stays out of the extraction.
LEMMA ResultStays ==
    ASSUME IInv, UNCHANGED <<problem, result>>, pc # "extract", pc' # "extract"
    PROVE  ResultIsSolutions' /\ ExtractionIsWalk'
BY DEF IInv, ResultIsSolutions, ExtractionIsWalk

\* Steps that drop an open element or an edge, or leave the loop over them.
LEMMA SkippingIInv ==
    IInv /\ (SkipPruned \/ SkipNeighbor \/ EndNeighbors \/ UNCHANGED vars) => IInv'
<1> SUFFICES ASSUME IInv, SkipPruned \/ SkipNeighbor \/ EndNeighbors \/ UNCHANGED vars
             PROVE  IInv'
  OBVIOUS
<1>1. /\ UNCHANGED <<problem, m_init_nodes, m_map, curr, sol, result>>
      /\ open_set' \subseteq open_set
      /\ pc' = pc \/ (pc = "neighbors" /\ pc' = "loop")
  BY DEF SkipPruned, SkipNeighbor, EndNeighbors, vars
<1>2. /\ Numbered' /\ WalksExtend' /\ Known' = Known
      /\ \A id \in Known : getNode(id)' = getNode(id)
  BY <1>1, WalksStay
<1>3. ElementsKnown'
  BY <1>1, <1>2 DEF IInv, ElementsKnown
<1>4. ExtractionIsWalk'
  <2> SUFFICES ASSUME pc' = "extract"
               PROVE  /\ sol'.at \in Known'
                      /\ IsWalkToGoal(problem, getNode(sol.at), sol.node_path, sol.edge_path)'
    BY DEF ExtractionIsWalk
  <2>1. /\ pc = "extract"
        /\ sol.at \in Known
        /\ IsWalkToGoal(problem, getNode(sol.at), sol.node_path, sol.edge_path)
    BY <1>1 DEF IInv, ExtractionIsWalk
  <2>2. getNode(sol.at)' = getNode(sol.at)
    BY <1>1 DEF getNode, isInit
  <2>3. QED
    BY <1>1, <1>2, <2>1, <2>2 DEF IsWalkToGoal
<1>5. ResultIsSolutions'
  BY <1>1 DEF IInv, ResultIsSolutions
<1>6. QED
  BY <1>2, <1>3, <1>4, <1>5 DEF IInv

LEMMA ExpandIInv == IInv /\ Expand => IInv'
<1> SUFFICES ASSUME IInv, Expand PROVE IInv'
  OBVIOUS
<1>1. /\ UNCHANGED <<problem, m_init_nodes, m_map, result>>
      /\ pc # "extract" /\ pc' = "neighbors"
      /\ open_set' \subseteq open_set /\ curr' \in open_set
  BY DEF Expand
<1>2. Numbered' /\ WalksExtend' /\ Known' = Known
  BY <1>1, WalksStay
<1>3. ElementsKnown'
  BY <1>1, <1>2 DEF IInv, ElementsKnown
<1>4. ResultIsSolutions' /\ ExtractionIsWalk'
  BY <1>1, ResultStays
<1>5. QED
  BY <1>2, <1>3, <1>4 DEF IInv

\* A popped goal is a walk of its own, of one node.
LEMMA ReachGoalIInv == IInv /\ ReachGoal => IInv'
<1> SUFFICES ASSUME IInv, ReachGoal PROVE IInv'
  OBVIOUS
<1>1. PICK e \in open_set :
         /\ goal(problem, getNode(e.node))
         /\ open_set' = open_set \ {e}
         /\ curr' = e
         /\ sol' = [at |-> e.node, node_path |-> <<getNode(e.node)>>, edge_path |-> <<>>]
  BY DEF ReachGoal
<1>2. /\ UNCHANGED <<problem, m_init_nodes, m_map>>
      /\ pc = "loop" /\ pc' = "extract"
      /\ result' = [result EXCEPT !.success = TRUE]
  BY DEF ReachGoal
<1>3. /\ Numbered' /\ WalksExtend' /\ Known' = Known
      /\ \A id \in Known : getNode(id)' = getNode(id)
  BY <1>2, WalksStay
<1>4. ElementsKnown'
  BY <1>1, <1>2, <1>3 DEF IInv, ElementsKnown
<1>5. ExtractionIsWalk'
  <2>1. e.node \in Known /\ getNode(e.node) \in Nodes
    BY NodeTyped DEF IInv, ElementsKnown
  <2>2. IsWalkToGoal(problem, getNode(e.node), <<getNode(e.node)>>, <<>>)
    BY <1>1, <2>1 DEF IsWalkToGoal, Last
  <2>3. getNode(sol.at)' = getNode(e.node)
    BY <1>1, <1>2 DEF getNode, isInit
  <2>4. IsWalkToGoal(problem, getNode(sol.at), sol.node_path, sol.edge_path)'
    BY <1>1, <1>2, <2>2, <2>3 DEF IsWalkToGoal, goal, neighborEdges
  <2>5. QED
    BY <1>1, <1>3, <2>1, <2>4 DEF ExtractionIsWalk
<1>6. ResultIsSolutions'
  BY <1>2 DEF IInv, ResultIsSolutions, Result
<1>7. QED
  BY <1>3, <1>4, <1>5, <1>6 DEF IInv

\* The new walk gets a number of its own and extends the one being expanded.
LEMMA NewWalkIInv == IInv /\ NewWalk => IInv'
<1> SUFFICES ASSUME IInv, NewWalk PROVE IInv'
  OBVIOUS
<1> DEFINE w == m_next_node
           value == [node |-> ToNeighbor.to, parent |-> curr.node, parent_edge |-> ToNeighbor]
<1>1. /\ m_map' = Assign(m_map, w, value)
      /\ open_set' = open_set \cup {[node |-> w, g_score |-> tentative_g_score]}
      /\ UNCHANGED <<problem, pc, m_init_nodes, curr, sol, result>>
      /\ pc = "neighbors"
  BY DEF NewWalk
<1>2. /\ Walks \in Nat
      /\ w = Len(m_init_nodes) + Walks + 1
      /\ Known = 1 .. Len(m_init_nodes) + Walks
  BY NextIsNew DEF IInv
<1>3. /\ Len(m_init_nodes) \in Nat
      /\ DOMAIN m_init_nodes = 1 .. Len(m_init_nodes)
      /\ DOMAIN m_map = Len(m_init_nodes) + 1 .. Len(m_init_nodes) + Walks
      /\ IsFiniteSet(DOMAIN m_map)
  BY DEF IInv, Numbered
<1>4. /\ DOMAIN m_map' = DOMAIN m_map \cup {w}
      /\ m_map'[w] = value
      /\ \A id \in DOMAIN m_map : m_map'[id] = m_map[id]
  <2>1. w \notin DOMAIN m_map
    BY <1>2, <1>3
  <2>2. QED
    BY <1>1, <2>1 DEF Assign
<1>5. /\ IsFiniteSet(DOMAIN m_map')
      /\ Walks' = Walks + 1
  <2>1. w \notin DOMAIN m_map
    BY <1>2, <1>3
  <2>2. QED
    BY <1>3, <1>4, <2>1, FS_AddElement DEF Walks
<1>6. Numbered'
  <2>1. DOMAIN m_map' = Len(m_init_nodes) + 1 .. Len(m_init_nodes) + Walks'
    BY <1>2, <1>3, <1>4, <1>5
  <2>2. QED
    BY <1>1, <1>5, <2>1 DEF IInv, Numbered
<1>7. /\ Known' = Known \cup {w}
      /\ \A id \in Known : getNode(id)' = getNode(id)
  BY <1>1, <1>4 DEF Known, getNode, isInit
<1>8. curr.node \in Known /\ curr.g_score \in CostVector
  BY <1>1 DEF IInv, ElementsKnown
<1>9. /\ ToNeighbor \in Range(neighborEdges(problem, getNode(curr.node)))
      /\ ToNeighbor \in Edge
  <2>1. getNode(curr.node) \in Nodes
    BY <1>8, NodeTyped DEF IInv
  <2>2. ToNeighbor \in Range(neighborEdges(problem, getNode(curr.node)))
    BY DEF NewWalk, MoreNeighbors, ToNeighbor, curr_node, Range
  <2>3. QED
    BY <2>1, <2>2, EdgeTyped DEF IInv, Numbered
<1>10. WalksExtend'
  <2> SUFFICES ASSUME NEW id \in DOMAIN m_map'
               PROVE  /\ m_map'[id].node \in Nodes
                      /\ m_map'[id].parent \in Known'
                      /\ m_map'[id].parent < id
                      /\ m_map'[id].parent_edge
                           \in Range(neighborEdges(problem, getNode(m_map[id].parent)))'
                      /\ m_map'[id].parent_edge.to = m_map'[id].node
    BY DEF WalksExtend
  <2>1. CASE id = w
    <3>1. curr.node < w
      BY <1>2, <1>8
    <3>2. getNode(m_map[id].parent)' = getNode(curr.node)
      BY <1>1, <1>4, <1>7, <1>8, <2>1 DEF getNode, isInit
    <3>3. QED
      BY <1>1, <1>4, <1>7, <1>8, <1>9, <2>1, <3>1, <3>2 DEF Edge, neighborEdges
  <2>2. CASE id \in DOMAIN m_map
    <3>1. /\ m_map[id].node \in Nodes
          /\ m_map[id].parent \in Known
          /\ m_map[id].parent < id
          /\ m_map[id].parent_edge \in Range(neighborEdges(problem, getNode(m_map[id].parent)))
          /\ m_map[id].parent_edge.to = m_map[id].node
      BY <2>2 DEF IInv, WalksExtend
    <3>2. m_map'[id] = m_map[id]
      BY <1>4, <2>2
    <3>3. getNode(m_map[id].parent)' = getNode(m_map[id].parent)
      BY <1>1, <1>4, <3>1, <3>2 DEF getNode, isInit, Known
    <3>4. QED
      BY <1>1, <1>7, <3>1, <3>2, <3>3 DEF neighborEdges
  <2>3. QED
    BY <1>4, <2>1, <2>2
<1>11. ElementsKnown'
  <2>1. tentative_g_score \in CostVector
    BY <1>8, <1>9, SumTyped DEF tentative_g_score
  <2>2. QED
    BY <1>1, <1>7, <2>1 DEF IInv, ElementsKnown
<1>12. ResultIsSolutions' /\ ExtractionIsWalk'
  BY <1>1, ResultStays
<1>13. QED
  BY <1>6, <1>10, <1>11, <1>12 DEF IInv

\* An edge in front of a walk to a goal makes a walk to that goal.
LEMMA EdgeInFront ==
    ASSUME NEW p, NEW m \in Nodes, NEW n, NEW np, NEW ep, IsWalkToGoal(p, n, np, ep),
           NEW e \in Edge, e \in Range(neighborEdges(p, m)), e.to = n
    PROVE  IsWalkToGoal(p, m, <<m>> \o np, <<e>> \o ep)
<1> DEFINE np1 == <<m>> \o np
           ep1 == <<e>> \o ep
<1>1. /\ np \in Seq(Nodes) /\ ep \in Seq(Edge)
      /\ Len(np) = Len(ep) + 1 /\ np[1] = n
      /\ goal(p, Last(np))
      /\ \A k \in DOMAIN ep :
            ep[k] \in Range(neighborEdges(p, np[k])) /\ ep[k].to = np[k + 1]
  BY DEF IsWalkToGoal
<1>2. /\ np1 \in Seq(Nodes) /\ ep1 \in Seq(Edge)
      /\ Len(np1) = Len(np) + 1 /\ Len(ep1) = Len(ep) + 1
      /\ np1[1] = m /\ ep1[1] = e
      /\ \A k \in 1 .. Len(np) : np1[k + 1] = np[k]
      /\ \A k \in 1 .. Len(ep) : ep1[k + 1] = ep[k]
  BY <1>1
<1>3. Last(np1) = Last(np)
  BY <1>1, <1>2 DEF Last
<1>4. ASSUME NEW k \in DOMAIN ep1
      PROVE  ep1[k] \in Range(neighborEdges(p, np1[k])) /\ ep1[k].to = np1[k + 1]
  <2>1. k \in 1 .. Len(ep) + 1
    BY <1>2
  <2>2. CASE k = 1
    <3>1. np1[2] = np[1]
      BY <1>1, <1>2
    <3>2. QED
      BY <1>1, <1>2, <2>2, <3>1
  <2>3. CASE k # 1
    <3>1. /\ k - 1 \in DOMAIN ep /\ (k - 1) + 1 = k
          /\ k - 1 \in 1 .. Len(np) /\ k \in 1 .. Len(np)
      BY <1>1, <2>1, <2>3
    <3>2. ep1[k] = ep[k - 1] /\ np1[k] = np[k - 1] /\ np1[k + 1] = np[k]
      <4>1. k - 1 \in 1 .. Len(ep)
        BY <1>1, <2>1, <2>3
      <4>2. QED
        BY <1>2, <3>1, <4>1
    <3>3. QED
      BY <1>1, <3>1, <3>2
  <2>4. QED
    BY <2>2, <2>3
<1>5. QED
  BY <1>1, <1>2, <1>3, <1>4 DEF IsWalkToGoal

LEMMA FollowParentIInv == IInv /\ FollowParent => IInv'
<1> SUFFICES ASSUME IInv, FollowParent PROVE IInv'
  OBVIOUS
<1> DEFINE value == m_map[sol.at]
<1>1. /\ UNCHANGED <<problem, pc, open_set, m_init_nodes, m_map, curr, result>>
      /\ pc = "extract" /\ ~ isInit(sol.at)
      /\ sol' = [at        |-> value.parent,
                 node_path |-> <<getNode(value.parent)>> \o sol.node_path,
                 edge_path |-> <<value.parent_edge>> \o sol.edge_path]
  BY DEF FollowParent
<1>2. /\ Numbered' /\ WalksExtend' /\ Known' = Known
      /\ \A id \in Known : getNode(id)' = getNode(id)
  BY <1>1, WalksStay
<1>3. ElementsKnown'
  BY <1>1, <1>2 DEF IInv, ElementsKnown
<1>4. ExtractionIsWalk'
  <2>1. /\ sol.at \in DOMAIN m_map
        /\ IsWalkToGoal(problem, getNode(sol.at), sol.node_path, sol.edge_path)
    BY <1>1 DEF IInv, ExtractionIsWalk, Known, isInit
  <2>2. /\ value.parent \in Known
        /\ value.parent_edge \in Range(neighborEdges(problem, getNode(value.parent)))
        /\ value.parent_edge.to = getNode(sol.at)
    BY <1>1, <2>1 DEF IInv, WalksExtend, getNode
  <2>3. getNode(value.parent) \in Nodes
    BY <2>2, NodeTyped DEF IInv
  <2>4. value.parent_edge \in Edge
    BY <2>2, <2>3, EdgeTyped DEF IInv, Numbered
  <2>5. IsWalkToGoal(problem, getNode(value.parent),
                     <<getNode(value.parent)>> \o sol.node_path,
                     <<value.parent_edge>> \o sol.edge_path)
    BY <2>1, <2>2, <2>3, <2>4, EdgeInFront
  <2>6. getNode(sol.at)' = getNode(value.parent)
    BY <1>1 DEF getNode, isInit
  <2>7. IsWalkToGoal(problem, getNode(sol.at), sol.node_path, sol.edge_path)'
    BY <1>1, <2>5, <2>6 DEF IsWalkToGoal, goal, neighborEdges
  <2>8. QED
    BY <1>1, <1>2, <2>2, <2>7 DEF ExtractionIsWalk
<1>5. ResultIsSolutions'
  BY <1>1 DEF IInv, ResultIsSolutions
<1>6. QED
  BY <1>2, <1>3, <1>4, <1>5 DEF IInv

\* A path that has been followed back to an initial node is a solution.
LEMMA StoreSolutionIInv == IInv /\ StoreSolution => IInv'
<1> SUFFICES ASSUME IInv, StoreSolution PROVE IInv'
  OBVIOUS
<1>1. /\ UNCHANGED <<problem, open_set, m_init_nodes, m_map, curr, sol>>
      /\ pc = "extract" /\ pc' = "loop" /\ isInit(sol.at)
      /\ result' = [result EXCEPT !.pf = Append(@, curr.g_score),
                                  !.node_paths = Append(@, sol.node_path),
                                  !.edge_paths = Append(@, sol.edge_path)]
  BY DEF StoreSolution
<1>2. Numbered' /\ WalksExtend' /\ Known' = Known
  BY <1>1, WalksStay
<1>3. ElementsKnown'
  BY <1>1, <1>2 DEF IInv, ElementsKnown
<1>4. ExtractionIsWalk'
  BY <1>1 DEF ExtractionIsWalk
<1>5. /\ sol.node_path \in Seq(Nodes) /\ sol.edge_path \in Seq(Edge)
      /\ IsSolution(problem, sol.node_path, sol.edge_path)
  <2>1. IsWalkToGoal(problem, getNode(sol.at), sol.node_path, sol.edge_path)
    BY <1>1 DEF IInv, ExtractionIsWalk
  <2>2. getNode(sol.at) \in problem.initialNodes
    BY <1>1 DEF IInv, Numbered, isInit, getNode
  <2>3. QED
    BY <2>1, <2>2 DEF IsWalkToGoal, IsSolution
<1>6. /\ result.pf \in Seq(CostVector) /\ curr.g_score \in CostVector
      /\ result.node_paths \in Seq(Seq(Nodes)) /\ result.edge_paths \in Seq(Seq(Edge))
      /\ Len(result.node_paths) = Len(result.pf)
      /\ Len(result.edge_paths) = Len(result.pf)
      /\ result \in Result /\ result.success
  BY <1>1 DEF IInv, ResultIsSolutions, ElementsKnown, Result
<1>7. /\ result'.pf = Append(result.pf, curr.g_score)
      /\ result'.node_paths = Append(result.node_paths, sol.node_path)
      /\ result'.edge_paths = Append(result.edge_paths, sol.edge_path)
      /\ result'.success = result.success
  BY <1>1, <1>6 DEF Result
<1>8. /\ result' \in Result
      /\ Len(result'.pf) = Len(result.pf) + 1
      /\ Len(result'.node_paths) = Len(result'.pf)
      /\ Len(result'.edge_paths) = Len(result'.pf)
      /\ result'.pf # <<>>
  <2>1. /\ result'.pf \in Seq(CostVector) /\ result'.node_paths \in Seq(Seq(Nodes))
        /\ result'.edge_paths \in Seq(Seq(Edge))
    BY <1>5, <1>6, <1>7
  <2>2. result' \in Result
    BY <1>1, <1>6, <1>7, <2>1 DEF Result
  <2>3. /\ Len(result'.pf) = Len(result.pf) + 1
        /\ Len(result'.node_paths) = Len(result.node_paths) + 1
        /\ Len(result'.edge_paths) = Len(result.edge_paths) + 1
    BY <1>5, <1>6, <1>7
  <2>4. Len(result.pf) \in Nat /\ Len(<<>>) = 0
    BY <1>6
  <2>5. result'.pf # <<>>
    BY <2>3, <2>4
  <2>6. QED
    BY <1>6, <2>2, <2>3, <2>5
<1>9. ASSUME NEW s \in 1 .. Len(result'.pf)
      PROVE  IsSolution(problem, result'.node_paths[s], result'.edge_paths[s])
  <2>1. CASE s = Len(result.pf) + 1
    BY <1>5, <1>6, <1>7, <2>1
  <2>2. CASE s \in 1 .. Len(result.pf)
    <3>1. /\ result'.node_paths[s] = result.node_paths[s]
          /\ result'.edge_paths[s] = result.edge_paths[s]
      BY <1>5, <1>6, <1>7, <2>2
    <3>2. QED
      BY <2>2, <3>1 DEF IInv, ResultIsSolutions
  <2>3. QED
    BY <1>6, <1>8, <2>1, <2>2
<1>10. ResultIsSolutions'
  BY <1>1, <1>6, <1>7, <1>8, <1>9 DEF ResultIsSolutions
<1>11. QED
  BY <1>2, <1>3, <1>4, <1>10 DEF IInv

\* Sorting the three sequences apart leaves the solutions together.
LEMMA PackageIInv == IInv /\ Package => IInv'
<1> SUFFICES ASSUME IInv, Package PROVE IInv'
  OBVIOUS
<1>1. /\ UNCHANGED <<problem, open_set, m_init_nodes, m_map, curr, sol>>
      /\ pc = "loop" /\ pc' = "returned"
      /\ result' = [result EXCEPT !.pf = sorted(problem, @),
                                  !.node_paths = sorted(problem, @),
                                  !.edge_paths = sorted(problem, @)]
  BY DEF Package
<1>2. Numbered' /\ WalksExtend' /\ Known' = Known
  BY <1>1, WalksStay
<1>3. ElementsKnown'
  BY <1>1, <1>2 DEF IInv, ElementsKnown
<1>4. ExtractionIsWalk'
  BY <1>1 DEF ExtractionIsWalk
<1>5. /\ result \in Result
      /\ result.pf \in Seq(CostVector)
      /\ result.node_paths \in Seq(Seq(Nodes))
      /\ result.edge_paths \in Seq(Seq(Edge))
      /\ Len(result.node_paths) = Len(result.pf)
      /\ Len(result.edge_paths) = Len(result.pf)
      /\ result.success <=> result.pf # <<>>
  BY <1>1 DEF IInv, ResultIsSolutions, Result
<1>6. /\ result'.pf = sorted(problem, result.pf)
      /\ result'.node_paths = sorted(problem, result.node_paths)
      /\ result'.edge_paths = sorted(problem, result.edge_paths)
      /\ result'.success = result.success
  BY <1>1, <1>5 DEF Result
<1>7. /\ result'.pf \in Seq(CostVector) /\ Len(result'.pf) = Len(result.pf)
      /\ result'.node_paths \in Seq(Seq(Nodes)) /\ Len(result'.node_paths) = Len(result.pf)
      /\ result'.edge_paths \in Seq(Seq(Edge)) /\ Len(result'.edge_paths) = Len(result.pf)
  BY <1>5, <1>6, SortedTyped
<1>8. ASSUME NEW s \in 1 .. Len(result'.pf)
      PROVE  IsSolution(problem, result'.node_paths[s], result'.edge_paths[s])
  <2> DEFINE t == IF problem.container = "FixedArray" THEN s ELSE Len(result.pf) - s + 1
  <2>1. s \in 1 .. Len(result.pf) /\ t \in 1 .. Len(result.pf)
    BY <1>5, <1>7
  <2>2. result'.node_paths[s] = result.node_paths[t]
    <3>1. \A k \in 1 .. Len(result.node_paths) :
             sorted(problem, result.node_paths)[k] =
                IF problem.container = "FixedArray"
                  THEN result.node_paths[k]
                  ELSE result.node_paths[Len(result.node_paths) - k + 1]
      BY <1>5 DEF sorted, Reverse
    <3>2. QED
      BY <1>5, <1>6, <2>1, <3>1
  <2>3. result'.edge_paths[s] = result.edge_paths[t]
    <3>1. \A k \in 1 .. Len(result.edge_paths) :
             sorted(problem, result.edge_paths)[k] =
                IF problem.container = "FixedArray"
                  THEN result.edge_paths[k]
                  ELSE result.edge_paths[Len(result.edge_paths) - k + 1]
      BY <1>5 DEF sorted, Reverse
    <3>2. QED
      BY <1>5, <1>6, <2>1, <3>1
  <2>4. QED
    BY <2>1, <2>2, <2>3 DEF IInv, ResultIsSolutions
<1>9. result' \in Result
  BY <1>1, <1>5, <1>6, <1>7 DEF Result
<1>10. result'.success <=> result'.pf # <<>>
  BY <1>5, <1>6, <1>7
<1>11. ResultIsSolutions'
  BY <1>1, <1>7, <1>8, <1>9, <1>10 DEF ResultIsSolutions
<1>12. QED
  BY <1>2, <1>3, <1>4, <1>11 DEF IInv

LEMMA NextIInv == IInv /\ [Next]_vars => IInv'
<1> SUFFICES ASSUME IInv, [Next]_vars PROVE IInv'
  OBVIOUS
<1>1. CASE SkipPruned \/ SkipNeighbor \/ EndNeighbors \/ UNCHANGED vars
  BY <1>1, SkippingIInv
<1>2. CASE ReachGoal
  BY <1>2, ReachGoalIInv
<1>3. CASE Expand
  BY <1>3, ExpandIInv
<1>4. CASE NewWalk
  BY <1>4, NewWalkIInv
<1>5. CASE FollowParent
  BY <1>5, FollowParentIInv
<1>6. CASE StoreSolution
  BY <1>6, StoreSolutionIInv
<1>7. CASE Package
  BY <1>7, PackageIInv
<1>8. QED
  BY <1>1, <1>2, <1>3, <1>4, <1>5, <1>6, <1>7 DEF Next

LEMMA InvariantHolds == Spec => []IInv
BY InitIInv, NextIInv, PTL DEF Spec

-----------------------------------------------------------------------------
\* The numbering of walks is a forest: every walk but an initial node has a number
\* of its own and extends, by an edge of the graph that leaves where its parent
\* ends, a walk that was numbered before it (PathEnumeratedNodeMap in BOAStar.h,
\* as long as its 32-bit numbers last).
THEOREM WalksAreAForest ==
    Spec => [](\A id \in DOMAIN m_map :
        /\ ~ isInit(id) /\ m_map[id].parent < id
        /\ m_map[id].parent_edge \in Range(neighborEdges(problem, getNode(m_map[id].parent)))
        /\ m_map[id].parent_edge.to = m_map[id].node)
<1>1. IInv => \A id \in DOMAIN m_map :
        /\ ~ isInit(id) /\ m_map[id].parent < id
        /\ m_map[id].parent_edge \in Range(neighborEdges(problem, getNode(m_map[id].parent)))
        /\ m_map[id].parent_edge.to = m_map[id].node
  <2> SUFFICES ASSUME IInv, NEW id \in DOMAIN m_map
               PROVE  /\ ~ isInit(id) /\ m_map[id].parent < id
                      /\ m_map[id].parent_edge
                           \in Range(neighborEdges(problem, getNode(m_map[id].parent)))
                      /\ m_map[id].parent_edge.to = m_map[id].node
    OBVIOUS
  <2>1. ~ isInit(id)
    BY NextIsNew DEF IInv, Numbered, isInit
  <2>2. QED
    BY <2>1 DEF IInv, WalksExtend
<1>2. QED
  BY <1>1, InvariantHolds, PTL

\* Whatever the heuristic and the container, what BOA* returns are walks of the
\* graph from an initial node to a goal, as many as the front has points, and it
\* reports success exactly if there are any (BOAStar_impl.hpp:143 and
\* MultiObjectiveSearchResult::package).
THEOREM ReturnedAreSolutions ==
    Spec => [](pc = "returned" =>
        /\ Len(result.node_paths) = Len(result.pf)
        /\ Len(result.edge_paths) = Len(result.pf)
        /\ result.success <=> result.pf # <<>>
        /\ \A s \in 1 .. Len(result.pf) :
              IsSolution(problem, result.node_paths[s], result.edge_paths[s]))
<1>1. IInv => (pc = "returned" =>
        /\ Len(result.node_paths) = Len(result.pf)
        /\ Len(result.edge_paths) = Len(result.pf)
        /\ result.success <=> result.pf # <<>>
        /\ \A s \in 1 .. Len(result.pf) :
              IsSolution(problem, result.node_paths[s], result.edge_paths[s]))
  BY DEF IInv, ResultIsSolutions
<1>2. QED
  BY <1>1, InvariantHolds, PTL

-----------------------------------------------------------------------------
\* While points are added, the second objective falls from each to the next, and
\* g_2_min_goal holds a bound for all of them, which the goal being stored is
\* below.
FrontFalls ==
    /\ g_2_min_goal.value \in Nat
    /\ pc = "extract" => (g_2_min_goal.set => curr.g_score[2] < g_2_min_goal.value)
    /\ pc # "returned" =>
        /\ \A s \in 1 .. Len(result.pf) :
              g_2_min_goal.set /\ g_2_min_goal.value <= result.pf[s][2]
        /\ \A r, s \in 1 .. Len(result.pf) : r < s => result.pf[s][2] < result.pf[r][2]

\* No two points of the front share their second objective.
PointsDiffer ==
    \A r, s \in 1 .. Len(result.pf) : result.pf[r][2] = result.pf[s][2] => r = s

FInv == FrontFalls /\ PointsDiffer

LEMMA SecondTyped ==
    ASSUME NEW c \in CostVector
    PROVE  c[2] \in Nat
BY TwoObjectives DEF CostVector, Objectives

\* The f-score that a popped goal is held against is no less than its cost.
LEMMA ScoreAboveCost ==
    ASSUME IInv, NEW e \in open_set
    PROVE  /\ e.g_score[2] \in Nat /\ f_score(e)[2] \in Nat
           /\ e.g_score[2] <= f_score(e)[2]
<1>1. e.g_score \in CostVector /\ getNode(e.node) \in Nodes
  BY NodeTyped DEF IInv, ElementsKnown
<1>2. hScore(problem, getNode(e.node)) \in CostVector
  BY <1>1, MOProblemAssumption DEF IInv, Numbered, IsProblem, hScore
<1>3. 2 \in Objectives
  BY TwoObjectives DEF Objectives
<1>4. f_score(e)[2] = e.g_score[2] + hScore(problem, getNode(e.node))[2]
  BY <1>3 DEF f_score, Plus
<1>5. e.g_score[2] \in Nat /\ hScore(problem, getNode(e.node))[2] \in Nat
  BY <1>1, <1>2, SecondTyped
<1>6. QED
  BY <1>4, <1>5

LEMMA InitFInv == Init => FInv
BY DEF Init, FInv, FrontFalls, PointsDiffer, NoResult

LEMMA StepFInv == IInv /\ FInv /\ [Next]_vars => FInv'
<1> SUFFICES ASSUME IInv, FInv, [Next]_vars PROVE FInv'
  OBVIOUS
<1>1. CASE SkipPruned \/ SkipNeighbor \/ EndNeighbors \/ Expand \/ NewWalk \/ FollowParent
           \/ UNCHANGED vars
  <2>1. /\ UNCHANGED <<result, g_2_min_goal>>
        /\ pc' = "extract" => pc = "extract" /\ UNCHANGED curr
        /\ pc' # "returned" => pc # "returned"
    BY <1>1 DEF SkipPruned, SkipNeighbor, EndNeighbors, Expand, NewWalk, FollowParent, vars
  <2>2. QED
    BY <2>1 DEF FInv, FrontFalls, PointsDiffer
<1>2. CASE ReachGoal
  <2>1. PICK e \in open_set : ~ Pruned(e) /\ curr' = e
    BY <1>2 DEF ReachGoal
  <2>2. /\ UNCHANGED g_2_min_goal
        /\ result'.pf = result.pf
        /\ pc # "returned"
    BY <1>2 DEF ReachGoal, IInv, ResultIsSolutions, Result
  <2>3. g_2_min_goal.set => f_score(e)[2] < g_2_min_goal.value
    BY <2>1 DEF Pruned, PrunedAtGoal
  <2>4. g_2_min_goal.value \in Nat
    BY DEF FInv, FrontFalls
  <2>5. g_2_min_goal.set => e.g_score[2] < g_2_min_goal.value
    BY <2>3, <2>4, ScoreAboveCost
  <2>6. QED
    BY <2>1, <2>2, <2>5 DEF FInv, FrontFalls, PointsDiffer
<1>3. CASE StoreSolution
  <2> DEFINE new == curr.g_score[2]
             n == Len(result.pf)
  <2>1. /\ pc = "extract" /\ pc' = "loop"
        /\ result' = [result EXCEPT !.pf = Append(@, curr.g_score),
                                    !.node_paths = Append(@, sol.node_path),
                                    !.edge_paths = Append(@, sol.edge_path)]
        /\ g_2_min_goal' = IF ~ g_2_min_goal.set \/ new < g_2_min_goal.value
                             THEN [set |-> TRUE, value |-> new]
                             ELSE g_2_min_goal
    BY <1>3 DEF StoreSolution
  <2>2. curr.g_score \in CostVector /\ result.pf \in Seq(CostVector) /\ result \in Result
    BY <2>1 DEF IInv, ElementsKnown, ResultIsSolutions, Result
  <2>3. new \in Nat /\ n \in Nat
    BY <2>2, SecondTyped
  <2>4. /\ result'.pf = Append(result.pf, curr.g_score)
        /\ Len(result'.pf) = n + 1
        /\ result'.pf[n + 1] = curr.g_score
        /\ \A s \in 1 .. n : result'.pf[s] = result.pf[s]
    <3>1. result'.pf = Append(result.pf, curr.g_score)
      BY <2>1, <2>2 DEF Result
    <3>2. QED
      BY <2>2, <3>1
  <2>5. \A s \in 1 .. n : /\ g_2_min_goal.set
                          /\ g_2_min_goal.value <= result.pf[s][2]
                          /\ result.pf[s][2] \in Nat
    BY <2>1, <2>2, SecondTyped DEF FInv, FrontFalls
  <2>6. /\ g_2_min_goal.value \in Nat
        /\ g_2_min_goal.set => new < g_2_min_goal.value
    BY <2>1 DEF FInv, FrontFalls
  <2>7. g_2_min_goal'.set /\ g_2_min_goal'.value = new
    BY <2>1, <2>6
  <2>8. \A s \in 1 .. n : new < result.pf[s][2]
    BY <2>3, <2>5, <2>6
  <2>9. \A r, s \in 1 .. n : r < s => result.pf[s][2] < result.pf[r][2]
    BY <2>1 DEF FInv, FrontFalls
  <2>10. \A s \in 1 .. n + 1 : g_2_min_goal'.set /\ g_2_min_goal'.value <= result'.pf[s][2]
    <3> SUFFICES ASSUME NEW s \in 1 .. n + 1
                 PROVE  g_2_min_goal'.set /\ g_2_min_goal'.value <= result'.pf[s][2]
      OBVIOUS
    <3>1. CASE s = n + 1
      BY <2>3, <2>4, <2>7, <3>1
    <3>2. CASE s \in 1 .. n
      BY <2>3, <2>4, <2>5, <2>7, <2>8, <3>2
    <3>3. QED
      BY <2>3, <3>1, <3>2
  <2>11. \A r, s \in 1 .. n + 1 : r < s => result'.pf[s][2] < result'.pf[r][2]
    <3> SUFFICES ASSUME NEW r \in 1 .. n + 1, NEW s \in 1 .. n + 1, r < s
                 PROVE  result'.pf[s][2] < result'.pf[r][2]
      OBVIOUS
    <3>1. r \in 1 .. n
      BY <2>3
    <3>2. CASE s = n + 1
      BY <2>4, <2>8, <3>1, <3>2
    <3>3. CASE s \in 1 .. n
      BY <2>4, <2>9, <3>1, <3>3
    <3>4. QED
      BY <2>3, <3>2, <3>3
  <2>12. \A s \in 1 .. n + 1 : result'.pf[s][2] \in Nat
    BY <2>3, <2>4, <2>5
  <2>13. PointsDiffer'
    <3> SUFFICES ASSUME NEW r \in 1 .. n + 1, NEW s \in 1 .. n + 1,
                        result'.pf[r][2] = result'.pf[s][2]
                 PROVE  r = s
      BY <2>4 DEF PointsDiffer
    <3>1. ~ (r < s) /\ ~ (s < r)
      BY <2>11, <2>12
    <3>2. QED
      BY <2>3, <3>1
  <2>14. FrontFalls'
    BY <2>1, <2>3, <2>4, <2>7, <2>10, <2>11 DEF FrontFalls
  <2>15. QED
    BY <2>13, <2>14 DEF FInv
<1>4. CASE Package
  <2>1. /\ pc' = "returned"
        /\ UNCHANGED g_2_min_goal
        /\ result' = [result EXCEPT !.pf = sorted(problem, @),
                                    !.node_paths = sorted(problem, @),
                                    !.edge_paths = sorted(problem, @)]
    BY <1>4 DEF Package
  <2>2. result.pf \in Seq(CostVector) /\ result'.pf = sorted(problem, result.pf)
    BY <2>1 DEF IInv, ResultIsSolutions, Result
  <2>3. Len(result'.pf) = Len(result.pf) /\ Len(result.pf) \in Nat
    BY <2>2, SortedTyped
  <2>4. \A s \in 1 .. Len(result.pf) :
           result'.pf[s] = IF problem.container = "FixedArray"
                             THEN result.pf[s] ELSE result.pf[Len(result.pf) - s + 1]
    BY <2>2 DEF sorted, Reverse
  <2>5. PointsDiffer'
    <3> SUFFICES ASSUME NEW r \in 1 .. Len(result.pf), NEW s \in 1 .. Len(result.pf),
                        result'.pf[r][2] = result'.pf[s][2]
                 PROVE  r = s
      BY <2>3 DEF PointsDiffer
    <3>1. CASE problem.container = "FixedArray"
      BY <2>4, <3>1 DEF FInv, PointsDiffer
    <3>2. CASE problem.container # "FixedArray"
      <4> DEFINE at(k) == Len(result.pf) - k + 1
      <4>1. at(r) \in 1 .. Len(result.pf) /\ at(s) \in 1 .. Len(result.pf)
        BY <2>3
      <4>2. result.pf[at(r)][2] = result.pf[at(s)][2]
        BY <2>4, <3>2
      <4>3. at(r) = at(s)
        BY <4>1, <4>2 DEF FInv, PointsDiffer
      <4>4. QED
        BY <2>3, <4>3
    <3>3. QED
      BY <3>1, <3>2
  <2>6. FrontFalls'
    BY <2>1 DEF FInv, FrontFalls
  <2>7. QED
    BY <2>5, <2>6 DEF FInv
<1>5. QED
  BY <1>1, <1>2, <1>3, <1>4 DEF Next

\* BOA* never reports a point twice, nor two of which one is only worse in the
\* first objective: any two of its points differ in the second, which the goal's
\* minimum alone ensures, under any heuristic (BOAStar_impl.hpp:77, 95).
THEOREM NoPointTwice ==
    Spec => [](\A r, s \in 1 .. Len(result.pf) : result.pf[r][2] = result.pf[s][2] => r = s)
<1>1. FInv => \A r, s \in 1 .. Len(result.pf) : result.pf[r][2] = result.pf[s][2] => r = s
  BY DEF FInv, PointsDiffer
<1>2. QED
  BY <1>1, InitFInv, StepFInv, InvariantHolds, PTL DEF Spec

-----------------------------------------------------------------------------
(***************************************************************************)
(* BOA* reports the Pareto front, if the heuristic is consistent and       *)
(* gScore adds.                                                            *)
(***************************************************************************)

ToGo == ParetoToGo(problem)
ParetoFront == ParetoFrontOf(problem)
Reported == Range(result.pf)

\* The node a walk ends in.
EndOf(e) == getNode(e.node)

\* The walks that can still be extended.
Heads == open_set \cup (IF pc = "neighbors" THEN {curr} ELSE {})

\* The costs of the goals popped.
Found == Reported \cup (IF pc = "extract" THEN {curr.g_score} ELSE {})

\* No walk costs v unless it attains a point of the front or is worse than one.
AboveFront(v) == \E c \in ParetoFront : Leq(c, v)

\* The point c is found, by less than k more edges, on the way of an open walk,
OpenLeadsTo(c, k) ==
    \E e \in open_set : \E d \in ToGo[EndOf(e)] :
        d.hops < k /\ Plus(e.g_score, d.cost) = c

\* on an edge j that the walk being expanded has yet to try,
EdgeLeadsTo(c, k, j) ==
    LET edge == neighborEdges(problem, curr_node)[j]
    IN  \E d \in ToGo[edge.to] :
            d.hops < k /\ Plus(Plus(curr.g_score, edge.cost), d.cost) = c

\* or at the goal whose path is being extracted.
Covered(c, k) ==
    \/ OpenLeadsTo(c, k)
    \/ /\ pc = "neighbors"
       /\ \E j \in DOMAIN neighborEdges(problem, curr_node) : i <= j /\ EdgeLeadsTo(c, k, j)
    \/ pc = "extract" /\ curr.g_score = c

\* A walk of cost v to n was expanded before any of the heads could be, and what
\* of the front is found by way of n at that cost is reported or ahead.
Settled(n, v) ==
    /\ \A e \in Heads : v[1] + hScore(problem, n)[1] <= f_score(e)[1]
    /\ \A d \in ToGo[n] :
          /\ AboveFront(Plus(v, d.cost))
          /\ Plus(v, d.cost) \in ParetoFront \ Reported => Covered(Plus(v, d.cost), d.hops)

GoodProblem == Consistent(problem) /\ Additive(problem)

HeadsAboveFront ==
    \A e \in Heads : \A d \in ToGo[EndOf(e)] : AboveFront(Plus(e.g_score, d.cost))

\* Walks are taken up in the order of the first objective.
TakenInOrder ==
    /\ pc = "neighbors" =>
        /\ i \in Nat \ {0}
        /\ ~ PrunedAtGoal(f_score(curr))
        /\ \A e \in open_set : f_score(curr)[1] <= f_score(e)[1]
    /\ \A c \in Found : \A e \in Heads : c[1] <= f_score(e)[1]

ExpandedSettled ==
    \A n \in DOMAIN g_2_min :
        n \in Nodes /\ \E v \in CostVector : v[2] = g_2_min[n] /\ Settled(n, v)

OnlyFrontFound ==
    /\ Found \subseteq ParetoFront
    /\ g_2_min_goal.set => \E c \in Reported : c[2] = g_2_min_goal.value

AllFrontAhead == \A c \in ParetoFront \ Reported : \E k \in Nat : Covered(c, k)

PInv == GoodProblem /\ HeadsAboveFront /\ TakenInOrder /\ ExpandedSettled
            /\ OnlyFrontFound /\ AllFrontAhead

-----------------------------------------------------------------------------
LEMMA TwoComponents ==
    ASSUME NEW c \in CostVector, NEW d \in CostVector
    PROVE  /\ c[1] \in Nat /\ c[2] \in Nat
           /\ Plus(c, d)[1] = c[1] + d[1] /\ Plus(c, d)[2] = c[2] + d[2]
           /\ Leq(c, d) <=> c[1] <= d[1] /\ c[2] <= d[2]
           /\ c = d <=> c[1] = d[1] /\ c[2] = d[2]
           /\ c[1] < d[1] => LexLess(c, d)
           /\ c[1] = d[1] /\ c[2] < d[2] => LexLess(c, d)
<1>1. Objectives = {1, 2}
  BY TwoObjectives DEF Objectives
<1>2. c[1] \in Nat /\ c[2] \in Nat
  BY <1>1 DEF CostVector
<1>3. Plus(c, d)[1] = c[1] + d[1] /\ Plus(c, d)[2] = c[2] + d[2]
  BY <1>1 DEF Plus
<1>4. Leq(c, d) <=> c[1] <= d[1] /\ c[2] <= d[2]
  BY <1>1 DEF Leq
<1>5. c = d <=> c[1] = d[1] /\ c[2] = d[2]
  BY <1>1 DEF CostVector
<1>6. c[1] < d[1] => LexLess(c, d)
  BY <1>1 DEF LexLess
<1>7. c[1] = d[1] /\ c[2] < d[2] => LexLess(c, d)
  <2> SUFFICES ASSUME c[1] = d[1], c[2] < d[2] PROVE LexLess(c, d)
    OBVIOUS
  <2>1. \A j \in 1 .. 2 - 1 : c[j] = d[j]
    <3>1. \A j \in 1 .. 2 - 1 : j = 1
      OBVIOUS
    <3>2. QED
      BY <3>1
  <2>2. QED
    BY <1>1, <2>1 DEF LexLess
<1>8. QED
  BY <1>2, <1>3, <1>4, <1>5, <1>6, <1>7

\* The walks that can be extended, and the one being read back, have their types.
LEMMA HeadTyped ==
    ASSUME IInv, NEW e \in Heads
    PROVE  /\ e.node \in Known /\ EndOf(e) \in Nodes
           /\ e.g_score \in CostVector
           /\ f_score(e) \in CostVector
           /\ f_score(e) = Plus(e.g_score, hScore(problem, EndOf(e)))
<1>1. e.node \in Known /\ e.g_score \in CostVector
  BY DEF IInv, ElementsKnown, Heads
<1>2. EndOf(e) \in Nodes
  BY <1>1, NodeTyped DEF IInv, EndOf
<1>3. hScore(problem, EndOf(e)) \in CostVector
  BY <1>2, ReferenceTyped DEF IInv, Numbered
<1>4. f_score(e) = Plus(e.g_score, hScore(problem, EndOf(e)))
  BY DEF f_score, EndOf
<1>5. QED
  BY <1>1, <1>2, <1>3, <1>4, CostOrder

\* What is still to go from a head is at least what the heuristic says.
LEMMA HeadBelow ==
    ASSUME IInv, NEW e \in Heads, NEW d \in ToGo[EndOf(e)]
    PROVE  /\ d.cost \in CostVector /\ d.hops \in Nat
           /\ Plus(e.g_score, d.cost) \in CostVector
           /\ Leq(f_score(e), Plus(e.g_score, d.cost))
<1>1. /\ EndOf(e) \in Nodes /\ e.g_score \in CostVector
      /\ f_score(e) = Plus(e.g_score, hScore(problem, EndOf(e)))
  BY HeadTyped
<1>2. /\ hScore(problem, EndOf(e)) \in CostVector
      /\ d.cost \in CostVector /\ d.hops \in Nat
      /\ Leq(hScore(problem, EndOf(e)), d.cost)
  BY <1>1, ReferenceTyped DEF IInv, Numbered, ToGo
<1>3. Leq(Plus(e.g_score, hScore(problem, EndOf(e))), Plus(e.g_score, d.cost))
  BY <1>1, <1>2, CostOrder
<1>4. Plus(e.g_score, d.cost) \in CostVector
  BY <1>1, <1>2, CostOrder
<1>5. QED
  BY <1>1, <1>2, <1>3, <1>4

\* A walk that may not be worse than a point of the front attains it.
LEMMA AttainsFront ==
    ASSUME problem \in Problems, NEW v \in CostVector, AboveFront(v),
           NEW c \in ParetoFront, Leq(v, c)
    PROVE  v = c
<1>1. PICK b \in ParetoFront : Leq(b, v)
  BY DEF AboveFront
<1>2. b \in CostVector /\ c \in CostVector
  BY FrontOfReference DEF ParetoFront
<1>3. Leq(b, c)
  BY <1>1, <1>2, CostOrder
<1>4. b = c
  BY <1>3, FrontOfReference DEF ParetoFront
<1>5. QED
  BY <1>1, <1>2, <1>4, CostOrder

\* A walk pruned at its node could only lead where walks ahead lead as well.
LEMMA PrunedIsCovered ==
    ASSUME IInv, PInv, NEW n \in Nodes, NEW g \in CostVector, PrunedAtNode(n, g),
           NEW e \in Heads, f_score(e)[1] <= g[1] + hScore(problem, n)[1],
           NEW d \in ToGo[n], Plus(g, d.cost) \in ParetoFront \ Reported
    PROVE  Covered(Plus(g, d.cost), d.hops)
<1>1. PICK v \in CostVector : v[2] = g_2_min[n] /\ Settled(n, v)
  BY DEF PInv, ExpandedSettled, PrunedAtNode
<1>2. /\ v[1] \in Nat /\ v[2] \in Nat /\ g[1] \in Nat /\ g[2] \in Nat
      /\ f_score(e)[1] \in Nat
  BY HeadTyped, TwoComponents
<1>3. /\ d.cost \in CostVector
      /\ hScore(problem, n) \in CostVector
      /\ hScore(problem, n)[1] \in Nat
  BY ReferenceTyped, TwoComponents DEF IInv, Numbered, ToGo
<1>4. v[1] + hScore(problem, n)[1] <= f_score(e)[1]
  BY <1>1 DEF Settled
<1>5. v[1] <= g[1] /\ v[2] <= g[2]
  BY <1>1, <1>2, <1>3, <1>4 DEF PrunedAtNode
<1>6. Leq(v, g)
  BY <1>5, TwoComponents
<1>7. /\ Plus(v, d.cost) \in CostVector /\ Plus(d.cost, v) = Plus(v, d.cost)
      /\ Plus(g, d.cost) \in CostVector /\ Plus(d.cost, g) = Plus(g, d.cost)
  <2>1. Plus(v, d.cost) \in CostVector /\ Plus(g, d.cost) \in CostVector
    BY <1>3, CostOrder
  <2>2. Plus(d.cost, v) = Plus(v, d.cost) /\ Plus(d.cost, g) = Plus(g, d.cost)
    BY <1>3, SumOrder
  <2>3. QED
    BY <2>1, <2>2
<1>8. Leq(Plus(v, d.cost), Plus(g, d.cost))
  BY <1>3, <1>6, <1>7, CostOrder
<1>9. AboveFront(Plus(v, d.cost))
  BY <1>1 DEF Settled
<1>10. Plus(v, d.cost) = Plus(g, d.cost)
  BY <1>7, <1>8, <1>9, AttainsFront DEF IInv, Numbered
<1>11. QED
  BY <1>1, <1>10 DEF Settled

\* A walk pruned at the goal could only lead to a point that is reported.
LEMMA PrunedIsReported ==
    ASSUME IInv, PInv, NEW e \in open_set, PrunedAtGoal(f_score(e)),
           NEW d \in ToGo[EndOf(e)], Plus(e.g_score, d.cost) \in ParetoFront
    PROVE  Plus(e.g_score, d.cost) \in Reported
<1> DEFINE c == Plus(e.g_score, d.cost)
<1>1. e \in Heads
  BY DEF Heads
<1>2. PICK b \in Reported : b[2] = g_2_min_goal.value
  BY DEF PInv, OnlyFrontFound, PrunedAtGoal
<1>3. b \in ParetoFront /\ b[1] <= f_score(e)[1]
  BY <1>1 DEF PInv, OnlyFrontFound, TakenInOrder, Found
<1>4. b \in CostVector
  BY <1>3, FrontOfReference DEF ParetoFront, IInv, Numbered
<1>5. f_score(e) \in CostVector /\ c \in CostVector /\ Leq(f_score(e), c)
  BY <1>1, HeadTyped, HeadBelow
<1>6. b[2] <= f_score(e)[2]
  BY <1>2, <1>4, <1>5, TwoComponents DEF PrunedAtGoal
<1>7. Leq(b, f_score(e))
  BY <1>3, <1>4, <1>5, <1>6, TwoComponents
<1>8. Leq(b, c)
  BY <1>4, <1>5, <1>7, CostOrder
<1>9. b = c
  BY <1>3, <1>8, FrontOfReference DEF ParetoFront, IInv, Numbered
<1>10. QED
  BY <1>2, <1>9

\* From a node that is no goal, an edge leads on to whatever is still to go.
LEMMA EdgeAhead ==
    ASSUME problem \in Problems, NEW n \in Nodes, ~ goal(problem, n), NEW d \in ToGo[n],
           NEW g \in CostVector
    PROVE  \E j \in DOMAIN neighborEdges(problem, n) :
             \E c \in ToGo[neighborEdges(problem, n)[j].to] :
               /\ c.hops < d.hops
               /\ Plus(Plus(g, neighborEdges(problem, n)[j].cost), c.cost) = Plus(g, d.cost)
<1>1. PICK j \in DOMAIN problem.adj[n] : \E c \in ToGo[problem.adj[n][j].to] :
         d.cost = Plus(problem.adj[n][j].cost, c.cost) /\ c.hops < d.hops
  BY MOProblemAssumption DEF IsParetoToGo, goal, ToGo
<1>2. PICK c \in ToGo[problem.adj[n][j].to] :
         d.cost = Plus(problem.adj[n][j].cost, c.cost) /\ c.hops < d.hops
  BY <1>1
<1>3. problem.adj[n][j].to \in Nodes /\ problem.adj[n][j].cost \in CostVector
  BY ReferenceOfEdge DEF neighborEdges
<1>4. c.cost \in CostVector
  BY <1>3, ReferenceTyped DEF ToGo
<1>5. Plus(Plus(g, problem.adj[n][j].cost), c.cost)
         = Plus(g, Plus(problem.adj[n][j].cost, c.cost))
  BY <1>3, <1>4, SumOrder
<1>6. Plus(Plus(g, problem.adj[n][j].cost), c.cost) = Plus(g, d.cost)
  BY <1>2, <1>5
<1>7. QED
  BY <1>2, <1>6 DEF neighborEdges

\* What is to go from a goal is nothing.
LEMMA NothingToGo ==
    ASSUME problem \in Problems, NEW n \in Nodes, goal(problem, n)
    PROVE  ToGo[n] # {} /\ \A d \in ToGo[n] : d.cost = Zero
BY MOProblemAssumption DEF IsParetoToGo, goal, ToGo

\* A goal that is popped and not pruned is a point of the front.
LEMMA PoppedGoalInFront ==
    ASSUME IInv, FInv, PInv, pc = "loop", NEW e \in open_set, Top(e), ~ Pruned(e),
           goal(problem, getNode(e.node))
    PROVE  e.g_score \in ParetoFront
<1>1. /\ e \in Heads /\ EndOf(e) \in Nodes /\ e.g_score \in CostVector
      /\ f_score(e) = Plus(e.g_score, hScore(problem, EndOf(e)))
      /\ problem \in Problems /\ goal(problem, EndOf(e))
  BY HeadTyped DEF Heads, IInv, Numbered, EndOf
<1>2. f_score(e) = e.g_score
  <2>1. hScore(problem, EndOf(e)) = Zero
    BY <1>1 DEF PInv, GoodProblem, Consistent, goal
  <2>2. QED
    BY <1>1, <2>1, SumWithZero
<1>3. AboveFront(e.g_score)
  <2>1. PICK d \in ToGo[EndOf(e)] : d.cost = Zero
    BY <1>1, NothingToGo
  <2>2. AboveFront(Plus(e.g_score, d.cost))
    BY <1>1 DEF PInv, HeadsAboveFront
  <2>3. QED
    BY <1>1, <2>1, <2>2, SumWithZero
<1>4. PICK c \in ParetoFront : Leq(c, e.g_score)
  BY <1>3 DEF AboveFront
<1>5. c \in CostVector
  BY <1>1, FrontOfReference DEF ParetoFront
<1>6. ASSUME c # e.g_score PROVE FALSE
  <2>1. c \notin Reported
    <3> SUFFICES ASSUME c \in Reported PROVE FALSE
      OBVIOUS
    <3>1. g_2_min_goal.set /\ g_2_min_goal.value <= c[2] /\ g_2_min_goal.value \in Nat
      <4>1. PICK s \in DOMAIN result.pf : result.pf[s] = c
        BY DEF Reported, Range
      <4>2. s \in 1 .. Len(result.pf)
        BY DEF IInv, ResultIsSolutions, Result
      <4>3. QED
        BY <4>1, <4>2 DEF FInv, FrontFalls
    <3>2. c[2] <= e.g_score[2] /\ c[2] \in Nat /\ e.g_score[2] \in Nat
      BY <1>1, <1>4, <1>5, TwoComponents
    <3>3. PrunedAtGoal(f_score(e))
      BY <1>2, <3>1, <3>2 DEF PrunedAtGoal
    <3>4. QED
      BY <3>3 DEF Pruned
  <2>2. PICK o \in open_set : \E d \in ToGo[EndOf(o)] : Plus(o.g_score, d.cost) = c
    BY <2>1 DEF PInv, AllFrontAhead, Covered, OpenLeadsTo
  <2>3. f_score(o) \in CostVector /\ Leq(f_score(o), c)
    BY <2>2, HeadTyped, HeadBelow DEF Heads
  <2>4. ~ LexLess(f_score(o), e.g_score)
    BY <1>2 DEF Top
  <2>5. /\ f_score(o)[1] <= c[1] /\ f_score(o)[2] <= c[2]
        /\ c[1] <= e.g_score[1] /\ c[2] <= e.g_score[2]
        /\ ~ (c[1] = e.g_score[1] /\ c[2] = e.g_score[2])
        /\ f_score(o)[1] \in Nat /\ f_score(o)[2] \in Nat
        /\ c[1] \in Nat /\ c[2] \in Nat /\ e.g_score[1] \in Nat /\ e.g_score[2] \in Nat
        /\ ~ (f_score(o)[1] < e.g_score[1])
        /\ ~ (f_score(o)[1] = e.g_score[1] /\ f_score(o)[2] < e.g_score[2])
    BY <1>1, <1>4, <1>5, <1>6, <2>3, <2>4, TwoComponents
  <2>6. QED
    BY <2>5
<1>7. QED
  BY <1>6

-----------------------------------------------------------------------------
\* The invariant at the start.
LEMMA InitPInv == Init /\ GoodProblem => PInv
<1> SUFFICES ASSUME Init, GoodProblem PROVE PInv
  OBVIOUS
<1>1. /\ problem \in Problems /\ pc = "loop"
      /\ m_init_nodes = SetToSeq(problem.initialNodes)
      /\ open_set = {[node |-> id, g_score |-> Zero] : id \in DOMAIN m_init_nodes}
      /\ DOMAIN g_2_min = {} /\ ~ g_2_min_goal.set
      /\ result.pf = <<>>
  BY DEF Init, NoResult
<1>2. Heads = open_set /\ Found = {} /\ Reported = {}
  BY <1>1 DEF Heads, Found, Reported, Range
<1>3. /\ m_init_nodes \in Seq(problem.initialNodes)
      /\ Range(m_init_nodes) = problem.initialNodes
      /\ problem.initialNodes \subseteq Nodes
  BY <1>1, InitialNodesNumbered, AllInitialNodesNumbered, MOProblemAssumption DEF IsProblem
<1>4. \A id \in DOMAIN m_init_nodes :
         getNode(id) = m_init_nodes[id] /\ getNode(id) \in problem.initialNodes
  BY <1>3 DEF getNode, isInit
<1>5. HeadsAboveFront
  <2> SUFFICES ASSUME NEW e \in open_set, NEW d \in ToGo[EndOf(e)]
               PROVE  AboveFront(Plus(e.g_score, d.cost))
    BY <1>2 DEF HeadsAboveFront
  <2>1. e.g_score = Zero /\ EndOf(e) \in problem.initialNodes
    BY <1>1, <1>4 DEF EndOf
  <2>2. d.cost \in CostVector
    BY <1>1, <1>3, <2>1, ReferenceTyped DEF ToGo
  <2>3. Plus(e.g_score, d.cost) = d.cost
    BY <2>1, <2>2, SumWithZero
  <2>4. QED
    BY <1>1, <2>1, <2>3, FrontOfReference DEF AboveFront, ParetoFront, ToGo
<1>6. AllFrontAhead
  <2> SUFFICES ASSUME NEW c \in ParetoFront PROVE \E k \in Nat : Covered(c, k)
    BY DEF AllFrontAhead
  <2>1. PICK n \in problem.initialNodes : \E d \in ToGo[n] : d.cost = c
    BY <1>1, FrontOfReference DEF ParetoFront, ToGo
  <2>2. PICK d \in ToGo[n] : d.cost = c
    BY <2>1
  <2>3. PICK id \in DOMAIN m_init_nodes : m_init_nodes[id] = n
    BY <1>3 DEF Range
  <2> DEFINE e == [node |-> id, g_score |-> Zero]
  <2>4. e \in open_set /\ EndOf(e) = n
    BY <1>1, <1>4, <2>3 DEF EndOf
  <2>5. d.cost \in CostVector /\ d.hops \in Nat
    BY <1>1, <1>3, <2>1, ReferenceTyped DEF ToGo
  <2>6. Plus(e.g_score, d.cost) = c
    BY <2>2, <2>5, SumWithZero
  <2>7. d.hops < d.hops + 1 /\ d.hops + 1 \in Nat
    BY <2>5
  <2>8. OpenLeadsTo(c, d.hops + 1)
    BY <2>4, <2>6, <2>7 DEF OpenLeadsTo
  <2>9. QED
    BY <2>7, <2>8 DEF Covered
<1>7. QED
  BY <1>1, <1>2, <1>5, <1>6
     DEF PInv, TakenInOrder, ExpandedSettled, OnlyFrontFound

\* What a step has to do to keep everything settled, and all of the front ahead:
\* it takes no head back in the order, and covers what was covered.
LEMMA StepSettles ==
    ASSUME IInv, PInv, UNCHANGED problem, Reported \subseteq Reported',
           \A c \in ParetoFront \ Reported' : \A k \in Nat : Covered(c, k) => Covered(c, k)',
           \A x \in Nat : (\A e \in Heads : x <= f_score(e)[1])
                             => \A e \in Heads' : x <= f_score(e)[1]'
    PROVE  /\ GoodProblem' /\ AllFrontAhead'
           /\ \A n \in Nodes : \A v \in CostVector : Settled(n, v) => Settled(n, v)'
<1>1. ParetoFront' = ParetoFront /\ ToGo' = ToGo
  BY DEF ParetoFront, ToGo
<1>2. GoodProblem'
  BY DEF PInv, GoodProblem
<1>3. AllFrontAhead'
  BY <1>1 DEF PInv, AllFrontAhead
<1>4. ASSUME NEW n \in Nodes, NEW v \in CostVector, Settled(n, v)
      PROVE  Settled(n, v)'
  <2>1. v[1] + hScore(problem, n)[1] \in Nat
    <3>1. v[1] \in Nat /\ hScore(problem, n)[1] \in Nat
      BY ReferenceTyped, TwoComponents DEF IInv, Numbered
    <3>2. QED
      BY <3>1
  <2>2. \A e \in Heads' : v[1] + hScore(problem, n)[1] <= f_score(e)[1]'
    BY <1>4, <2>1 DEF Settled
  <2>3. \A d \in ToGo[n] : AboveFront(Plus(v, d.cost))'
    BY <1>1, <1>4 DEF Settled, AboveFront
  <2>4. \A d \in ToGo[n] : Plus(v, d.cost) \in ParetoFront \ Reported'
                              => Covered(Plus(v, d.cost), d.hops)'
    <3>1. \A d \in ToGo[n] : d.hops \in Nat
      BY ReferenceTyped DEF IInv, Numbered, ToGo
    <3>2. QED
      BY <1>4, <3>1 DEF Settled
  <2>5. QED
    BY <1>1, <2>2, <2>3, <2>4 DEF Settled
<1>5. QED
  BY <1>2, <1>3, <1>4

\* While no walk is numbered, what is known of the walks stays.
LEMMA SameWalks ==
    ASSUME UNCHANGED <<problem, m_init_nodes, m_map>>
    PROVE  /\ ToGo' = ToGo /\ ParetoFront' = ParetoFront
           /\ \A e : EndOf(e)' = EndOf(e) /\ f_score(e)' = f_score(e)
           /\ \A v : AboveFront(v)' = AboveFront(v)
<1>1. ToGo' = ToGo /\ ParetoFront' = ParetoFront
  BY DEF ToGo, ParetoFront
<1>2. \A id : getNode(id)' = getNode(id)
  BY DEF getNode, isInit
<1>3. \A e : EndOf(e)' = EndOf(e) /\ f_score(e)' = f_score(e)
  BY <1>2 DEF EndOf, f_score, hScore
<1>4. \A v : AboveFront(v)' = AboveFront(v)
  BY <1>1 DEF AboveFront
<1>5. QED
  BY <1>1, <1>3, <1>4

\* A walk that is ignored leaves everything ahead.
LEMMA SkipPrunedPInv == IInv /\ PInv /\ SkipPruned => PInv'
<1> SUFFICES ASSUME IInv, PInv, SkipPruned PROVE PInv'
  OBVIOUS
<1>1. PICK e \in open_set : Pruned(e) /\ open_set' = open_set \ {e}
  BY DEF SkipPruned
<1>2. /\ UNCHANGED <<problem, pc, m_init_nodes, m_map, g_2_min, g_2_min_goal, curr, i, result>>
      /\ pc = "loop"
  BY DEF SkipPruned
<1>3. /\ Heads = open_set /\ Heads' = open_set \ {e}
      /\ Found' = Found /\ Reported' = Reported
  BY <1>1, <1>2 DEF Heads, Found, Reported
<1>4. /\ ToGo' = ToGo /\ ParetoFront' = ParetoFront
      /\ \A o : EndOf(o)' = EndOf(o) /\ f_score(o)' = f_score(o)
      /\ \A v : AboveFront(v)' = AboveFront(v)
  BY <1>2, SameWalks
<1>5. /\ e \in Heads /\ EndOf(e) \in Nodes /\ e.g_score \in CostVector
      /\ f_score(e) = Plus(e.g_score, hScore(problem, EndOf(e)))
      /\ hScore(problem, EndOf(e)) \in CostVector
      /\ problem \in Problems
  BY <1>3, HeadTyped, ReferenceTyped DEF IInv, Numbered
<1>6. ASSUME NEW c \in ParetoFront \ Reported, NEW k \in Nat, OpenLeadsTo(c, k)
      PROVE  \E o \in open_set \ {e} : \E d \in ToGo[EndOf(o)] :
                d.hops < k /\ Plus(o.g_score, d.cost) = c
  <2>1. PICK o \in open_set : \E d \in ToGo[EndOf(o)] : d.hops < k /\ Plus(o.g_score, d.cost) = c
    BY <1>6 DEF OpenLeadsTo
  <2>2. PICK d \in ToGo[EndOf(o)] : d.hops < k /\ Plus(o.g_score, d.cost) = c
    BY <2>1
  <2>3. CASE o # e
    BY <2>2, <2>3
  <2>4. CASE o = e
    <3>1. ~ PrunedAtGoal(f_score(e))
      BY <2>2, <2>4, PrunedIsReported
    <3>2. PrunedAtNode(EndOf(e), e.g_score)
      BY <1>1, <3>1 DEF Pruned, EndOf
    <3>3. f_score(e)[1] <= e.g_score[1] + hScore(problem, EndOf(e))[1]
      <4>1. f_score(e)[1] = e.g_score[1] + hScore(problem, EndOf(e))[1]
        BY <1>5, TwoComponents
      <4>2. e.g_score[1] \in Nat /\ hScore(problem, EndOf(e))[1] \in Nat
        BY <1>5, TwoComponents
      <4>3. QED
        BY <4>1, <4>2
    <3>4. Covered(c, d.hops)
      BY <1>5, <2>2, <2>4, <3>2, <3>3, PrunedIsCovered
    <3>5. PICK q \in open_set : \E b \in ToGo[EndOf(q)] : b.hops < d.hops /\ Plus(q.g_score, b.cost) = c
      BY <1>2, <3>4 DEF Covered, OpenLeadsTo
    <3>6. PICK b \in ToGo[EndOf(q)] : b.hops < d.hops /\ Plus(q.g_score, b.cost) = c
      BY <3>5
    <3>7. d.hops \in Nat /\ b.hops \in Nat /\ d.cost \in CostVector /\ b.cost \in CostVector
      BY <1>3, <2>4, HeadBelow
    <3>8. q # e
      <4> SUFFICES ASSUME q = e PROVE FALSE
        OBVIOUS
      <4>1. b.cost = d.cost
        BY <1>5, <2>2, <2>4, <3>6, <3>7, SumCancels
      <4>2. b = d
        BY <1>5, <2>4, <4>1, ReferenceTyped DEF ToGo
      <4>3. QED
        BY <3>6, <3>7, <4>2
    <3>9. b.hops < k
      BY <2>2, <2>4, <3>6, <3>7
    <3>10. QED
      BY <3>6, <3>8, <3>9
  <2>5. QED
    BY <2>3, <2>4
<1>7. \A c \in ParetoFront \ Reported' : \A k \in Nat : Covered(c, k) => Covered(c, k)'
  BY <1>1, <1>2, <1>3, <1>4, <1>6 DEF Covered, OpenLeadsTo
<1>8. \A x \in Nat : (\A o \in Heads : x <= f_score(o)[1]) => \A o \in Heads' : x <= f_score(o)[1]'
  BY <1>3, <1>4
<1>9. /\ GoodProblem' /\ AllFrontAhead'
      /\ \A n \in Nodes : \A v \in CostVector : Settled(n, v) => Settled(n, v)'
  BY <1>2, <1>3, <1>7, <1>8, StepSettles
<1>10. HeadsAboveFront'
  BY <1>3, <1>4 DEF PInv, HeadsAboveFront
<1>11. TakenInOrder'
  BY <1>2, <1>3, <1>4 DEF PInv, TakenInOrder
<1>12. ExpandedSettled'
  BY <1>2, <1>9 DEF PInv, ExpandedSettled
<1>13. OnlyFrontFound'
  BY <1>2, <1>3, <1>4 DEF PInv, OnlyFrontFound
<1>14. QED
  BY <1>9, <1>10, <1>11, <1>12, <1>13 DEF PInv

\* The edges of a node that is expanded lead on to all that its walk leads to.
LEMMA ExpandPInv == IInv /\ PInv /\ Expand => PInv'
<1> SUFFICES ASSUME IInv, PInv, Expand PROVE PInv'
  OBVIOUS
<1>1. PICK e \in open_set :
         /\ Top(e) /\ ~ Pruned(e)
         /\ ~ goal(problem, getNode(e.node))
         /\ open_set' = open_set \ {e}
         /\ g_2_min' = Assign(g_2_min, getNode(e.node), e.g_score[2])
         /\ curr' = e
  BY DEF Expand
<1>2. /\ UNCHANGED <<problem, m_init_nodes, m_map, g_2_min_goal, result>>
      /\ pc = "loop" /\ pc' = "neighbors" /\ i' = 1
  BY DEF Expand
<1>3. /\ Heads = open_set /\ Heads' = open_set
      /\ Found = Reported /\ Found' = Reported /\ Reported' = Reported
  BY <1>1, <1>2 DEF Heads, Found, Reported
<1>4. /\ ToGo' = ToGo /\ ParetoFront' = ParetoFront
      /\ \A o : EndOf(o)' = EndOf(o) /\ f_score(o)' = f_score(o)
      /\ \A v : AboveFront(v)' = AboveFront(v)
  BY <1>2, SameWalks
<1>m. PICK m \in Nodes : m = EndOf(e)
  BY <1>3, HeadTyped
<1>5. /\ e \in Heads /\ m \in Nodes /\ e.g_score \in CostVector
      /\ f_score(e) = Plus(e.g_score, hScore(problem, m))
      /\ hScore(problem, m) \in CostVector
      /\ problem \in Problems /\ ~ goal(problem, m) /\ curr_node' = m
  BY <1>1, <1>2, <1>3, <1>m, HeadTyped, ReferenceTyped DEF IInv, Numbered, EndOf, curr_node, getNode, isInit
<1>6. ASSUME NEW d \in ToGo[m], NEW k \in Nat, d.hops <= k
      PROVE  Covered(Plus(e.g_score, d.cost), k)'
  <2>1. PICK j \in DOMAIN neighborEdges(problem, m) :
          \E c \in ToGo[neighborEdges(problem, m)[j].to] :
            /\ c.hops < d.hops
            /\ Plus(Plus(e.g_score, neighborEdges(problem, m)[j].cost), c.cost)
                 = Plus(e.g_score, d.cost)
    BY <1>5, EdgeAhead
  <2>2. PICK c \in ToGo[neighborEdges(problem, m)[j].to] :
            /\ c.hops < d.hops
            /\ Plus(Plus(e.g_score, neighborEdges(problem, m)[j].cost), c.cost)
                 = Plus(e.g_score, d.cost)
    BY <2>1
  <2>3. 1 <= j
    BY <1>5, <2>1, EdgeTyped
  <2>4. c.hops \in Nat /\ d.hops \in Nat
    BY <1>5, <2>1, ReferenceTyped, ReferenceOfEdge DEF ToGo
  <2>5. c.hops < k
    BY <1>6, <2>2, <2>4
  <2>6. EdgeLeadsTo(Plus(e.g_score, d.cost), k, j)'
    BY <1>1, <1>2, <1>4, <1>5, <2>2, <2>5 DEF EdgeLeadsTo
  <2>7. QED
    BY <1>2, <1>5, <2>1, <2>3, <2>6 DEF Covered
<1>7. ASSUME NEW c \in ParetoFront \ Reported', NEW k \in Nat, Covered(c, k)
      PROVE  Covered(c, k)'
  <2>1. PICK o \in open_set : \E d \in ToGo[EndOf(o)] : d.hops < k /\ Plus(o.g_score, d.cost) = c
    BY <1>2, <1>7 DEF Covered, OpenLeadsTo
  <2>2. PICK d \in ToGo[EndOf(o)] : d.hops < k /\ Plus(o.g_score, d.cost) = c
    BY <2>1
  <2>3. CASE o # e
    BY <1>1, <1>4, <2>2, <2>3 DEF Covered, OpenLeadsTo
  <2>4. CASE o = e
    <3>1. d.hops \in Nat
      BY <1>3, HeadBelow
    <3>2. QED
      BY <1>6, <1>m, <2>2, <2>4, <3>1
  <2>5. QED
    BY <2>3, <2>4
<1>8. \A x \in Nat : (\A o \in Heads : x <= f_score(o)[1]) => \A o \in Heads' : x <= f_score(o)[1]'
  BY <1>3, <1>4
<1>9. /\ GoodProblem' /\ AllFrontAhead'
      /\ \A n \in Nodes : \A v \in CostVector : Settled(n, v) => Settled(n, v)'
  BY <1>2, <1>3, <1>7, <1>8, StepSettles
<1>10. HeadsAboveFront'
  BY <1>3, <1>4 DEF PInv, HeadsAboveFront
<1>11. \A o \in open_set : f_score(e)[1] <= f_score(o)[1]
  <2> SUFFICES ASSUME NEW o \in open_set PROVE f_score(e)[1] <= f_score(o)[1]
    OBVIOUS
  <2>1. f_score(o) \in CostVector /\ f_score(e) \in CostVector
    BY <1>3, HeadTyped
  <2>2. ~ (f_score(o)[1] < f_score(e)[1])
    BY <1>1, <2>1, TwoComponents DEF Top
  <2>3. QED
    BY <2>1, <2>2, TwoComponents
<1>12. TakenInOrder'
  <2>1. ~ PrunedAtGoal(f_score(curr))'
    BY <1>1, <1>2, <1>4 DEF Pruned, PrunedAtGoal
  <2>2. \A c \in Found' : \A o \in Heads' : c[1] <= f_score(o)[1]'
    BY <1>3, <1>4 DEF PInv, TakenInOrder
  <2>3. \A o \in open_set' : f_score(curr)[1]' <= f_score(o)[1]'
    BY <1>1, <1>4, <1>11
  <2>4. QED
    BY <1>2, <2>1, <2>2, <2>3 DEF TakenInOrder
<1>13. Settled(m, e.g_score)'
  <2>1. \A o \in Heads' : e.g_score[1] + hScore(problem, m)[1]' <= f_score(o)[1]'
    <3>1. f_score(e)[1] = e.g_score[1] + hScore(problem, m)[1]
      BY <1>5, TwoComponents
    <3>2. QED
      BY <1>2, <1>3, <1>4, <1>11, <3>1
  <2>2. \A d \in ToGo[m] : AboveFront(Plus(e.g_score, d.cost))'
    BY <1>4, <1>5, <1>m DEF PInv, HeadsAboveFront
  <2>3. \A d \in ToGo[m] : Covered(Plus(e.g_score, d.cost), d.hops)'
    <3>1. \A d \in ToGo[m] : d.hops \in Nat /\ d.hops <= d.hops
      BY <1>5, ReferenceTyped DEF ToGo
    <3>2. QED
      BY <1>6, <3>1
  <2>4. QED
    BY <1>2, <1>4, <2>1, <2>2, <2>3 DEF Settled
<1>14. ExpandedSettled'
  <2> SUFFICES ASSUME NEW n \in DOMAIN g_2_min'
               PROVE  n \in Nodes /\ \E v \in CostVector : v[2] = g_2_min'[n] /\ Settled(n, v)'
    BY DEF ExpandedSettled
  <2>1. CASE n = m
    <3>1. g_2_min' = Assign(g_2_min, n, e.g_score[2])
      BY <1>1, <1>m, <2>1 DEF EndOf
    <3>2. g_2_min'[n] = e.g_score[2]
      BY <3>1 DEF Assign
    <3>3. QED
      BY <1>5, <1>13, <2>1, <3>2
  <2>2. CASE n # m
    <3>1. n \in DOMAIN g_2_min /\ g_2_min'[n] = g_2_min[n]
      BY <1>1, <1>m, <2>2 DEF Assign, EndOf
    <3>2. QED
      BY <1>9, <3>1 DEF PInv, ExpandedSettled
  <2>3. QED
    BY <2>1, <2>2
<1>15. OnlyFrontFound'
  BY <1>2, <1>3, <1>4 DEF PInv, OnlyFrontFound
<1>16. QED
  BY <1>9, <1>10, <1>12, <1>14, <1>15 DEF PInv

\* A popped goal is found itself.
LEMMA ReachGoalPInv == IInv /\ FInv /\ PInv /\ ReachGoal => PInv'
<1> SUFFICES ASSUME IInv, FInv, PInv, ReachGoal PROVE PInv'
  OBVIOUS
<1>1. PICK e \in open_set :
         /\ Top(e) /\ ~ Pruned(e)
         /\ goal(problem, getNode(e.node))
         /\ open_set' = open_set \ {e}
         /\ g_2_min' = Assign(g_2_min, getNode(e.node), e.g_score[2])
         /\ curr' = e
  BY DEF ReachGoal
<1>2. /\ UNCHANGED <<problem, m_init_nodes, m_map, g_2_min_goal>>
      /\ pc = "loop" /\ pc' = "extract" /\ result'.pf = result.pf
  BY DEF ReachGoal, IInv, ResultIsSolutions, Result
<1>3. /\ Heads = open_set /\ Heads' = open_set \ {e}
      /\ Found = Reported /\ Found' = Reported \cup {e.g_score} /\ Reported' = Reported
  BY <1>1, <1>2 DEF Heads, Found, Reported
<1>4. /\ ToGo' = ToGo /\ ParetoFront' = ParetoFront
      /\ \A o : EndOf(o)' = EndOf(o) /\ f_score(o)' = f_score(o)
      /\ \A v : AboveFront(v)' = AboveFront(v)
  BY <1>2, SameWalks
<1>m. PICK m \in Nodes : m = EndOf(e)
  BY <1>3, HeadTyped
<1>5. /\ e \in Heads /\ m \in Nodes /\ e.g_score \in CostVector
      /\ f_score(e) = Plus(e.g_score, hScore(problem, m))
      /\ hScore(problem, m) \in CostVector
      /\ problem \in Problems /\ goal(problem, m)
  BY <1>1, <1>3, <1>m, HeadTyped, ReferenceTyped DEF IInv, Numbered, EndOf
<1>6. e.g_score \in ParetoFront
  BY <1>1, <1>2, PoppedGoalInFront
<1>7. \A d \in ToGo[m] : Plus(e.g_score, d.cost) = e.g_score
  BY <1>5, NothingToGo, SumWithZero
<1>8. ASSUME NEW c \in ParetoFront \ Reported', NEW k \in Nat, Covered(c, k)
      PROVE  Covered(c, k)'
  <2>1. PICK o \in open_set : \E d \in ToGo[EndOf(o)] : d.hops < k /\ Plus(o.g_score, d.cost) = c
    BY <1>2, <1>8 DEF Covered, OpenLeadsTo
  <2>2. CASE o # e
    BY <1>1, <1>4, <2>1, <2>2 DEF Covered, OpenLeadsTo
  <2>3. CASE o = e
    BY <1>1, <1>2, <1>7, <1>m, <2>1, <2>3 DEF Covered
  <2>4. QED
    BY <2>2, <2>3
<1>9. \A x \in Nat : (\A o \in Heads : x <= f_score(o)[1]) => \A o \in Heads' : x <= f_score(o)[1]'
  BY <1>3, <1>4
<1>10. /\ GoodProblem' /\ AllFrontAhead'
       /\ \A n \in Nodes : \A v \in CostVector : Settled(n, v) => Settled(n, v)'
  BY <1>2, <1>3, <1>8, <1>9, StepSettles
<1>11. HeadsAboveFront'
  BY <1>3, <1>4 DEF PInv, HeadsAboveFront
<1>12. \A o \in open_set : /\ e.g_score[1] + hScore(problem, m)[1] <= f_score(o)[1]
                           /\ e.g_score[1] <= f_score(o)[1]
  <2> SUFFICES ASSUME NEW o \in open_set
               PROVE  /\ e.g_score[1] + hScore(problem, m)[1] <= f_score(o)[1]
                      /\ e.g_score[1] <= f_score(o)[1]
    OBVIOUS
  <2>1. f_score(o) \in CostVector /\ f_score(e) \in CostVector
    BY <1>3, HeadTyped
  <2>2. ~ (f_score(o)[1] < f_score(e)[1])
    BY <1>1, <2>1, TwoComponents DEF Top
  <2>3. /\ f_score(e)[1] = e.g_score[1] + hScore(problem, m)[1]
        /\ f_score(o)[1] \in Nat /\ e.g_score[1] \in Nat /\ hScore(problem, m)[1] \in Nat
    BY <1>5, <2>1, TwoComponents
  <2>4. QED
    BY <2>2, <2>3
<1>13. TakenInOrder'
  <2>1. \A c \in Found' : \A o \in Heads' : c[1] <= f_score(o)[1]'
    BY <1>3, <1>4, <1>12 DEF PInv, TakenInOrder
  <2>2. QED
    BY <1>2, <2>1 DEF TakenInOrder
<1>14. Settled(m, e.g_score)'
  <2>1. \A o \in Heads' : e.g_score[1] + hScore(problem, m)[1]' <= f_score(o)[1]'
    BY <1>2, <1>3, <1>4, <1>12
  <2>2. \A d \in ToGo[m] : AboveFront(Plus(e.g_score, d.cost))'
    BY <1>4, <1>5, <1>m DEF PInv, HeadsAboveFront
  <2>3. \A d \in ToGo[m] : Covered(Plus(e.g_score, d.cost), d.hops)'
    BY <1>1, <1>2, <1>7 DEF Covered
  <2>4. QED
    BY <1>2, <1>4, <2>1, <2>2, <2>3 DEF Settled
<1>15. ExpandedSettled'
  <2> SUFFICES ASSUME NEW n \in DOMAIN g_2_min'
               PROVE  n \in Nodes /\ \E v \in CostVector : v[2] = g_2_min'[n] /\ Settled(n, v)'
    BY DEF ExpandedSettled
  <2>1. CASE n = m
    <3>1. g_2_min' = Assign(g_2_min, n, e.g_score[2])
      BY <1>1, <1>m, <2>1 DEF EndOf
    <3>2. g_2_min'[n] = e.g_score[2]
      BY <3>1 DEF Assign
    <3>3. QED
      BY <1>5, <1>14, <2>1, <3>2
  <2>2. CASE n # m
    <3>1. n \in DOMAIN g_2_min /\ g_2_min'[n] = g_2_min[n]
      BY <1>1, <1>m, <2>2 DEF Assign, EndOf
    <3>2. QED
      BY <1>10, <3>1 DEF PInv, ExpandedSettled
  <2>3. QED
    BY <2>1, <2>2
<1>16. OnlyFrontFound'
  BY <1>2, <1>3, <1>4, <1>6 DEF PInv, OnlyFrontFound
<1>17. QED
  BY <1>10, <1>11, <1>13, <1>15, <1>16 DEF PInv

\* The neighbor looked at, and how its walk stands to the one being expanded.
LEMMA NeighborFacts ==
    ASSUME IInv, PInv, pc = "neighbors", MoreNeighbors
    PROVE  /\ curr \in Heads /\ curr_node = EndOf(curr) /\ curr_node \in Nodes
           /\ i \in DOMAIN neighborEdges(problem, curr_node)
           /\ ToNeighbor.to \in Nodes /\ ToNeighbor.cost \in CostVector
           /\ tentative_g_score = Plus(curr.g_score, ToNeighbor.cost)
           /\ tentative_g_score \in CostVector
           /\ f_score(curr)[1]
                <= tentative_g_score[1] + hScore(problem, ToNeighbor.to)[1]
<1>1. curr \in Heads /\ curr_node = EndOf(curr)
  BY DEF Heads, curr_node, EndOf
<1>2. /\ curr_node \in Nodes /\ curr.g_score \in CostVector
      /\ f_score(curr) = Plus(curr.g_score, hScore(problem, curr_node))
  BY <1>1, HeadTyped
<1>3. problem \in Problems /\ i \in DOMAIN neighborEdges(problem, curr_node)
  BY DEF IInv, Numbered, MoreNeighbors
<1>4. ToNeighbor.to \in Nodes /\ ToNeighbor.cost \in CostVector
  BY <1>2, <1>3, ReferenceOfEdge DEF ToNeighbor
<1>5. tentative_g_score = Plus(curr.g_score, ToNeighbor.cost)
  BY <1>2, <1>3, ScoreAdds DEF PInv, GoodProblem, tentative_g_score, ToNeighbor
<1>6. tentative_g_score \in CostVector
  BY <1>2, <1>4, <1>5, CostOrder
<1>7. Leq(hScore(problem, curr_node), Plus(ToNeighbor.cost, hScore(problem, ToNeighbor.to)))
  BY <1>2, <1>3 DEF PInv, GoodProblem, Consistent, ToNeighbor, neighborEdges
<1>8. /\ hScore(problem, curr_node) \in CostVector
      /\ hScore(problem, ToNeighbor.to) \in CostVector
  BY <1>2, <1>3, <1>4, ReferenceTyped
<1>9. /\ f_score(curr)[1] = curr.g_score[1] + hScore(problem, curr_node)[1]
      /\ tentative_g_score[1] = curr.g_score[1] + ToNeighbor.cost[1]
      /\ curr.g_score[1] \in Nat /\ ToNeighbor.cost[1] \in Nat
      /\ hScore(problem, curr_node)[1] \in Nat /\ hScore(problem, ToNeighbor.to)[1] \in Nat
  BY <1>2, <1>4, <1>5, <1>8, TwoComponents
<1>10. hScore(problem, curr_node)[1] <= ToNeighbor.cost[1] + hScore(problem, ToNeighbor.to)[1]
  <2>1. /\ Plus(ToNeighbor.cost, hScore(problem, ToNeighbor.to)) \in CostVector
        /\ Plus(ToNeighbor.cost, hScore(problem, ToNeighbor.to))[1]
             = ToNeighbor.cost[1] + hScore(problem, ToNeighbor.to)[1]
    <3>1. Plus(ToNeighbor.cost, hScore(problem, ToNeighbor.to)) \in CostVector
      BY <1>4, <1>8, CostOrder
    <3>2. QED
      BY <1>4, <1>8, <3>1, TwoComponents
  <2>2. hScore(problem, curr_node)[1]
          <= Plus(ToNeighbor.cost, hScore(problem, ToNeighbor.to))[1]
    BY <1>7, <1>8, <2>1, TwoComponents
  <2>3. QED
    BY <2>1, <2>2
<1>11. f_score(curr)[1] <= tentative_g_score[1] + hScore(problem, ToNeighbor.to)[1]
  BY <1>9, <1>10
<1>12. QED
  BY <1>1, <1>2, <1>3, <1>4, <1>5, <1>6, <1>11

\* A neighbor that is skipped is at a node that was expanded at no higher cost.
LEMMA SkipNeighborPInv == IInv /\ PInv /\ SkipNeighbor => PInv'
<1> SUFFICES ASSUME IInv, PInv, SkipNeighbor PROVE PInv'
  OBVIOUS
<1>1. /\ UNCHANGED <<problem, pc, open_set, m_init_nodes, m_map, g_2_min, g_2_min_goal,
                     curr, result>>
      /\ pc = "neighbors" /\ MoreNeighbors /\ PruneNeighbor /\ i' = i + 1
  BY DEF SkipNeighbor
<1>2. /\ Heads' = Heads /\ Found' = Found /\ Reported' = Reported
      /\ curr_node' = curr_node
  BY <1>1 DEF Heads, Found, Reported, curr_node, getNode, isInit
<1>3. /\ ToGo' = ToGo /\ ParetoFront' = ParetoFront
      /\ \A o : EndOf(o)' = EndOf(o) /\ f_score(o)' = f_score(o)
      /\ \A v : AboveFront(v)' = AboveFront(v)
  BY <1>1, SameWalks
<1>4. /\ curr \in Heads /\ curr_node \in Nodes
      /\ i \in DOMAIN neighborEdges(problem, curr_node) /\ i \in Nat
      /\ ToNeighbor.to \in Nodes /\ ToNeighbor.cost \in CostVector
      /\ tentative_g_score = Plus(curr.g_score, ToNeighbor.cost)
      /\ tentative_g_score \in CostVector
      /\ f_score(curr)[1] <= tentative_g_score[1] + hScore(problem, ToNeighbor.to)[1]
  BY <1>1, NeighborFacts DEF PInv, TakenInOrder
<1>5. PrunedAtNode(ToNeighbor.to, tentative_g_score)
  BY <1>1 DEF PruneNeighbor, PInv, TakenInOrder
<1>6. ASSUME NEW c, NEW k \in Nat,
             NEW j \in DOMAIN neighborEdges(problem, curr_node), i <= j, j # i, EdgeLeadsTo(c, k, j)
      PROVE  Covered(c, k)'
  <2>1. EdgeLeadsTo(c, k, j)'
    BY <1>1, <1>2, <1>3, <1>6 DEF EdgeLeadsTo
  <2>2. j \in Nat
    BY <1>1, <1>4, EdgeTyped DEF IInv, Numbered
  <2>3. i' <= j
    BY <1>1, <1>4, <1>6, <2>2
  <2>4. QED
    BY <1>1, <1>2, <2>1, <2>3 DEF Covered
<1>7. ASSUME NEW c, NEW k \in Nat, OpenLeadsTo(c, k)
      PROVE  Covered(c, k)'
  BY <1>1, <1>3, <1>7 DEF Covered, OpenLeadsTo
<1>8. ASSUME NEW c \in ParetoFront \ Reported', NEW k \in Nat, Covered(c, k)
      PROVE  Covered(c, k)'
  <2>1. CASE OpenLeadsTo(c, k)
    BY <1>7, <2>1
  <2>2. CASE ~ OpenLeadsTo(c, k)
    <3>1. PICK j \in DOMAIN neighborEdges(problem, curr_node) : i <= j /\ EdgeLeadsTo(c, k, j)
      BY <1>1, <1>8, <2>2 DEF Covered
    <3>2. CASE j # i
      BY <1>6, <3>1, <3>2
    <3>3. CASE j = i
      <4>1. PICK d \in ToGo[ToNeighbor.to] :
              d.hops < k /\ Plus(tentative_g_score, d.cost) = c
        BY <1>4, <3>1, <3>3 DEF EdgeLeadsTo, ToNeighbor
      <4>2. d.hops \in Nat /\ d.cost \in CostVector
        BY <1>4, ReferenceTyped DEF ToGo, IInv, Numbered
      <4>3. Covered(c, d.hops)
        BY <1>2, <1>4, <1>5, <1>8, <4>1, PrunedIsCovered
      <4>4. CASE OpenLeadsTo(c, d.hops)
        <5>1. PICK o \in open_set : \E b \in ToGo[EndOf(o)] :
                b.hops < d.hops /\ Plus(o.g_score, b.cost) = c
          BY <4>4 DEF OpenLeadsTo
        <5>2. PICK b \in ToGo[EndOf(o)] : b.hops < d.hops /\ Plus(o.g_score, b.cost) = c
          BY <5>1
        <5>3. b.hops \in Nat
          BY HeadBelow DEF Heads
        <5>4. OpenLeadsTo(c, k)
          BY <4>1, <4>2, <5>2, <5>3 DEF OpenLeadsTo
        <5>5. QED
          BY <2>2, <5>4
      <4>5. CASE ~ OpenLeadsTo(c, d.hops)
        <5>1. PICK l \in DOMAIN neighborEdges(problem, curr_node) :
                i <= l /\ EdgeLeadsTo(c, d.hops, l)
          BY <1>1, <4>3, <4>5 DEF Covered
        <5>2. PICK b \in ToGo[neighborEdges(problem, curr_node)[l].to] :
                /\ b.hops < d.hops
                /\ Plus(Plus(curr.g_score, neighborEdges(problem, curr_node)[l].cost), b.cost) = c
          BY <5>1 DEF EdgeLeadsTo
        <5>3. b.hops \in Nat /\ b.cost \in CostVector
          BY <1>4, <5>1, ReferenceTyped, ReferenceOfEdge DEF ToGo, IInv, Numbered
        <5>4. l # i
          <6> SUFFICES ASSUME l = i PROVE FALSE
            OBVIOUS
          <6>1. b \in ToGo[ToNeighbor.to] /\ Plus(tentative_g_score, b.cost) = c
            BY <1>4, <5>2 DEF ToNeighbor
          <6>2. b.cost = d.cost
            BY <1>4, <4>1, <4>2, <5>3, <6>1, SumCancels
          <6>3. b = d
            BY <1>4, <6>1, <6>2, ReferenceTyped DEF ToGo, IInv, Numbered
          <6>4. QED
            BY <4>2, <5>2, <6>3
        <5>5. EdgeLeadsTo(c, k, l)
          <6>1. b.hops < k
            BY <4>1, <4>2, <5>2, <5>3
          <6>2. QED
            BY <5>2, <6>1 DEF EdgeLeadsTo
        <5>6. QED
          BY <1>6, <5>1, <5>4, <5>5
      <4>6. QED
        BY <4>4, <4>5
    <3>4. QED
      BY <3>2, <3>3
  <2>3. QED
    BY <2>1, <2>2
<1>9. \A x \in Nat : (\A o \in Heads : x <= f_score(o)[1]) => \A o \in Heads' : x <= f_score(o)[1]'
  BY <1>2, <1>3
<1>10. /\ GoodProblem' /\ AllFrontAhead'
       /\ \A n \in Nodes : \A v \in CostVector : Settled(n, v) => Settled(n, v)'
  BY <1>1, <1>2, <1>8, <1>9, StepSettles
<1>11. HeadsAboveFront'
  BY <1>2, <1>3 DEF PInv, HeadsAboveFront
<1>12. TakenInOrder'
  <2>1. f_score(curr)' = f_score(curr) /\ (PrunedAtGoal(f_score(curr)) => FALSE)
    BY <1>1 DEF PInv, TakenInOrder, f_score, hScore, getNode, isInit
  <2>2. ~ PrunedAtGoal(f_score(curr))'
    BY <1>1, <2>1 DEF PrunedAtGoal
  <2>3. QED
    BY <1>1, <1>2, <1>3, <1>4, <2>1, <2>2 DEF PInv, TakenInOrder
<1>13. ExpandedSettled'
  BY <1>1, <1>10 DEF PInv, ExpandedSettled
<1>14. OnlyFrontFound'
  BY <1>1, <1>2, <1>3 DEF PInv, OnlyFrontFound
<1>15. QED
  BY <1>10, <1>11, <1>12, <1>13, <1>14 DEF PInv

\* When the neighbors are through, no edge is left to try.
LEMMA EndNeighborsPInv == IInv /\ PInv /\ EndNeighbors => PInv'
<1> SUFFICES ASSUME IInv, PInv, EndNeighbors PROVE PInv'
  OBVIOUS
<1>1. /\ UNCHANGED <<problem, open_set, m_init_nodes, m_map, g_2_min, g_2_min_goal,
                     curr, i, result>>
      /\ pc = "neighbors" /\ pc' = "loop" /\ ~ MoreNeighbors
  BY DEF EndNeighbors
<1>2. /\ Heads' \subseteq Heads /\ Heads' = open_set /\ Found' = Found /\ Reported' = Reported
  BY <1>1 DEF Heads, Found, Reported
<1>3. /\ ToGo' = ToGo /\ ParetoFront' = ParetoFront
      /\ \A o : EndOf(o)' = EndOf(o) /\ f_score(o)' = f_score(o)
      /\ \A v : AboveFront(v)' = AboveFront(v)
  BY <1>1, SameWalks
<1>4. \A j \in DOMAIN neighborEdges(problem, curr_node) : ~ (i <= j)
  <2>1. curr_node \in Nodes
    BY <1>1, HeadTyped DEF Heads, EndOf, curr_node
  <2>2. /\ neighborEdges(problem, curr_node) \in Seq(Edge)
        /\ i \in Nat \ {0} /\ i \notin DOMAIN neighborEdges(problem, curr_node)
    BY <1>1, <2>1, EdgeTyped DEF IInv, Numbered, PInv, TakenInOrder, MoreNeighbors
  <2>3. QED
    BY <2>2
<1>5. \A c \in ParetoFront \ Reported' : \A k \in Nat : Covered(c, k) => Covered(c, k)'
  BY <1>1, <1>3, <1>4 DEF Covered, OpenLeadsTo
<1>6. \A x \in Nat : (\A o \in Heads : x <= f_score(o)[1]) => \A o \in Heads' : x <= f_score(o)[1]'
  BY <1>2, <1>3
<1>7. /\ GoodProblem' /\ AllFrontAhead'
      /\ \A n \in Nodes : \A v \in CostVector : Settled(n, v) => Settled(n, v)'
  BY <1>1, <1>2, <1>5, <1>6, StepSettles
<1>8. HeadsAboveFront'
  BY <1>2, <1>3 DEF PInv, HeadsAboveFront
<1>9. TakenInOrder'
  BY <1>1, <1>2, <1>3 DEF PInv, TakenInOrder
<1>10. ExpandedSettled'
  BY <1>1, <1>7 DEF PInv, ExpandedSettled
<1>11. OnlyFrontFound'
  BY <1>1, <1>2, <1>3 DEF PInv, OnlyFrontFound
<1>12. QED
  BY <1>7, <1>8, <1>9, <1>10, <1>11 DEF PInv

\* A new walk leads where the edge it took leads.
LEMMA NewWalkPInv == IInv /\ PInv /\ NewWalk => PInv'
<1> SUFFICES ASSUME IInv, PInv, NewWalk PROVE PInv'
  OBVIOUS
<1> DEFINE value == [node |-> ToNeighbor.to, parent |-> curr.node, parent_edge |-> ToNeighbor]
<1>w. PICK w : w = m_next_node
  OBVIOUS
<1>1. /\ UNCHANGED <<problem, pc, m_init_nodes, g_2_min, g_2_min_goal, curr, result>>
      /\ pc = "neighbors" /\ MoreNeighbors /\ i' = i + 1
      /\ m_map' = Assign(m_map, w, value)
      /\ open_set' = open_set \cup {[node |-> w, g_score |-> tentative_g_score]}
  BY <1>w DEF NewWalk
<1>2. /\ curr \in Heads /\ curr_node = EndOf(curr) /\ curr_node \in Nodes
      /\ i \in DOMAIN neighborEdges(problem, curr_node) /\ i \in Nat
      /\ ToNeighbor.to \in Nodes /\ ToNeighbor.cost \in CostVector
      /\ tentative_g_score = Plus(curr.g_score, ToNeighbor.cost)
      /\ tentative_g_score \in CostVector
      /\ f_score(curr)[1] <= tentative_g_score[1] + hScore(problem, ToNeighbor.to)[1]
      /\ problem \in Problems
  BY <1>1, NeighborFacts DEF PInv, TakenInOrder, IInv, Numbered
<1>3. PICK new : new = [node |-> w, g_score |-> tentative_g_score]
  OBVIOUS
<1>4. /\ new.g_score = tentative_g_score
      /\ Heads' = Heads \cup {new} /\ open_set' = open_set \cup {new}
      /\ Found' = Found /\ Reported' = Reported
  BY <1>1, <1>3 DEF Heads, Found, Reported
<1>5. /\ ToGo' = ToGo /\ ParetoFront' = ParetoFront
      /\ \A v : AboveFront(v)' = AboveFront(v)
  BY <1>1 DEF ToGo, ParetoFront, AboveFront
<1>6. w \notin Known
  BY <1>w, NextIsNew DEF IInv
<1>7. /\ \A id \in Known : getNode(id)' = getNode(id)
      /\ getNode(w)' = ToNeighbor.to
  <2>1. /\ m_map'[w] = value
        /\ \A id \in DOMAIN m_map : m_map'[id] = m_map[id]
    BY <1>1, <1>6 DEF Assign, Known
  <2>2. QED
    BY <1>1, <1>6, <2>1 DEF Known, getNode, isInit
<1>8. \A o \in Heads : EndOf(o)' = EndOf(o) /\ f_score(o)' = f_score(o)
  BY <1>1, <1>7, HeadTyped DEF EndOf, f_score, hScore
<1>9. EndOf(new)' = ToNeighbor.to
  BY <1>3, <1>7 DEF EndOf
<1>10. f_score(curr)[1] <= f_score(new)[1]'
  <2>1. hScore(problem, ToNeighbor.to) \in CostVector
    BY <1>2, ReferenceTyped
  <2>2. f_score(new)' = Plus(tentative_g_score, hScore(problem, ToNeighbor.to))
    BY <1>1, <1>4, <1>9 DEF f_score, EndOf, hScore
  <2>3. f_score(new)[1]' = tentative_g_score[1] + hScore(problem, ToNeighbor.to)[1]
    BY <1>2, <2>1, <2>2, TwoComponents
  <2>4. QED
    BY <1>2, <2>3
<1>11. curr_node' = curr_node
  BY <1>1, <1>2, <1>7, HeadTyped DEF curr_node
<1>12. ASSUME NEW c \in ParetoFront \ Reported', NEW k \in Nat, Covered(c, k)
       PROVE  Covered(c, k)'
  <2>1. CASE OpenLeadsTo(c, k)
    <3>1. \A o \in open_set : EndOf(o)' = EndOf(o)
      BY <1>8 DEF Heads
    <3>2. QED
      BY <1>4, <1>5, <2>1, <3>1 DEF Covered, OpenLeadsTo
  <2>2. CASE ~ OpenLeadsTo(c, k)
    <3>1. PICK j \in DOMAIN neighborEdges(problem, curr_node) : i <= j /\ EdgeLeadsTo(c, k, j)
      BY <1>1, <1>12, <2>2 DEF Covered
    <3>2. CASE j = i
      <4>1. PICK d \in ToGo[ToNeighbor.to] :
              d.hops < k /\ Plus(tentative_g_score, d.cost) = c
        BY <1>2, <3>1, <3>2 DEF EdgeLeadsTo, ToNeighbor
      <4>2. QED
        BY <1>4, <1>5, <1>9, <4>1 DEF Covered, OpenLeadsTo
    <3>3. CASE j # i
      <4>1. EdgeLeadsTo(c, k, j)'
        BY <1>1, <1>5, <1>11, <3>1 DEF EdgeLeadsTo, neighborEdges
      <4>2. j \in Nat
        BY <1>2, EdgeTyped
      <4>3. i' <= j
        BY <1>1, <1>2, <3>1, <3>3, <4>2
      <4>4. j \in DOMAIN neighborEdges(problem, curr_node)'
        BY <1>1, <1>11 DEF neighborEdges
      <4>5. QED
        BY <1>1, <4>1, <4>3, <4>4 DEF Covered
    <3>4. QED
      BY <3>2, <3>3
  <2>3. QED
    BY <2>1, <2>2
<1>13. ASSUME NEW x \in Nat, \A o \in Heads : x <= f_score(o)[1]
       PROVE  \A o \in Heads' : x <= f_score(o)[1]'
  <2>1. x <= f_score(curr)[1]
    BY <1>2, <1>13
  <2>2. f_score(curr)[1] \in Nat
    BY <1>2, HeadTyped, TwoComponents
  <2>3. f_score(new)[1]' \in Nat
    <3>1. hScore(problem, ToNeighbor.to) \in CostVector
      BY <1>2, ReferenceTyped
    <3>2. f_score(new)' = Plus(tentative_g_score, hScore(problem, ToNeighbor.to))
      BY <1>1, <1>4, <1>9 DEF f_score, EndOf, hScore
    <3>3. f_score(new)' \in CostVector
      BY <1>2, <3>1, <3>2, CostOrder
    <3>4. QED
      BY <3>3, TwoComponents
  <2>4. x <= f_score(new)[1]'
    BY <1>10, <2>1, <2>2, <2>3
  <2>5. QED
    BY <1>4, <1>8, <1>13, <2>4
<1>14. /\ GoodProblem' /\ AllFrontAhead'
       /\ \A n \in Nodes : \A v \in CostVector : Settled(n, v) => Settled(n, v)'
  BY <1>1, <1>4, <1>12, <1>13, StepSettles
<1>15. HeadsAboveFront'
  <2>1. ASSUME NEW d \in ToGo[ToNeighbor.to]
        PROVE  AboveFront(Plus(tentative_g_score, d.cost))
    <3>1. d.cost \in CostVector
      BY <1>2, ReferenceTyped DEF ToGo
    <3>2. PICK b \in ToGo[curr_node] : Leq(b.cost, Plus(ToNeighbor.cost, d.cost))
      BY <1>2, ReferenceOfEdge DEF ToGo, ToNeighbor
    <3>3. b.cost \in CostVector /\ curr.g_score \in CostVector
      BY <1>2, ReferenceTyped, HeadTyped DEF ToGo
    <3>4. PICK c \in ParetoFront : Leq(c, Plus(curr.g_score, b.cost))
      BY <1>2, <3>2 DEF PInv, HeadsAboveFront, AboveFront
    <3>5. c \in CostVector
      BY <1>2, FrontOfReference DEF ParetoFront
    <3>6. Plus(ToNeighbor.cost, d.cost) \in CostVector
      BY <1>2, <3>1, CostOrder
    <3>7. Leq(Plus(curr.g_score, b.cost), Plus(curr.g_score, Plus(ToNeighbor.cost, d.cost)))
      BY <3>2, <3>3, <3>6, SumMonotone
    <3>8. Plus(curr.g_score, Plus(ToNeighbor.cost, d.cost)) = Plus(tentative_g_score, d.cost)
      BY <1>2, <3>1, <3>3, SumOrder
    <3>9. /\ Plus(curr.g_score, b.cost) \in CostVector
          /\ Plus(tentative_g_score, d.cost) \in CostVector
      BY <1>2, <3>1, <3>3, CostOrder
    <3>10. Leq(c, Plus(tentative_g_score, d.cost))
      BY <3>4, <3>5, <3>7, <3>8, <3>9, CostOrder
    <3>11. QED
      BY <3>10 DEF AboveFront
  <2>2. QED
    BY <1>4, <1>5, <1>8, <1>9, <2>1 DEF PInv, HeadsAboveFront
<1>16. TakenInOrder'
  <2>1. f_score(curr)' = f_score(curr)
    BY <1>1, <1>2, <1>8
  <2>2. ~ PrunedAtGoal(f_score(curr))'
    BY <1>1, <2>1 DEF PInv, TakenInOrder, PrunedAtGoal
  <2>3. \A o \in open_set' : f_score(curr)[1]' <= f_score(o)[1]'
    BY <1>1, <1>4, <1>8, <1>10, <2>1 DEF PInv, TakenInOrder, Heads
  <2>4. \A c \in Found' : \A o \in Heads' : c[1] <= f_score(o)[1]'
    <3> SUFFICES ASSUME NEW c \in Found PROVE \A o \in Heads' : c[1] <= f_score(o)[1]'
      BY <1>4
    <3>1. \A o \in Heads : c[1] <= f_score(o)[1]
      BY DEF PInv, TakenInOrder
    <3>2. c[1] \in Nat
      BY <1>2, FrontOfReference, TwoComponents DEF PInv, OnlyFrontFound, ParetoFront
    <3>3. QED
      BY <1>13, <3>1, <3>2
  <2>5. QED
    BY <1>1, <1>2, <2>2, <2>3, <2>4 DEF TakenInOrder
<1>17. ExpandedSettled'
  BY <1>1, <1>14 DEF PInv, ExpandedSettled
<1>18. OnlyFrontFound'
  BY <1>1, <1>4, <1>5 DEF PInv, OnlyFrontFound
<1>19. QED
  BY <1>14, <1>15, <1>16, <1>17, <1>18 DEF PInv

\* What the front reported becomes when a solution is stored.
LEMMA StoredIsReported ==
    ASSUME IInv, StoreSolution
    PROVE  Reported' = Reported \cup {curr.g_score}
<1>1. /\ result.pf \in Seq(CostVector) /\ curr.g_score \in CostVector
      /\ result'.pf = Append(result.pf, curr.g_score)
  BY DEF StoreSolution, IInv, ElementsKnown, ResultIsSolutions, Result
<1>2. /\ DOMAIN result.pf = 1 .. Len(result.pf) /\ Len(result.pf) \in Nat
      /\ DOMAIN result'.pf = 1 .. Len(result.pf) + 1
      /\ result'.pf[Len(result.pf) + 1] = curr.g_score
      /\ \A s \in 1 .. Len(result.pf) : result'.pf[s] = result.pf[s]
  BY <1>1
<1>3. DOMAIN result'.pf = DOMAIN result.pf \cup {Len(result.pf) + 1}
  BY <1>2
<1>4. QED
  BY <1>2, <1>3 DEF Reported, Range

\* A stored solution is the point that was found when its goal was popped.
LEMMA StoreSolutionPInv == IInv /\ FInv /\ PInv /\ StoreSolution => PInv'
<1> SUFFICES ASSUME IInv, FInv, PInv, StoreSolution PROVE PInv'
  OBVIOUS
<1>1. /\ UNCHANGED <<problem, open_set, m_init_nodes, m_map, g_2_min, curr, i>>
      /\ pc = "extract" /\ pc' = "loop"
      /\ g_2_min_goal' = IF ~ g_2_min_goal.set \/ curr.g_score[2] < g_2_min_goal.value
                           THEN [set |-> TRUE, value |-> curr.g_score[2]]
                           ELSE g_2_min_goal
  BY DEF StoreSolution
<1>2. Reported' = Reported \cup {curr.g_score}
  BY StoredIsReported
<1>3. Heads' = Heads /\ Found' = Found
  BY <1>1, <1>2 DEF Heads, Found
<1>4. /\ ToGo' = ToGo /\ ParetoFront' = ParetoFront
      /\ \A o : EndOf(o)' = EndOf(o) /\ f_score(o)' = f_score(o)
      /\ \A v : AboveFront(v)' = AboveFront(v)
  BY <1>1, SameWalks
<1>5. \A c \in ParetoFront \ Reported' : \A k \in Nat : Covered(c, k) => Covered(c, k)'
  BY <1>1, <1>2, <1>4 DEF Covered, OpenLeadsTo
<1>6. \A x \in Nat : (\A o \in Heads : x <= f_score(o)[1]) => \A o \in Heads' : x <= f_score(o)[1]'
  BY <1>3, <1>4
<1>7. /\ GoodProblem' /\ AllFrontAhead'
      /\ \A n \in Nodes : \A v \in CostVector : Settled(n, v) => Settled(n, v)'
  BY <1>1, <1>2, <1>5, <1>6, StepSettles
<1>8. HeadsAboveFront'
  BY <1>3, <1>4 DEF PInv, HeadsAboveFront
<1>9. TakenInOrder'
  BY <1>1, <1>3, <1>4 DEF PInv, TakenInOrder
<1>10. ExpandedSettled'
  BY <1>1, <1>7 DEF PInv, ExpandedSettled
<1>11. OnlyFrontFound'
  <2>1. g_2_min_goal'.value = curr.g_score[2]
    BY <1>1 DEF FInv, FrontFalls
  <2>2. QED
    BY <1>2, <1>3, <1>4, <2>1 DEF PInv, OnlyFrontFound
<1>12. QED
  BY <1>7, <1>8, <1>9, <1>10, <1>11 DEF PInv

\* Sorting the front keeps its points.
LEMMA PackagedIsReported ==
    ASSUME IInv, Package
    PROVE  Reported' = Reported
<1>1. result.pf \in Seq(CostVector) /\ result'.pf = sorted(problem, result.pf)
  BY DEF Package, IInv, ResultIsSolutions, Result
<1>2. QED
  BY <1>1, SortedKeepsPoints DEF Reported

\* Steps that follow a parent, package the result, or do nothing.
LEMMA OtherPInv == IInv /\ PInv /\ (FollowParent \/ Package \/ UNCHANGED vars) => PInv'
<1> SUFFICES ASSUME IInv, PInv, FollowParent \/ Package \/ UNCHANGED vars PROVE PInv'
  OBVIOUS
<1>1. /\ UNCHANGED <<problem, open_set, m_init_nodes, m_map, g_2_min, g_2_min_goal, curr, i>>
      /\ pc' = pc \/ (pc = "loop" /\ pc' = "returned")
  BY DEF FollowParent, Package, vars
<1>2. Reported' = Reported
  <2>1. CASE Package
    BY <2>1, PackagedIsReported
  <2>2. CASE FollowParent \/ UNCHANGED vars
    BY <2>2 DEF FollowParent, vars, Reported
  <2>3. QED
    BY <2>1, <2>2
<1>3. Heads' = Heads /\ Found' = Found /\ curr_node' = curr_node
  BY <1>1, <1>2 DEF Heads, Found, curr_node, getNode, isInit
<1>4. /\ ToGo' = ToGo /\ ParetoFront' = ParetoFront
      /\ \A o : EndOf(o)' = EndOf(o) /\ f_score(o)' = f_score(o)
      /\ \A v : AboveFront(v)' = AboveFront(v)
  BY <1>1, SameWalks
<1>5. \A c \in ParetoFront \ Reported' : \A k \in Nat : Covered(c, k) => Covered(c, k)'
  BY <1>1, <1>3, <1>4 DEF Covered, OpenLeadsTo, EdgeLeadsTo, neighborEdges
<1>6. \A x \in Nat : (\A o \in Heads : x <= f_score(o)[1]) => \A o \in Heads' : x <= f_score(o)[1]'
  BY <1>3, <1>4
<1>7. /\ GoodProblem' /\ AllFrontAhead'
      /\ \A n \in Nodes : \A v \in CostVector : Settled(n, v) => Settled(n, v)'
  BY <1>1, <1>2, <1>5, <1>6, StepSettles
<1>8. HeadsAboveFront'
  BY <1>3, <1>4 DEF PInv, HeadsAboveFront
<1>9. TakenInOrder'
  <2>1. PrunedAtGoal(f_score(curr))' <=> PrunedAtGoal(f_score(curr))
    BY <1>1, <1>4 DEF PrunedAtGoal, f_score, hScore, getNode, isInit
  <2>2. f_score(curr)' = f_score(curr)
    BY <1>1 DEF f_score, hScore, getNode, isInit
  <2>3. QED
    BY <1>1, <1>3, <1>4, <2>1, <2>2 DEF PInv, TakenInOrder
<1>10. ExpandedSettled'
  BY <1>1, <1>7 DEF PInv, ExpandedSettled
<1>11. OnlyFrontFound'
  BY <1>1, <1>2, <1>3, <1>4 DEF PInv, OnlyFrontFound
<1>12. QED
  BY <1>7, <1>8, <1>9, <1>10, <1>11 DEF PInv

LEMMA NextPInv == IInv /\ FInv /\ PInv /\ [Next]_vars => PInv'
BY SkipPrunedPInv, ExpandPInv, ReachGoalPInv, NewWalkPInv, SkipNeighborPInv, EndNeighborsPInv,
   StoreSolutionPInv, OtherPInv DEF Next

\* Under a consistent heuristic and a gScore that adds, BOA* reports the Pareto
\* front of the problem: every point it stores belongs to it and is new, and when
\* the open set runs dry none is missing, although what is pruned is only ever
\* compared in the second objective (BOAStar_impl.hpp:77, 129).
THEOREM Refinement ==
    Spec /\ Consistent(problem) /\ Additive(problem) => ImplementsParetoSearch
<1>0. Promise!ParetoFrontOf(problem) = ParetoFront
  BY DEF ParetoFront, ParetoFrontOf, NonDominated, Dominates, dominates, Leq, Objectives,
         CostsToGo, Promise!ParetoFrontOf, Promise!NonDominated, Promise!Dominates,
         Promise!dominates, Promise!Leq, Promise!Objectives, Promise!CostsToGo
<1>1. Init => Promise!Init
  BY DEF Init, Promise!Init, NoResult, Range
<1>2. IInv /\ FInv /\ PInv /\ [Next]_vars
        => [Promise!Next]_<<problem, Reported, pc = "returned">>
  <2> SUFFICES ASSUME IInv, FInv, PInv, [Next]_vars
               PROVE  [Promise!Next]_<<problem, Reported, pc = "returned">>
    OBVIOUS
  <2>1. CASE StoreSolution
    <3>1. /\ UNCHANGED problem /\ pc = "extract" /\ pc' = "loop"
          /\ Reported' = Reported \cup {curr.g_score}
      BY <2>1, StoredIsReported DEF StoreSolution
    <3>2. curr.g_score \in ParetoFront
      BY <3>1 DEF PInv, OnlyFrontFound, Found
    <3>3. curr.g_score \notin Reported
      <4> SUFFICES ASSUME NEW s \in DOMAIN result.pf, result.pf[s] = curr.g_score PROVE FALSE
        BY DEF Reported, Range
      <4>1. s \in 1 .. Len(result.pf)
        BY DEF IInv, ResultIsSolutions, Result
      <4>2. /\ curr.g_score[2] < g_2_min_goal.value /\ g_2_min_goal.value <= curr.g_score[2]
            /\ g_2_min_goal.value \in Nat
        BY <3>1, <4>1 DEF FInv, FrontFalls
      <4>3. curr.g_score[2] \in Nat
        BY <3>1, SecondTyped DEF IInv, ElementsKnown
      <4>4. QED
        BY <4>2, <4>3
    <3>4. Promise!Report
      BY <1>0, <3>1, <3>2, <3>3 DEF Promise!Report, Reported
    <3>5. QED
      BY <3>4 DEF Promise!Next
  <2>2. CASE Package
    <3>1. /\ UNCHANGED problem /\ pc = "loop" /\ pc' = "returned" /\ open_set = {}
          /\ Reported' = Reported
      BY <2>2, PackagedIsReported DEF Package
    <3>2. Reported = ParetoFront
      <4>1. \A c \in ParetoFront \ Reported : FALSE
        BY <3>1 DEF PInv, AllFrontAhead, Covered, OpenLeadsTo
      <4>2. QED
        BY <4>1 DEF PInv, OnlyFrontFound, Found
    <3>3. Promise!Finish
      BY <1>0, <3>1, <3>2 DEF Promise!Finish, Reported
    <3>4. QED
      BY <3>3 DEF Promise!Next
  <2>3. CASE SkipPruned \/ ReachGoal \/ Expand \/ NewWalk \/ SkipNeighbor \/ EndNeighbors
             \/ FollowParent \/ UNCHANGED vars
    <3>1. UNCHANGED problem /\ (pc = "returned" <=> pc' = "returned")
      BY <2>3 DEF SkipPruned, ReachGoal, Expand, NewWalk, SkipNeighbor, EndNeighbors,
                  FollowParent, vars
    <3>2. result'.pf = result.pf
      BY <2>3 DEF SkipPruned, ReachGoal, Expand, NewWalk, SkipNeighbor, EndNeighbors,
                  FollowParent, vars, IInv, ResultIsSolutions, Result
    <3>3. Reported' = Reported /\ (pc = "returned")' = (pc = "returned")
      BY <3>1, <3>2 DEF Reported
    <3>4. QED
      BY <3>1, <3>3
  <2>4. QED
    BY <2>1, <2>2, <2>3 DEF Next
<1>3. Init /\ Consistent(problem) /\ Additive(problem) => PInv
  BY InitPInv DEF GoodProblem
<1>4. [Promise!Next]_<<problem, Reported, pc = "returned">>
        <=> [Promise!Next]_<<problem, Range(result.pf), pc = "returned">>
  BY DEF Reported
<1>5. QED
  BY <1>1, <1>2, <1>3, <1>4, InitFInv, StepFInv, NextPInv, InvariantHolds, PTL
     DEF Spec, ImplementsParetoSearch, Promise!Spec

-----------------------------------------------------------------------------
(***************************************************************************)
(* The cost recorded for a goal is the cost of the path read back from the *)
(* numbering, if gScore adds.                                              *)
(***************************************************************************)

\* W gives each numbered walk the sum of the costs of its edges: what is open, and
\* what is being expanded, has that cost, and a goal that of its walk so far read
\* back and of the path from there.
IsWalkCost(W) ==
    /\ \A id \in Known : W[id] \in CostVector
    /\ \A id \in DOMAIN m_init_nodes : W[id] = Zero
    /\ \A id \in DOMAIN m_map : W[id] = Plus(W[m_map[id].parent], m_map[id].parent_edge.cost)
    /\ \A e \in Heads : e.g_score = W[e.node]
    /\ pc = "extract" => curr.g_score = Plus(W[sol.at], PathCost(sol.edge_path))

CInv ==
    /\ Additive(problem)
    /\ \E W : IsWalkCost(W)
    /\ \A s \in 1 .. Len(result.pf) : PathCost(result.edge_paths[s]) = result.pf[s]

\* What the steps rely on.
LEMMA KnownParts ==
    ASSUME IInv
    PROVE  /\ Known = DOMAIN m_init_nodes \cup DOMAIN m_map
           /\ \A id \in DOMAIN m_map :
                 m_map[id].parent \in Known /\ m_map[id].parent_edge.cost \in CostVector
           /\ \A e \in Heads : e.node \in Known
           /\ pc = "extract" => sol.at \in Known /\ sol.edge_path \in Seq(Edge)
<1>1. \A e \in Heads : e.node \in Known
  BY DEF IInv, ElementsKnown, Heads
<1>2. pc = "extract" => sol.at \in Known /\ sol.edge_path \in Seq(Edge)
  BY DEF IInv, ExtractionIsWalk, IsWalkToGoal
<1>3. ASSUME NEW id \in DOMAIN m_map
      PROVE  m_map[id].parent \in Known /\ m_map[id].parent_edge.cost \in CostVector
  <2>1. /\ m_map[id].parent \in Known
        /\ m_map[id].parent_edge \in Range(neighborEdges(problem, getNode(m_map[id].parent)))
    BY <1>3 DEF IInv, WalksExtend
  <2>2. m_map[id].parent_edge \in Edge
    BY <2>1, NodeTyped, EdgeTyped DEF IInv, Numbered
  <2>3. QED
    BY <2>1, <2>2 DEF Edge
<1>4. QED
  BY <1>1, <1>2, <1>3 DEF Known

LEMMA InitCInv == Init /\ Additive(problem) => CInv
<1> SUFFICES ASSUME Init, Additive(problem) PROVE CInv
  OBVIOUS
<1> DEFINE W == [id \in DOMAIN m_init_nodes |-> Zero]
<1>1. /\ pc = "loop" /\ DOMAIN m_map = {} /\ result.pf = <<>>
      /\ open_set = {[node |-> id, g_score |-> Zero] : id \in DOMAIN m_init_nodes}
  BY DEF Init, NoResult
<1>2. IsWalkCost(W)
  BY <1>1, ZeroTyped DEF IsWalkCost, Known, Heads
<1>3. QED
  BY <1>1, <1>2 DEF CInv

\* Steps that number no walk and store nothing.
LEMMA OldWalksCInv ==
    IInv /\ CInv /\ (SkipPruned \/ Expand \/ SkipNeighbor \/ EndNeighbors \/ UNCHANGED vars)
        => CInv'
<1> SUFFICES ASSUME IInv, CInv,
                    SkipPruned \/ Expand \/ SkipNeighbor \/ EndNeighbors \/ UNCHANGED vars
             PROVE  CInv'
  OBVIOUS
<1>1. /\ UNCHANGED <<problem, m_init_nodes, m_map, result>>
      /\ Heads' \subseteq Heads
      /\ pc' = "extract" => pc = "extract" /\ UNCHANGED <<curr, sol>>
  BY DEF SkipPruned, Expand, SkipNeighbor, EndNeighbors, vars, Heads
<1>2. PICK W : IsWalkCost(W)
  BY DEF CInv
<1>3. IsWalkCost(W)'
  BY <1>1, <1>2 DEF IsWalkCost, Known
<1>4. QED
  BY <1>1, <1>3 DEF CInv

\* A popped goal starts the path read back with no edge.
LEMMA ReachGoalCInv == IInv /\ CInv /\ ReachGoal => CInv'
<1> SUFFICES ASSUME IInv, CInv, ReachGoal PROVE CInv'
  OBVIOUS
<1>1. PICK e \in open_set :
         /\ open_set' = open_set \ {e} /\ curr' = e
         /\ sol' = [at |-> e.node, node_path |-> <<getNode(e.node)>>, edge_path |-> <<>>]
  BY DEF ReachGoal
<1>2. /\ UNCHANGED <<problem, m_init_nodes, m_map>>
      /\ pc = "loop" /\ pc' = "extract"
      /\ result'.pf = result.pf /\ result'.edge_paths = result.edge_paths
  BY DEF ReachGoal, IInv, ResultIsSolutions, Result
<1>3. PICK W : IsWalkCost(W)
  BY DEF CInv
<1>4. e \in Heads /\ e.node \in Known /\ W[e.node] \in CostVector /\ e.g_score = W[e.node]
  BY <1>1, <1>3, KnownParts DEF Heads, IsWalkCost
<1>5. Plus(W[e.node], PathCost(<<>>)) = e.g_score
  BY <1>4, PathCostOfNone, SumWithZero
<1>6. Heads' \subseteq Heads
  BY <1>1, <1>2 DEF Heads
<1>7. curr'.g_score = Plus(W[sol'.at], PathCost(sol'.edge_path))
  BY <1>1, <1>5
<1>8. IsWalkCost(W)'
  BY <1>2, <1>3, <1>6, <1>7 DEF IsWalkCost, Known
<1>9. QED
  BY <1>2, <1>8 DEF CInv

\* A new walk costs what its edge adds to the one it extends.
LEMMA NewWalkCInv == IInv /\ CInv /\ NewWalk => CInv'
<1> SUFFICES ASSUME IInv, CInv, NewWalk PROVE CInv'
  OBVIOUS
<1> DEFINE value == [node |-> ToNeighbor.to, parent |-> curr.node, parent_edge |-> ToNeighbor]
<1>0. PICK w : w = m_next_node
  OBVIOUS
<1>1. /\ m_map' = Assign(m_map, w, value)
      /\ open_set' = open_set \cup {[node |-> w, g_score |-> tentative_g_score]}
      /\ UNCHANGED <<problem, pc, m_init_nodes, curr, sol, result>>
      /\ pc = "neighbors" /\ MoreNeighbors
  BY <1>0 DEF NewWalk
<1>2. PICK W : IsWalkCost(W)
  BY DEF CInv
<1>3. w \notin Known
  BY <1>0, NextIsNew DEF IInv
<1>4. /\ DOMAIN m_map' = DOMAIN m_map \cup {w} /\ m_map'[w] = value
      /\ \A id \in DOMAIN m_map : m_map'[id] = m_map[id]
      /\ Known' = Known \cup {w}
  BY <1>1, <1>3 DEF Assign, Known
<1>5. /\ curr \in Heads /\ curr.node \in Known /\ curr.g_score = W[curr.node]
      /\ W[curr.node] \in CostVector
  BY <1>1, <1>2, KnownParts DEF Heads, IsWalkCost
<1>6. tentative_g_score = Plus(W[curr.node], ToNeighbor.cost) /\ ToNeighbor.cost \in CostVector
  <2>1. curr_node \in Nodes /\ problem \in Problems
    BY <1>5, HeadTyped DEF EndOf, curr_node, IInv, Numbered
  <2>2. i \in DOMAIN neighborEdges(problem, curr_node)
    BY <1>1 DEF MoreNeighbors
  <2>3. ToNeighbor.cost \in CostVector
    BY <2>1, <2>2, ReferenceOfEdge DEF ToNeighbor
  <2>4. QED
    BY <1>5, <2>1, <2>2, <2>3, ScoreAdds DEF CInv, tentative_g_score, ToNeighbor
<1> DEFINE V == [id \in Known \cup {w} |-> IF id = w THEN tentative_g_score ELSE W[id]]
<1>7. PICK v : v = V
  OBVIOUS
<1>8. v[w] = tentative_g_score /\ \A id \in Known : v[id] = W[id]
  BY <1>3, <1>7
<1>9. \A id \in Known' : v[id] \in CostVector
  <2>1. tentative_g_score \in CostVector
    BY <1>5, <1>6, PlusTyped
  <2>2. QED
    BY <1>2, <1>4, <1>8, <2>1 DEF IsWalkCost
<1>10. \A id \in DOMAIN m_init_nodes : v[id] = Zero
  BY <1>2, <1>8 DEF IsWalkCost, Known
<1>11. ASSUME NEW id \in DOMAIN m_map'
       PROVE  v[id] = Plus(v[m_map'[id].parent], m_map'[id].parent_edge.cost)
  <2>1. CASE id = w
    BY <1>4, <1>5, <1>6, <1>8, <2>1
  <2>2. CASE id \in DOMAIN m_map
    <3>1. id \in Known /\ m_map[id].parent \in Known
      BY <2>2, KnownParts
    <3>2. QED
      BY <1>2, <1>4, <1>8, <2>2, <3>1 DEF IsWalkCost
  <2>3. QED
    BY <1>4, <2>1, <2>2
<1>12. ASSUME NEW e \in Heads' PROVE e.g_score = v[e.node]
  <2>1. e \in Heads \/ e = [node |-> w, g_score |-> tentative_g_score]
    BY <1>1 DEF Heads
  <2>2. CASE e \in Heads
    BY <1>2, <1>8, <2>2, KnownParts DEF IsWalkCost
  <2>3. CASE e = [node |-> w, g_score |-> tentative_g_score]
    BY <1>8, <2>3
  <2>4. QED
    BY <2>1, <2>2, <2>3
<1>13. IsWalkCost(v)'
  BY <1>1, <1>9, <1>10, <1>11, <1>12 DEF IsWalkCost
<1>14. QED
  BY <1>1, <1>13 DEF CInv

\* The edge in front of the path takes over what it adds to the parent's cost.
LEMMA FollowParentCInv == IInv /\ CInv /\ FollowParent => CInv'
<1> SUFFICES ASSUME IInv, CInv, FollowParent PROVE CInv'
  OBVIOUS
<1> DEFINE value == m_map[sol.at]
<1>1. /\ UNCHANGED <<problem, pc, open_set, m_init_nodes, m_map, curr, result>>
      /\ pc = "extract" /\ ~ isInit(sol.at)
      /\ sol'.at = value.parent
      /\ sol'.edge_path = <<value.parent_edge>> \o sol.edge_path
  BY DEF FollowParent
<1>2. PICK W : IsWalkCost(W)
  BY DEF CInv
<1>3. sol.at \in DOMAIN m_map /\ sol.edge_path \in Seq(Edge)
  BY <1>1, KnownParts DEF isInit
<1>4. /\ value.parent \in Known
      /\ W[sol.at] = Plus(W[value.parent], value.parent_edge.cost)
      /\ W[value.parent] \in CostVector
  BY <1>2, <1>3, KnownParts DEF IsWalkCost
<1>5. value.parent_edge \in Edge
  <2>1. value.parent_edge \in Range(neighborEdges(problem, getNode(value.parent)))
    BY <1>3 DEF IInv, WalksExtend
  <2>2. QED
    BY <1>4, <2>1, NodeTyped, EdgeTyped DEF IInv, Numbered
<1>6. value.parent_edge.cost \in CostVector
  BY <1>5 DEF Edge
<1>7. /\ PathCost(sol.edge_path) \in CostVector
      /\ PathCost(sol'.edge_path) = Plus(value.parent_edge.cost, PathCost(sol.edge_path))
  BY <1>1, <1>3, <1>5, PathCostOfEdgeInFront
<1>8. curr.g_score = Plus(W[sol.at], PathCost(sol.edge_path))
  BY <1>1, <1>2 DEF IsWalkCost
<1>9. curr.g_score = Plus(W[value.parent], PathCost(sol'.edge_path))
  <2>1. Plus(Plus(W[value.parent], value.parent_edge.cost), PathCost(sol.edge_path))
          = Plus(W[value.parent], Plus(value.parent_edge.cost, PathCost(sol.edge_path)))
    BY <1>4, <1>6, <1>7, SumOrder
  <2>2. QED
    BY <1>4, <1>7, <1>8, <2>1
<1>10. IsWalkCost(W)'
  BY <1>1, <1>2, <1>9 DEF IsWalkCost, Known, Heads
<1>11. QED
  BY <1>1, <1>10 DEF CInv

\* A path read back to an initial node costs what was recorded.
LEMMA StoreSolutionCInv == IInv /\ CInv /\ StoreSolution => CInv'
<1> SUFFICES ASSUME IInv, CInv, StoreSolution PROVE CInv'
  OBVIOUS
<1> DEFINE n == Len(result.pf)
<1>1. /\ UNCHANGED <<problem, open_set, m_init_nodes, m_map, curr, sol>>
      /\ pc = "extract" /\ pc' = "loop" /\ isInit(sol.at)
  BY DEF StoreSolution
<1>2. /\ result'.pf = Append(result.pf, curr.g_score)
      /\ result'.edge_paths = Append(result.edge_paths, sol.edge_path)
      /\ result.pf \in Seq(CostVector) /\ result.edge_paths \in Seq(Seq(Edge))
      /\ Len(result.edge_paths) = n
  BY DEF StoreSolution, IInv, ResultIsSolutions, Result
<1>3. PICK W : IsWalkCost(W)
  BY DEF CInv
<1>4. IsWalkCost(W)'
  BY <1>1, <1>3 DEF IsWalkCost, Known, Heads
<1>5. PathCost(sol.edge_path) = curr.g_score
  <2>1. curr.g_score = Plus(Zero, PathCost(sol.edge_path))
    BY <1>1, <1>3 DEF IsWalkCost, isInit
  <2>2. PathCost(sol.edge_path) \in CostVector
    BY <1>1, KnownParts, PathCostTyped
  <2>3. QED
    BY <2>1, <2>2, SumWithZero
<1>6. ASSUME NEW s \in 1 .. Len(result'.pf)
      PROVE  PathCost(result'.edge_paths[s]) = result'.pf[s]
  <2>1. Len(result'.pf) = n + 1 /\ n \in Nat
    BY <1>2
  <2>2. CASE s = n + 1
    <3>1. result'.edge_paths[s] = sol.edge_path /\ result'.pf[s] = curr.g_score
      BY <1>2, <2>2
    <3>2. QED
      BY <1>5, <3>1
  <2>3. CASE s \in 1 .. n
    <3>1. result'.edge_paths[s] = result.edge_paths[s] /\ result'.pf[s] = result.pf[s]
      BY <1>2, <2>3
    <3>2. QED
      BY <2>3, <3>1 DEF CInv
  <2>4. QED
    BY <2>1, <2>2, <2>3
<1>7. QED
  BY <1>1, <1>4, <1>6 DEF CInv

\* Sorted apart, the front and the paths still go together.
LEMMA PackageCInv == IInv /\ CInv /\ Package => CInv'
<1> SUFFICES ASSUME IInv, CInv, Package PROVE CInv'
  OBVIOUS
<1> DEFINE n == Len(result.pf)
<1>1. /\ UNCHANGED <<problem, open_set, m_init_nodes, m_map, curr, sol>>
      /\ pc = "loop" /\ pc' = "returned"
  BY DEF Package
<1>2. /\ result'.pf = sorted(problem, result.pf)
      /\ result'.edge_paths = sorted(problem, result.edge_paths)
      /\ result.pf \in Seq(CostVector) /\ result.edge_paths \in Seq(Seq(Edge))
      /\ Len(result.edge_paths) = n /\ n \in Nat
  BY DEF Package, IInv, ResultIsSolutions, Result
<1>3. PICK W : IsWalkCost(W)
  BY DEF CInv
<1>4. IsWalkCost(W)'
  BY <1>1, <1>3 DEF IsWalkCost, Known, Heads
<1>5. ASSUME NEW s \in 1 .. Len(result'.pf)
      PROVE  PathCost(result'.edge_paths[s]) = result'.pf[s]
  <2> DEFINE t == IF problem.container = "FixedArray" THEN s ELSE n - s + 1
  <2>1. s \in 1 .. n /\ t \in 1 .. n
    BY <1>2, SortedTyped
  <2>2. result'.pf[s] = result.pf[t]
    BY <1>2, <2>1 DEF sorted, Reverse
  <2>3. result'.edge_paths[s] = result.edge_paths[t]
    <3>1. \A k \in 1 .. Len(result.edge_paths) :
             sorted(problem, result.edge_paths)[k] =
                IF problem.container = "FixedArray"
                  THEN result.edge_paths[k]
                  ELSE result.edge_paths[Len(result.edge_paths) - k + 1]
      BY <1>2 DEF sorted, Reverse
    <3>2. QED
      BY <1>2, <2>1, <3>1
  <2>4. QED
    BY <2>1, <2>2, <2>3 DEF CInv
<1>6. QED
  BY <1>1, <1>4, <1>5 DEF CInv

LEMMA NextCInv == IInv /\ CInv /\ [Next]_vars => CInv'
BY OldWalksCInv, ReachGoalCInv, NewWalkCInv, FollowParentCInv, StoreSolutionCInv, PackageCInv
   DEF Next

\* Where gScore adds, what BOA* returns is a walk for each point of the front, which
\* its edges cost: the numbering is a forest, and the cost recorded when a goal was
\* popped is that of the path read back from it (BOAStar_impl.hpp:90, 142).
THEOREM CostsAreExplained == Spec /\ Additive(problem) => []PathsExplainCosts
<1>1. IInv /\ CInv => PathsExplainCosts
  <2> SUFFICES ASSUME IInv, CInv PROVE PathsExplainCosts
    OBVIOUS
  <2>1. ASSUME NEW id \in DOMAIN m_map
        PROVE  /\ ~ isInit(id) /\ m_map[id].parent < id
               /\ m_map[id].parent_edge
                    \in Range(neighborEdges(problem, getNode(m_map[id].parent)))
               /\ m_map[id].parent_edge.to = m_map[id].node
    <3>1. ~ isInit(id)
      BY NextIsNew DEF IInv, Numbered, isInit
    <3>2. QED
      BY <3>1 DEF IInv, WalksExtend
  <2>2. DOMAIN result.pf = 1 .. Len(result.pf)
    BY DEF IInv, ResultIsSolutions, Result
  <2>3. QED
    BY <2>1, <2>2 DEF IInv, CInv, ResultIsSolutions, PathsExplainCosts
<1>2. QED
  BY <1>1, InitCInv, NextCInv, InvariantHolds, PTL DEF Spec

=============================================================================
