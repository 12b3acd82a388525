--------------------------- MODULE GridWorldAgent ---------------------------
(***************************************************************************)
(* GridWorldAgent::generate: the cells of a grid, column by column, are    *)
(* connected to their neighbors directly.  A cell at the border, where a   *)
(* direction leads out of the grid, can be stayed in.  Regions and         *)
(* obstacles are rectangles of cells.                                      *)
(***************************************************************************)
EXTENDS TransitionSystem

VARIABLES
    cell,     \* the number of the cell being connected, or one more than there are
    dir,      \* the direction tried next
    stay_put  \* whether the cell has its connection to itself

gridVars == <<cell, dir, stay_put>>

Directions == <<"left", "right", "down", "up">>

X(c) == (c - 1) \div model.n_y

Y(c) == (c - 1) % model.n_y

Cells == 1 .. model.n_x * model.n_y

Within(box, x, y) ==
    /\ box.lower_left_x <= x /\ x <= box.upper_right_x
    /\ box.lower_left_y <= y /\ y <= box.upper_right_y

inObstacle(x, y) == \E k \in DOMAIN model.obstacles : Within(model.obstacles[k], x, y)

CellState(x, y) == [l \in {"x_coord", "y_coord"} |-> IF l = "x_coord" THEN x ELSE y]

\* Where a direction leads, counted from one so that the way out of the grid is a number too.
Neighbor(c, d) ==
    CASE d = "left"  -> <<X(c), Y(c) + 1>>
      [] d = "right" -> <<X(c) + 2, Y(c) + 1>>
      [] d = "down"  -> <<X(c) + 1, Y(c)>>
      [] d = "up"    -> <<X(c) + 1, Y(c) + 2>>

InGrid(n) == n[1] \in 1 .. model.n_x /\ n[2] \in 1 .. model.n_y

Proposition(name, x, y) ==
    LET At(l, v) == [lhs_type |-> "Label", lhs |-> l, op |-> "Equals", rhs_type |-> "Variable",
                     rhs |-> v, name |-> "", negate |-> FALSE]
    IN  [name |-> name, sub_conditions |-> <<At("x_coord", x), At("y_coord", y)>>,
         junction_type |-> "Conjunction"]

\* The default coord_label_template, "x_#_y_#".
CoordLabel(x, y) == "x_" \o ToString(x) \o "_y_" \o ToString(y)

standard_propositions == model.regions = <<>>

GridInit ==
    /\ m_node_container = <<>>
    /\ m_propositions = <<>>
    /\ cell = 1
    /\ dir = 1
    /\ stay_put = FALSE

ConnectAlong(src_state, d) ==
    LET n == Neighbor(cell, d)
        dst_state == CellState(n[1] - 1, n[2] - 1)
    IN  CASE InGrid(n) /\ ~inObstacle(n[1] - 1, n[2] - 1) ->
                /\ \E nodes \in InsertedBoth(src_state, dst_state) :
                       ConnectStates(nodes, src_state, dst_state, <<d>>)
                /\ UNCHANGED stay_put
          [] ~InGrid(n) /\ ~stay_put ->
                /\ ConnectStates(tryInsert(m_node_container, src_state), src_state, src_state, <<"stay">>)
                /\ stay_put' = TRUE
          [] OTHER -> UNCHANGED <<m_node_container, m_graph, stay_put>>

ConnectDirection ==
    /\ status = "building"
    /\ cell \in Cells
    /\ ~inObstacle(X(cell), Y(cell))
    /\ dir <= Len(Directions)
    /\ ConnectAlong(CellState(X(cell), Y(cell)), Directions[dir])
    /\ dir' = dir + 1
    /\ UNCHANGED <<model, m_propositions, m_observation_container, status, cell>>

\* After the last direction, or at once for a cell in an obstacle.
NextCell ==
    /\ status = "building"
    /\ cell \in Cells
    /\ inObstacle(X(cell), Y(cell)) \/ dir > Len(Directions)
    /\ IF standard_propositions /\ ~inObstacle(X(cell), Y(cell))
       THEN m_propositions' = addPropositions(m_propositions,
                                  <<Proposition(CoordLabel(X(cell), Y(cell)), X(cell), Y(cell))>>)
       ELSE UNCHANGED m_propositions
    /\ cell' = cell + 1
    /\ dir' = 1
    /\ stay_put' = FALSE
    /\ UNCHANGED <<model, m_node_container, m_graph, m_observation_container, status>>

\* A region declares its proposition once for each of its cells, column by column.
RegionPropositions(region) ==
    LET columns == [i \in 1 .. 1 + region.upper_right_x - region.lower_left_x |-> region.lower_left_x + i - 1]
        rows == [j \in 1 .. 1 + region.upper_right_y - region.lower_left_y |-> region.lower_left_y + j - 1]
    IN  FlattenSeq([i \in DOMAIN columns |->
            [j \in DOMAIN rows |-> Proposition(region.proposition, columns[i], rows[j])]])

DeclareRegions ==
    /\ status = "building"
    /\ cell \notin Cells
    /\ m_propositions' = addPropositions(m_propositions,
                              FlattenSeq([r \in DOMAIN model.regions |-> RegionPropositions(model.regions[r])]))
    /\ status' = "built"
    /\ UNCHANGED <<model, m_node_container, m_graph, m_observation_container>>
    /\ UNCHANGED gridVars

GridNext == ConnectDirection \/ NextCell \/ DeclareRegions
=============================================================================
