---------------------------- MODULE IntendedMoves ----------------------------
(***************************************************************************)
(* What the models are meant to be, said as updates of a state and not as  *)
(* conditions on two: a gripper that holds one object at a time and never  *)
(* stands over an object it could push, and an agent on the free cells of  *)
(* a grid.                                                                 *)
(***************************************************************************)
EXTENDS Integers, FiniteSets, SequencesExt

Move(from, action, to) == [from |-> from, action |-> action, to |-> to]

-----------------------------------------------------------------------------
(* Picking and placing: a state tells where the gripper and every object is, and whether one is held. *)

Held(objects, s) == {o \in objects : s[o] = "ee"}

\* No two objects in one place, and the gripper holds what it says it holds.
InOrder(objects, s) ==
    /\ \A o, p \in objects : s[o] = s[p] => o = p
    /\ (s["holding"] = "T") = (Held(objects, s) # {})

OrderlyStates(props) ==
    LET objects == ToSet(props.objects)
        locations == ToSet(props.locations)
        places == IF props.include_stow THEN locations \union {"stow"} ELSE locations
        State(ee, at, held) ==
            [l \in objects \union {"ee_loc", "holding"} |->
                CASE l = "ee_loc" -> ee [] l = "holding" -> held [] l \in objects -> at[l]]
    IN  {s \in {State(ee, at, held) : ee \in places, held \in {"T", "F"},
                                      at \in [objects -> locations \union {"ee"}]} : InOrder(objects, s)}

PickAndPlaceMoves(props) ==
    LET objects == ToSet(props.objects)
        locations == ToSet(props.locations)
        places == IF props.include_stow THEN locations \union {"stow"} ELSE locations
        Free(s, place) == \A o \in objects : s[o] # place
        Grasps(s) == {Move(s, "grasp", [s EXCEPT ![o] = "ee", !["holding"] = "T"]) :
                          o \in {p \in objects : Held(objects, s) = {} /\ s[p] = s["ee_loc"]}}
        Releases(s) == {Move(s, "release", [s EXCEPT ![o] = s["ee_loc"], !["holding"] = "F"]) :
                          o \in {p \in Held(objects, s) : s["ee_loc"] \in locations /\ Free(s, s["ee_loc"])}}
        Transports(s) == {Move(s, "transport", [s EXCEPT !["ee_loc"] = l]) :
                          l \in {p \in places \ {s["ee_loc"]} : /\ Held(objects, s) # {}
                                                                /\ Free(s, p) /\ Free(s, s["ee_loc"])}}
        Transits(s) == {Move(s, "transit", [s EXCEPT !["ee_loc"] = l]) :
                          l \in {p \in places \ {s["ee_loc"]} : Held(objects, s) = {}}}
    IN  UNION {Grasps(s) \union Releases(s) \union Transports(s) \union Transits(s) :
                   s \in OrderlyStates(props)}

\* Two moves that change several things at once: when an object is held, or the gripper says so, everything may be
\* put anywhere ("tidy"); and a gripper that is free may go anywhere, as may happen to it meanwhile ("jump").
TidyMoves(props) ==
    LET objects == ToSet(props.objects)
        locations == ToSet(props.locations)
        States(gripper, objectPlaces, holding) ==
            {[l \in objects \union {"ee_loc", "holding"} |->
                CASE l = "ee_loc" -> ee [] l = "holding" -> held [] l \in objects -> at[l]] :
                    ee \in gripper, at \in [objects -> objectPlaces], held \in holding}
        places == IF props.include_stow THEN locations \union {"stow"} ELSE locations
        Untidy == {s \in States(places, locations \union {"ee"}, {"T", "F"}) :
                       s["holding"] = "T" \/ Held(objects, s) # {}}
        Tidies == {Move(s, "tidy", t) : s \in Untidy, t \in States(locations, locations, {"F"})}
        Jumps(s) == {Move(s, "jump", [s EXCEPT !["ee_loc"] = l]) : l \in places \ {s["ee_loc"]}}
    IN  Tidies \union UNION {Jumps(s) : s \in States(places, locations \union {"ee"}, {"F"})}

-----------------------------------------------------------------------------
(* The grid: one move to each free neighbor, and staying where the grid ends. *)

InBox(box, c) ==
    /\ c[1] \in box.lower_left_x .. box.upper_right_x
    /\ c[2] \in box.lower_left_y .. box.upper_right_y

FreeCells(props) ==
    {c \in (0 .. props.n_x - 1) \X (0 .. props.n_y - 1) :
        \A b \in ToSet(props.obstacles) : ~InBox(b, c)}

GridState(c) == [l \in {"x_coord", "y_coord"} |-> IF l = "x_coord" THEN c[1] ELSE c[2]]

GridMoves(props) ==
    LET Steps == {<<"left", -1, 0>>, <<"right", 1, 0>>, <<"down", 0, -1>>, <<"up", 0, 1>>}
        Beside(c, s) == <<c[1] + s[2], c[2] + s[3]>>
        AtBorder(c) == c[1] \in {0, props.n_x - 1} \/ c[2] \in {0, props.n_y - 1}
    IN  {Move(GridState(m[1]), m[2][1], GridState(Beside(m[1], m[2]))) :
             m \in {k \in FreeCells(props) \X Steps : Beside(k[1], k[2]) \in FreeCells(props)}}
        \union {Move(GridState(c), "stay", GridState(c)) : c \in {d \in FreeCells(props) : AtBorder(d)}}
=============================================================================
