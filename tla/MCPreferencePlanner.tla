------------------------- MODULE MCPreferencePlanner -------------------------
(***************************************************************************)
(* PreferencePlanner in worlds of four cells, with tasks that can be done  *)
(* in several orders and substituted at several prices, on command lines   *)
(* that lead to every way the programs end.                                *)
(***************************************************************************)
EXTENDS PreferencePlanner

move(src, action, dst, cost) == [src |-> src, dst |-> dst, edge |-> [action |-> action, cost |-> cost]]

\* The cells of a grid of two by two, round which a cost map makes one way or
\* the other dear: a holds in cell 1, b in cell 2, c in cell 3.
Square(left, right) ==
    [size |-> 4, connections |->
       <<move(0, "stay", 0, 0), move(0, "right", 1, right), move(0, "up", 2, left),
         move(1, "left", 0, left), move(1, "stay", 1, 0), move(1, "up", 3, right),
         move(2, "stay", 2, 0), move(2, "right", 3, 1), move(2, "down", 0, 1),
         move(3, "left", 2, left), move(3, "stay", 3, 0), move(3, "down", 1, 2)>>]

Corridor == [size |-> 2, connections |-> <<move(0, "stay", 0, 0), move(0, "up", 1, 1), move(1, "down", 0, 1)>>]

Cells == 0 .. 3
Where(cell, letter) == {<<cell, letter>>} \cup ((Cells \ {cell}) \X {"!" \o letter})
Lettered == {"1", "a", "b", "c", "!a", "!b", "!c"}

World(model) ==
    [model |-> model, declared |-> Lettered,
     observed |-> Where(1, "a") \cup Where(2, "b") \cup Where(3, "c") \cup (Cells \X {"1"})]

\* Its propositions are coordinates.
MCDefaultWorld ==
    [model |-> Corridor, declared |-> {"1", "x_0_y_1"}, observed |-> {<<0, "1">>, <<1, "1">>, <<1, "x_0_y_1">>}]

r(src, label, dst) == [src |-> src, dst |-> dst, label |-> label]
DFA(accepting, rows) == [init |-> <<0>>, accepting |-> accepting, connections |-> rows]

\* F a, and the same with a second row for one letter; first a then b; nothing.
Eventually(letter) == DFA({1}, <<r(0, "!" \o letter, 0), r(0, letter, 1), r(1, "1", 1)>>)
Repeated == DFA({1}, <<r(0, "!c", 0), r(0, "c", 1), r(0, "c", 0), r(1, "1", 1)>>)
Sequenced == DFA({2}, <<r(0, "!a", 0), r(0, "a", 1), r(1, "!b", 1), r(1, "b", 2), r(2, "1", 2)>>)
Nothing == DFA({0}, <<r(0, "1", 0)>>)
Never == DFA({1}, <<r(0, "1", 0), r(1, "1", 1)>>)

SubMap(letters, others, prices) == [from |-> letters, to |-> others, costs |-> prices]

\* A chain of substitutions, one to a letter that is read already, two of one
\* letter; and lists that are not parallel.
Chained == SubMap(<<"a", "b", "!a">>, <<"b", "c", "a">>, <<2, 1, 3>>)
Doubled == SubMap(<<"b", "b">>, <<"c", "a">>, <<1, 0>>)
Uneven == SubMap(<<"a", "b">>, <<"b">>, <<1>>)

\* The files of a directory: automata and sub maps, numbered from 0.
DFAs(directory, list) ==
    [f \in {<<directory, "dfa_#.yaml", i - 1>> : i \in DOMAIN list} |-> list[f[3] + 1]]
SubMaps(directory, list) ==
    [f \in {<<directory, "sub_map_#.yaml", i - 1>> : i \in DOMAIN list} |-> list[f[3] + 1]]

Home == "./dfas"

Disk(list, maps) ==
    [configs |-> [f \in {"grid.yaml", "steep.yaml"} |->
                   World(IF f = "grid.yaml" THEN Square(3, 1) ELSE Square(2, 7))],
     dfas |-> DFAs(Home, list), sub_maps |-> SubMaps(Home, maps),
     writable |-> {"plans", "front.yaml"}]

Key(text) == <<getKey(text)>>
Plain(text) == <<[dashes |-> 0, text |-> text]>>
KeyV(text, value) == Key(text) \o Plain(value)
FlagV(text, value) == <<getFlag(text)>> \o Plain(value)

Config == FlagV("c", "grid.yaml")

\* The library reads the number in front of a word, and throws at "two".
MCStoi == ("1" :> 1) @@ ("2" :> 2) @@ ("3" :> 3) @@ ("5" :> 5) @@ ("2 tasks" :> 2)

MCStof == ("1" :> <<1, 1>>)  \* none is asked for
Steep == KeyV("config-filepath", "steep.yaml")
Output == FlagV("w", "plans") \o KeyV("pareto-front-filepath", "front.yaml")

ActionCost(argv, list) == [program |-> "ActionCost", argv |-> argv, disk |-> Disk(list, <<>>)]
Partial(argv, list, maps) == [program |-> "PartialSatisfaction", argv |-> argv, disk |-> Disk(list, maps)]

Five(x, other, y) == <<x, other, other, other, y>>

Letter == {"a", "b", "c"}

MCTasks ==
    {ActionCost(grid \o Output \o FlagV("n", ToString(Len(list))), list) :
        grid \in {Config, Steep},
        list \in {<<Eventually(x), Eventually(y)>> : x, y \in Letter}
                   \cup {<<Eventually(x), Sequenced, Eventually(y)>> : x, y \in Letter}
                   \cup {<<Sequenced, Repeated>>, <<Never>>}}
    \cup
    {Partial(FlagV("n", "5") \o Output \o grid, list, maps) :
        grid \in {Config, Steep},
        list \in {Five(Eventually("a"), Nothing, Eventually("b")), Five(Sequenced, Nothing, Repeated),
                  Five(Eventually("c"), Nothing, Eventually("a"))},
        maps \in {Five(Chained, NoSubMap, Doubled), Five(Doubled, NoSubMap, Chained),
                  Five(NoSubMap, NoSubMap, Uneven)}}
    \cup
    {ActionCost(Config \o KeyV("n-dfas", "2") \o FlagV("w", "nowhere") \o KeyV("plan-file-template", "plan.yaml"),
                <<Eventually("b"), Eventually("a")>>),
     ActionCost(Config \o KeyV("n-dfas", "2 tasks") \o FlagV("w", "plans") \o KeyV("plan-file-template", "plan.yaml"),
                <<Eventually("b"), Eventually("a")>>),
     ActionCost(Config, <<Eventually("c")>>),
     ActionCost(Output, <<Eventually("a")>>),                                 \* letters nobody declared
     ActionCost(KeyV("sub-map-file-template", "sub_map_#.yaml"), <<Nothing>>),  \* not an option of it
     ActionCost(KeyV("config-filepath", "nowhere"), <<Nothing>>),
     ActionCost(Config \o FlagV("n", "two"), <<Nothing>>),
     Partial(Config \o Output, <<Eventually("a")>>, <<Chained>>),              \* one task, five weights
     Partial(Config \o FlagV("n", "2"), <<Nothing, Nothing>>, <<NoSubMap>>),
     Partial(Key("help") \o FlagV("n", "2"), <<Nothing>>, <<NoSubMap>>)}

\* A task that is only done as long as a holds: it adds to a walk again when the
\* walk leaves, and how much delay that makes depends on the walk.
Holding(letter) ==
    DFA({1}, <<r(0, "!" \o letter, 0), r(0, letter, 1), r(1, letter, 1), r(1, "!" \o letter, 0)>>)

MCTasksRevisited ==
    {ActionCost(Config \o Output \o FlagV("n", "2"), <<Holding("a"), Eventually("c")>>)}

MCNumbered == {"dfa_#.yaml", "sub_map_#.yaml", "plan_#.yaml"}
=============================================================================
