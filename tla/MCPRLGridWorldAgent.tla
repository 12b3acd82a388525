------------------------- MODULE MCPRLGridWorldAgent -------------------------
(***************************************************************************)
(* PRLGridWorldAgent in worlds of three and four cells, on command lines   *)
(* that use every option, in several orders, and misuse them.              *)
(***************************************************************************)
EXTENDS PRLGridWorldAgent

c(src, edge, dst) == [src |-> src, dst |-> dst, edge |-> edge]

\* Two ways to the goal cell 3, and back from it.
Diamond ==
    [size |-> 4, connections |-> <<c(0, "right", 1), c(0, "up", 2), c(1, "up", 3), c(2, "right", 3), c(3, "down", 0)>>]

\* A corridor whose last cell cannot be left.
Corridor ==
    [size |-> 3, connections |-> <<c(0, "right", 1), c(1, "left", 0), c(1, "right", 2)>>]

\* GF goal, accepting in the goal cell, and once: F goal.
Again == [size |-> 2, init |-> <<0>>, accepting |-> {1},
          connections |-> <<c(0, "goal", 1), c(0, "~goal", 0), c(1, "goal", 1), c(1, "~goal", 0)>>]
Once == [size |-> 2, init |-> <<0>>, accepting |-> {1},
         connections |-> <<c(0, "goal", 1), c(0, "~goal", 0), c(1, "any", 1)>>]

Seen(cells, goals) ==
    (goals \X {"goal"}) \cup ((cells \ goals) \X {"~goal"}) \cup (cells \X {"any"})

Patrol == [model |-> Diamond, automata |-> <<Again>>, observe |-> Seen(0 .. 3, {3})]
Two == [model |-> Diamond, automata |-> <<Again, Once>>, observe |-> Seen(0 .. 3, {3})]
Reach == [model |-> Corridor, automata |-> <<Once>>, observe |-> Seen(0 .. 2, {1})]

MCProducts == {Patrol, Two, Reach}

Region(cells, mean) == [cells |-> cells, mean |-> mean]

\* One way is cheap in one objective, the other in the other.
Priced == [default |-> <<4, 0>>,
           regions |-> <<Region(<<1>>, <<0, 6>>), Region(<<2>>, <<6, 0>>), Region(<<3>>, <<>>)>>]

Flat == [default |-> <<1, 1>>, regions |-> <<>>]

World(product, config, preference) ==
    [product |-> product, init_node |-> 0, config |-> config, preference |-> preference]

MCWorlds == {World(Patrol, Priced, <<1, 1>>), World(Reach, Flat, <<0, -1>>), World(Two, Priced, <<2, 1>>)}

Key(text) == <<getKey(text)>>
KeyV(text, value) == <<getKey(text), [dashes |-> 0, text |-> value]>>
Flag(text) == <<getFlag(text)>>
FlagV(text, value) == <<getFlag(text), [dashes |-> 0, text |-> value]>>

Config == FlagV("c", "grid.yaml")

\* An int of 16 bits.  The library reads the number in front of a word; it
\* throws at "many", and here at "70000".
MCStoi == ("0" :> 0) @@ ("1" :> 1) @@ ("2" :> 2) @@ ("3" :> 3) @@ ("20" :> 20) @@ ("0.5" :> 0)
            @@ ("1.5" :> 1) @@ ("2x" :> 2) @@ (" -1" :> -1)

MCStof == ("0" :> <<0, 1>>) @@ ("1" :> <<1, 1>>) @@ ("2" :> <<2, 1>>) @@ ("3" :> <<3, 1>>)
            @@ ("20" :> <<20, 1>>) @@ ("0.5" :> <<1, 2>>) @@ ("1.5" :> <<3, 2>>) @@ ("2x" :> <<2, 1>>)
            @@ (" -1" :> <<-1, 1>>) @@ ("70000" :> <<70000, 1>>)

MCCommandLines ==
    {Config \o Flag("r") \o FlagV("i", "1") \o KeyV("selector", "uniform") \o FlagV("d", "out.yaml") \o KeyV("trials", "2"),
     Flag("r") \o Config \o KeyV("selector", "Uniform") \o FlagV("i", "2x"),
     KeyV("instances", "3") \o Key("regret") \o Config \o KeyV("selector", "Weights") \o Flag("v"),
     KeyV("efe-samples", "3") \o FlagV("i", "2") \o KeyV("config-filepath", "grid.yaml"),
     KeyV("efe-samples", "0") \o FlagV("i", "1") \o Config \o Key("no-plan-data") \o FlagV("d", "x") \o Flag("r"),
     FlagV("d", "out.yaml") \o KeyV("selector", "TOPSIS") \o FlagV("i", "1") \o Config,
     Config \o KeyV("selector", "nearest"),
     KeyV("selector", "uniform") \o KeyV("confidence", "0.5"),
     Config \o FlagV("i", "1.5") \o KeyV("efe-samples", " -1") \o KeyV("selector", "uniform") \o KeyV("confidence", "20"),
     FlagV("t", "1") \o Config \o KeyV("instances", "70000"),
     Config \o KeyV("confidence", "many"),
     Config \o Flag("v") \o Flag("v"),
     Config \o FlagV("i", "many"),
     Config \o KeyV("instances", "1") \o Flag("d"),
     FlagV("i", "1") \o Flag("d") \o Flag("r") \o Config,
     <<[dashes |-> 0, text |-> "grid.yaml"]>>,
     Flag("h") \o Config \o FlagV("i", "many"),
     Config \o KeyV("trials", "0") \o FlagV("f", "formulas.yaml")}

\* Samples at the mean, and off it in both objectives.
MCNoise == {<<0, 0>>, <<1, -1>>}

MCDefaultMean == <<4, 8>>

\* Two without a visit, and one with some, once anything was visited.
MCBonus(k, n) == IF k = 0 THEN 0 ELSE IF n = 0 THEN 2 ELSE 1
=============================================================================
