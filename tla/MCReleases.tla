----------------------------- MODULE MCReleases -----------------------------
(* Two items: a tool that takes many forms, and one that comes and goes.     *)
EXTENDS Releases, TLC, Sequences

MCItems == {"move_event", "list_colors"}
MCValues == {"x", "y", "one", "half", "nil", "obj"}
MCTypesOf == [v \in MCValues |->
    CASE v \in {"x", "y"} -> {"string"}
      [] v = "one" -> {"integer", "number"}
      [] v = "half" -> {"number"}
      [] v = "nil" -> {"null"}
      [] v = "obj" -> {"object"}]

F(typ, enum) == [typ |-> typ, enum |-> enum]
Side(fields, required) == [fields |-> fields, required |-> required]
A == <<"a">>
O == <<"o">>
OP == <<"o", "p">>
Text == F({"string"}, {})

In(f, r) == [inputs |-> Side(A :> f, r), outputs |-> Side(A :> Text, {A})]
InO(r) == [inputs |-> Side((A :> Text) @@ (O :> F({"object"}, {})) @@ (OP :> Text), r),
           outputs |-> Side(A :> Text, {A})]
Out(f, r) == [inputs |-> Side(A :> Text, {}), outputs |-> Side(A :> f, r)]

MCSchema ==
    ("plain" :> In(Text, {}))
    @@ ("inXY" :> In(F({"string"}, {"x", "y"}), {}))
    @@ ("inX" :> In(F({"string"}, {"x"}), {}))
    @@ ("inAny" :> In(F({"any"}, {}), {}))
    @@ ("inNumber" :> In(F({"number"}, {}), {}))
    @@ ("inInteger" :> In(F({"integer"}, {}), {}))
    @@ ("inNeeded" :> In(Text, {A}))
    @@ ("inObject" :> InO({}))
    @@ ("inObjectNeeds" :> InO({OP}))
    @@ ("outMaybe" :> Out(Text, {}))
    @@ ("outNull" :> Out(F({"string", "null"}, {}), {A}))
    @@ ("outX" :> Out(F({"string"}, {"x"}), {A}))
    @@ ("outXY" :> Out(F({"string"}, {"x", "y"}), {A}))
    @@ ("outNone" :> [In(Text, {}) EXCEPT !.outputs = Side(<<>>, {})])

MCFirst == "move_event" :> "plain"
MCNewForms == ("move_event" :> DOMAIN MCSchema) @@ ("list_colors" :> {"plain"})
MCVersions == {<<1, 0>>, <<1, 1>>, <<2, 0>>, <<2, 1>>}
=============================================================================
