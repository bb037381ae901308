----------------------------- MODULE SchemaDiff -----------------------------
(* What the schema gates compare: two tool surfaces, and which of their      *)
(* differences break a caller (scripts/gates/schemadiff.go).                 *)
(*                                                                           *)
(* A surface is a function from the items published to what is published of  *)
(* each: [inputs, outputs].  A side of a tool is [fields, required]:         *)
(* every field by its path, a sequence of names, with the types it may have  *)
(* and the values it is limited to, and which paths are required.  A schema  *)
(* with no type is {AnyType}; one with no list of values has the empty list. *)
(* Descriptions and annotations, which only make an item changed, are left   *)
(* out, and so are the keys of a dump outside its lists.                     *)
EXTENDS Naturals, Sequences, SequencesExt, FiniteSets

AnyType == "any"
Unlimited == {}

\* The path a field sits in, empty at the top.
ParentPath(p) == Front(p)

\* Whether every type narrow allows, wide allows too: no type is any type,
\* and an integer is a number.
TypesCover(wide, narrow) ==
    \/ AnyType \in wide
    \/ /\ AnyType \notin narrow
       /\ narrow \subseteq wide \union
            (IF "number" \in wide THEN {"integer"} ELSE {})

\* An input may take more types than it did, and an output may return fewer.
TypeBreaks(was, now, isInput) ==
    IF isInput THEN ~TypesCover(now, was) ELSE ~TypesCover(was, now)

-----------------------------------------------------------------------------
Top == <<>>

\* What walk records of a schema: a field sits in a field, and a schema
\* requires only what it has.
IsSide(side) ==
    /\ side.fields = [p \in DOMAIN side.fields |-> side.fields[p]]
    /\ \A p \in DOMAIN side.fields :
         /\ p \in Seq(STRING) /\ p # Top
         /\ ParentPath(p) = Top \/ ParentPath(p) \in DOMAIN side.fields
    /\ side.required \subseteq DOMAIN side.fields

ThereIn(side, p) == p = Top \/ p \in DOMAIN side.fields

\* The fields of one side that a kept tool broke.  A field inside one that
\* was removed is not listed again.
Removed(was, now) ==
    {p \in DOMAIN was.fields \ DOMAIN now.fields : ThereIn(now, ParentPath(p))}

Kept(was, now) == DOMAIN was.fields \intersect DOMAIN now.fields

Retyped(was, now, isInput) ==
    {p \in Kept(was, now) : TypeBreaks(was.fields[p].typ, now.fields[p].typ, isInput)}

\* A caller sent this value, and it is refused now.
ValueRefused(was, now) ==
    {p \in Kept(was, now) : /\ now.fields[p].enum # Unlimited
                            /\ ~(was.fields[p].enum \subseteq now.fields[p].enum)}

\* A caller read this field as always there.
MayBeMissing(was, now) ==
    {p \in Kept(was, now) \intersect was.required : p \notin now.required}

NewlyRequiredAtTop(was, now) ==
    {p \in now.required \ was.required : ParentPath(p) = Top}

\* A required field is new to a caller only where its parent was there.
NewlyRequired(was, now) ==
    {p \in now.required \ was.required : ThereIn(was, ParentPath(p))}

BrokenInputs(was, now) ==
    Removed(was, now) \union Retyped(was, now, TRUE)
        \union ValueRefused(was, now) \union NewlyRequired(was, now)

BrokenOutputs(was, now) ==
    Removed(was, now) \union Retyped(was, now, FALSE) \union MayBeMissing(was, now)

-----------------------------------------------------------------------------
\* What is matched across two comparisons: the item and the field of it.
Spot(item, side, path) == [item |-> item, side |-> side, path |-> path]

BrokenFields(prev, cur) ==
    UNION {{Spot(i, "input", p) : p \in BrokenInputs(prev[i].inputs, cur[i].inputs)}
             \union {Spot(i, "output", p) : p \in BrokenOutputs(prev[i].outputs, cur[i].outputs)}
             : i \in DOMAIN prev \intersect DOMAIN cur}

\* What a person should look at in the values a kept field lists: an output
\* that may carry a value it did not list, an input newly limited to a list.
NotedFields(was, now) ==
    \/ \E p \in Kept(was.outputs, now.outputs) :
         LET w == was.outputs.fields[p].enum
             n == now.outputs.fields[p].enum
         IN  w # Unlimited /\ (n = Unlimited \/ ~(n \subseteq w))
    \/ \E p \in Kept(was.inputs, now.inputs) :
         was.inputs.fields[p].enum = Unlimited /\ now.inputs.fields[p].enum # Unlimited

ValueNotes(prev, cur) ==
    {i \in DOMAIN prev \intersect DOMAIN cur : NotedFields(prev[i], cur[i])}

CompareSurfaces(base, cur) ==
    [added    |-> DOMAIN cur \ DOMAIN base,
     changed  |-> {i \in DOMAIN base \intersect DOMAIN cur : base[i] # cur[i]},
     breaking |-> {Spot(i, "removed", Top) : i \in DOMAIN base \ DOMAIN cur}
                    \union BrokenFields(base, cur),
     notes    |-> ValueNotes(base, cur)]

NoChange(c) == c.added = {} /\ c.changed = {} /\ c.breaking = {}

ItemsOf(spots) == {s.item : s \in spots}

-----------------------------------------------------------------------------
(* What a caller relies on, said without the diff.  A document gives the     *)
(* fields sent or read, by path, each a value of some type; an object that   *)
(* is sent says nothing of the fields left out of it.                        *)
CONSTANTS Values,         \* the values a field may hold
          TypesOf         \* the types a value is of: an integer is a number too

Object == "object"

Fits(v, f) ==
    /\ AnyType \in f.typ \/ TypesOf[v] \intersect f.typ # {}
    /\ f.enum = Unlimited \/ v \in f.enum

\* A document the side allows: no field it does not name, each value of its
\* type and list, and every required field of an object that is there.
Allows(side, doc) ==
    /\ DOMAIN doc \subseteq DOMAIN side.fields
    /\ \A p \in DOMAIN doc : Fits(doc[p], side.fields[p])
    /\ \A p \in side.required :
         (ParentPath(p) = Top \/ ParentPath(p) \in DOMAIN doc) => p \in DOMAIN doc

\* The documents over a set of paths: a field is only in an object.
Documents(paths) ==
    {d \in UNION {[ps -> Values] : ps \in SUBSET paths} :
        \A p \in DOMAIN d : ParentPath(p) # Top =>
            ParentPath(p) \in DOMAIN d /\ Object \in TypesOf[d[ParentPath(p)]]}

\* What a caller who knows the old side reads of a result.
ReadBy(side, doc) == [p \in DOMAIN doc \intersect DOMAIN side.fields |-> doc[p]]

\* Every call the old tool took the new one takes, and every result the new
\* one may give the old caller can read.
ServesCallersOf(old, new) ==
    /\ \A d \in Documents(DOMAIN old.inputs.fields) :
         Allows(old.inputs, d) => Allows(new.inputs, d)
    /\ \A d \in Documents(DOMAIN new.outputs.fields) :
         Allows(new.outputs, d) => Allows(old.outputs, ReadBy(old.outputs, d))
=============================================================================
