--------------------------- MODULE MCEventCasting ---------------------------
(***************************************************************************)
(* Small histories of an event type: pairs of versions that change the     *)
(* schema of a field (scalars, objects, arrays with limits, unions of      *)
(* each), pairs that rename, add and remove fields and change whether they *)
(* have to be there, and chains of three versions.                         *)
(***************************************************************************)
EXTENDS EventCasting

KeyOrder == <<"a", "b", "c", "d">>

Str(min, max) == [type |-> "string", min |-> min, max |-> max]
Num(min, max, whole) == [type |-> "number", min |-> min, max |-> max, whole |-> whole]
Enum(options) == [type |-> "enum", options |-> options]
Lit(value) == [type |-> "literal", value |-> value]
Bool == [type |-> "boolean"]
Union(members) == [type |-> "union", members |-> members]
Items(item, min, max) == [type |-> "array", item |-> item, min |-> min, max |-> max]
Arr(item) == Items(item, NoMin, NoMax)
Obj(shape) == [type |-> "object", shape |-> shape]

AnyString == Str(NoMin, NoMax)
AnyNumber == Num(NoMin, NoMax, FALSE)
Length(n) == Scalar("string", n)

Field(schema, optional, default, from) ==
    [schema |-> schema, optional |-> optional, default |-> default, from |-> from]
Plain(schema) == Field(schema, FALSE, {}, {})

\* Objects over these keys with these fields, where a key may be missing.
Shapes(K, F(_)) ==
    UNION {{f \in [D -> UNION {F(k) : k \in D}] : \A k \in D : f[k] \in F(k)} : D \in SUBSET K}

Inner == {
    [c |-> Plain(AnyString)],
    [c |-> Field(AnyString, TRUE, {}, {})],
    [c |-> Plain(AnyString), d |-> Field(AnyString, FALSE, {Length(1)}, {})],
    [d |-> Field(AnyString, FALSE, {}, {"c"})]}

Schemas ==
    {AnyString, Str(1, NoMax), Str(NoMin, 1), AnyNumber, Num(NoMin, NoMax, TRUE), Num(1, 2, FALSE),
     Enum({1}), Enum({1, 2}), Lit(1), Lit(2), Bool,
     Union({AnyString}), Union({AnyString, AnyNumber}), Arr(AnyString),
     Items(AnyString, 1, NoMax), Items(AnyString, NoMin, 0)}
    \cup {Obj(s) : s \in Inner} \cup {Arr(Obj(s)) : s \in Inner}
    \cup {Union({Obj(s)}) : s \in Inner}
    \cup {Union({AnyString, Arr(AnyString)}), Union({Items(AnyString, 1, NoMax)}),
           Union({Obj([c |-> Plain(AnyString)]), Obj([d |-> Plain(AnyNumber)]), AnyNumber}),
           Arr(Union({AnyString, Obj([c |-> Plain(AnyString)])}))}

TypeChanges ==
    {1 :> Obj([a |-> Plain(s)]) @@ 2 :> Obj([k \in {key} |-> Field(t, FALSE, {}, {"a"} \ {key})]) :
        s \in Schemas, t \in Schemas, key \in {"a", "b"}}

Presence == {<<FALSE, {}>>, <<TRUE, {}>>, <<FALSE, {Length(2)}>>}
OldFields(k) == {Field(Str(NoMin, 1), p[1], p[2], {}) : p \in Presence}
NewFields(k) == {Field(AnyString, p[1], p[2], from) :
                    p \in Presence, from \in {{}, {"a"}, {"b"}, {"c"}}}

FieldChanges ==
    {1 :> Obj(s) @@ 2 :> Obj(t) :
        s \in Shapes({"a", "b"}, OldFields), t \in Shapes({"a", "b"}, NewFields)}

ChainFields(k) == {Field(AnyString, p[1], p[2], from) :
                    p \in {<<FALSE, {}>>, <<FALSE, {Length(2)}>>}, from \in {{}, {"a"}, {"b"}} }

Chains ==
    {1 :> Obj([a |-> Plain(Str(NoMin, 1))]) @@ 2 :> Obj(s) @@ 3 :> Obj(t) :
        s \in Shapes({"a", "b"}, ChainFields), t \in Shapes({"a", "b"}, ChainFields)}

\* Versions this application has not been updated to, or no longer knows.
Incomplete ==
    {1 :> Obj([a |-> Plain(AnyString)]) @@ 3 :> Obj([a |-> Plain(AnyString)]),
     2 :> Obj([a |-> Plain(AnyString)])}

AllHistories == TypeChanges \cup FieldChanges \cup Chains \cup Incomplete
=============================================================================
