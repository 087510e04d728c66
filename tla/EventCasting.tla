---------------------------- MODULE EventCasting ----------------------------
(***************************************************************************)
(* The casting of an event between the versions of its type                *)
(* (EventCaster.ts), as EventRegistry.get asks for it when a projector has *)
(* handlers for other versions only, or as an application calls it.        *)
(*                                                                         *)
(* A schema is a record with a type.  An object has a shape: a function    *)
(* from its keys to fields, where a field has a schema, may be optional,   *)
(* may have a default (a set of at most one value; it makes the field      *)
(* optional, as a parser accepts that it is missing), and may be renamed   *)
(* from another key (a set of at most one key, its meta field).  A scalar  *)
(* is its type and a number: the length of a string, twice the value of a  *)
(* number, the index of an option or literal.  Null is left out: neither   *)
(* the analysis nor the transformation looks at nullable schemas.          *)
(*                                                                         *)
(* Analyze and Transform are recursive as in the code, so that this module *)
(* has no theorems.                                                        *)
(***************************************************************************)
EXTENDS Integers, FiniteSets, SequencesExt

CONSTANTS Keys,       \* the keys of objects, in the order schemas list them
          Versions,   \* the versions of the event type
          Histories,  \* the event classes an application may know: functions
                      \* from versions to schemas
          MaxSize,    \* bound on scalars
          MaxItems    \* bound on the items of an array

KeySet == ToSet(Keys)
NoMin == -1                 \* -Infinity
NoMax == MaxSize + 1        \* Infinity
Up == "up"
Down == "down"

ASSUME EventCastingAssumption ==
    /\ IsInjective(Keys)
    /\ Versions \subseteq Nat \ {0} /\ IsFiniteSet(Versions)
    /\ MaxSize \in Nat /\ MaxItems \in 0..MaxSize
    /\ \A h \in Histories :
        /\ DOMAIN h \subseteq Versions
        /\ \A v \in DOMAIN h : h[v].type = "object"

Scalars == {"string", "number", "boolean", "enum", "literal"}

Scalar(t, n) == [type |-> t, n |-> n]
Object(fields) == [type |-> "object", fields |-> fields]
Array(items) == [type |-> "array", items |-> items]
Opaque == [type |-> "unknown"]     \* what a schema that is not known describes
Thrown == [type |-> "thrown"]      \* a transformation that throws

Required(field) == ~field.optional /\ field.default = {}
IsOptional(field) == ~Required(field)

(***************************************************************************)
(* The payloads of a schema: what Event.validate returns, with defaults    *)
(* filled in and unknown keys removed.                                     *)
(***************************************************************************)
RECURSIVE Payloads(_)
Payloads(s) ==
    CASE s.type = "string" ->
            {Scalar("string", n) : n \in {m \in 0..MaxSize : s.min <= m /\ m <= s.max}}
      [] s.type = "number" ->
            {Scalar("number", n) : n \in {m \in 0..MaxSize :
                s.min <= m /\ m <= s.max /\ (s.whole => m % 2 = 0)}}
      [] s.type = "boolean" -> {Scalar("boolean", n) : n \in {0, 1}}
      [] s.type = "enum" -> {Scalar("enum", n) : n \in s.options}
      [] s.type = "literal" -> {Scalar("literal", s.value)}
      [] s.type = "union" -> UNION {Payloads(m) : m \in s.members}
      [] s.type = "array" ->
            {Array(q) : q \in UNION {[1..n -> Payloads(s.item)] :
                n \in {m \in 0..MaxItems : s.min <= m /\ m <= s.max}}}
      [] s.type = "object" ->
            LET values == [k \in DOMAIN s.shape |-> Payloads(s.shape[k].schema)]
                present == {K \in SUBSET DOMAIN s.shape :
                    \A k \in DOMAIN s.shape \ K :
                        s.shape[k].optional /\ s.shape[k].default = {}}
            IN {Object(f) : f \in UNION {
                    {g \in [K -> UNION {values[k] : k \in K}] :
                        \A k \in K : g[k] \in values[k]} : K \in present}}
-----------------------------------------------------------------------------
(***************************************************************************)
(* EventCaster.analyze: the kinds of errors between two schemas.           *)
(***************************************************************************)

\* The renamed fields are those of the newer schema: the target of an
\* upcast, the source of a downcast.
Newer(d, s, t) == IF d = Up THEN t.shape ELSE s.shape
Older(d, s, t) == IF d = Up THEN s.shape ELSE t.shape

RenamedIn(shape) == {k \in DOMAIN shape : shape[k].from # {}}
KnownIn(newer, older) == {k \in RenamedIn(newer) : newer[k].from \subseteq DOMAIN older}
OldNames(newer, keys) == UNION {newer[k].from : k \in keys}

RenameErrors(newer, older) ==
    LET known == KnownIn(newer, older) IN
    {e \in {"RENAMED_FROM_UNKNOWN_PROPERTY"} : known # RenamedIn(newer)}
    \cup {e \in {"AMBIGUOUS_PROPERTY_NAME"} :
            \E j, k \in known : j # k /\ newer[j].from = newer[k].from}

\* Mutant: a field may become required.
FieldErrorsUnlessAdded(d, sShape, tShape) ==
    {e \in {"REQUIRED_FIELD_ADDED"} :
        d = Up /\ \E k \in DOMAIN tShape \ DOMAIN sShape : Required(tShape[k])}
    \cup {e \in {"REQUIRED_FIELD_REMOVED"} :
        d = Down /\ \E k \in DOMAIN sShape \ DOMAIN tShape : Required(sShape[k])}

\* The comparison of the fields that are not renamed.
FieldErrors(d, sShape, tShape) ==
    LET added == DOMAIN tShape \ DOMAIN sShape
        removed == DOMAIN sShape \ DOMAIN tShape
        both == DOMAIN sShape \cap DOMAIN tShape
    IN {e \in {"REQUIRED_FIELD_ADDED"} :
            d = Up /\ \E k \in added : Required(tShape[k])}
       \cup {e \in {"REQUIRED_FIELD_REMOVED"} :
            d = Down /\ \E k \in removed : Required(sShape[k])}
       \cup {e \in {"FIELD_NOW_REQUIRED"} :
            d = Up /\ \E k \in both : IsOptional(sShape[k]) /\ Required(tShape[k])}

AnalyzeEnum(d, s, t) ==
    {e \in {"VARIANT_REMOVED"} : d = Up /\ ~(s.options \subseteq t.options)}
    \cup {e \in {"VARIANT_ADDED"} : d = Down /\ ~(t.options \subseteq s.options)}

\* The direction guards only the first half of each condition.
AnalyzeString(d, s, t) ==
    {e \in {"SCALAR_TYPE_WIDENED"} : (d = Down /\ t.min < s.min) \/ t.max > s.max}
    \cup {e \in {"SCALAR_TYPE_NARROWED"} : (d = Up /\ t.min > s.min) \/ t.max < s.max}

AnalyzeNumber(d, s, t) ==
    {e \in {"SCALAR_TYPE_WIDENED"} :
        d = Down /\ ((s.whole /\ ~t.whole) \/ t.min < s.min \/ t.max > s.max)}
    \cup {e \in {"SCALAR_TYPE_NARROWED"} :
        d = Up /\ ((~s.whole /\ t.whole) \/ t.min > s.min \/ t.max < s.max)}

AnalyzeLiteral(s, t) == {e \in {"SCALAR_TYPE_WIDENED"} : s.value # t.value}

RECURSIVE Analyze(_, _, _)
AnalyzeObject(d, s, t) ==
    LET newer == Newer(d, s, t)
        older == Older(d, s, t)
        known == KnownIn(newer, older)
        oldNames == OldNames(newer, known)
        sHidden == IF d = Up THEN oldNames ELSE known
        tHidden == IF d = Up THEN known ELSE oldNames
        sShape == Restrict(s.shape, DOMAIN s.shape \ sHidden)
        tShape == Restrict(t.shape, DOMAIN t.shape \ tHidden)
        pairs == {<<k, k>> : k \in DOMAIN sShape \cap DOMAIN tShape}
                 \cup (IF d = Up
                       THEN {<<CHOOSE f \in newer[k].from : TRUE, k>> : k \in known}
                       ELSE {<<k, CHOOSE f \in newer[k].from : TRUE>> : k \in known})
    IN RenameErrors(newer, older) \cup FieldErrors(d, sShape, tShape)
       \cup UNION {Analyze(d, s.shape[p[1]].schema, t.shape[p[2]].schema) : p \in pairs}

AnalyzeUnion(d, s, t) ==
    {e \in {"SCALAR_TYPE_WIDENED"} :
        \/ d = Up /\ \E m \in s.members : \A n \in t.members : Analyze(d, m, n) # {}
        \/ d = Down /\ \E n \in t.members : \A m \in s.members : Analyze(d, m, n) # {}}

Analyze(d, s, t) ==
    IF s.type # t.type THEN {"TYPE_MISMATCH"} ELSE
    CASE s.type = "object" -> AnalyzeObject(d, s, t)
      [] s.type = "array" -> Analyze(d, s.item, t.item)
      [] s.type = "enum" -> AnalyzeEnum(d, s, t)
      [] s.type = "string" -> AnalyzeString(d, s, t)
      [] s.type = "number" -> AnalyzeNumber(d, s, t)
      [] s.type = "union" -> AnalyzeUnion(d, s, t)
      [] s.type = "literal" -> AnalyzeLiteral(s, t)
      [] OTHER -> {}

IsCastable(d, s, t) == Analyze(d, s, t) = {}
-----------------------------------------------------------------------------
(***************************************************************************)
(* EventCaster.transform: a payload of one schema in terms of another.     *)
(***************************************************************************)

\* Mutant: the value stays under its former name.
Copy(fields, from, to) ==
    IF from \notin DOMAIN fields THEN fields ELSE
    [k \in DOMAIN fields \cup {to} |-> IF k = to THEN fields[from] ELSE fields[k]]

\* payload[to] = payload[from]; delete payload[from]
Move(fields, from, to) ==
    IF from \notin DOMAIN fields THEN fields ELSE
    [k \in (DOMAIN fields \cup {to}) \ {from} |->
        IF k = to THEN fields[from] ELSE fields[k]]

\* Mutant: a downcast does not rename.
RenameUpOnly(d, newer, fields) ==
    LET old(k) == CHOOSE f \in newer[k].from : TRUE
        step(acc, k) == IF d = Up THEN Move(acc, old(k), k) ELSE acc
    IN FoldLeft(step, fields, SelectSeq(Keys, LAMBDA k : k \in RenamedIn(newer)))

\* The renames, one after the other in the order of the newer schema.
Rename(d, newer, fields) ==
    LET old(k) == CHOOSE f \in newer[k].from : TRUE
        step(acc, k) == IF d = Up THEN Move(acc, old(k), k) ELSE Move(acc, k, old(k))
    IN FoldLeft(step, fields, SelectSeq(Keys, LAMBDA k : k \in RenamedIn(newer)))

Missing(shape, fields) ==
    {k \in DOMAIN shape \ DOMAIN fields : shape[k].default = {}}

\* Defaults are added, and keys the target does not have removed.
Fit(shape, fields) ==
    [k \in DOMAIN shape \ Missing(shape, fields) |->
        IF k \in DOMAIN fields THEN fields[k]
        ELSE CHOOSE v \in shape[k].default : TRUE]

Strictly(strict, shape, fields) ==
    strict /\ \E k \in Missing(shape, fields) : Required(shape[k])

\* A scalar (after a change of type) takes no field, and the characters of a
\* string cannot be removed from it.
TransformScalar(t, p, strict) ==
    IF \/ \E k \in DOMAIN t.shape : t.shape[k].default # {}
       \/ Strictly(strict, t.shape, <<>>)
       \/ p.type = "enum"
       \/ p.type = "string" /\ p.n > 0
    THEN Thrown ELSE p

RECURSIVE Transform(_, _, _, _, _)
TransformObject(d, s, t, p, strict) ==
    LET moved == Rename(d, Newer(d, s, t), p.fields)
        fields == Fit(t.shape, moved)
        next == [k \in DOMAIN fields |->
                    IF k \in DOMAIN s.shape
                    THEN Transform(d, s.shape[k].schema, t.shape[k].schema, fields[k], strict)
                    ELSE fields[k]]
    IN IF \/ Strictly(strict, t.shape, moved)
          \/ \E k \in DOMAIN next : next[k] = Thrown
       THEN Thrown ELSE Object(next)

TransformArray(d, s, t, p, strict) ==
    LET items == [i \in DOMAIN p.items |->
                    IF s.type = "array" THEN Transform(d, s.item, t.item, p.items[i], strict)
                    ELSE Thrown]
    IN IF \E i \in DOMAIN items : items[i] = Thrown THEN Thrown ELSE Array(items)

\* The type of the target decides.
Transform(d, s, t, p, strict) ==
    CASE t.type = "object" ->
            IF s.type # "object" /\ (d = Down \/ DOMAIN t.shape # {}) THEN Thrown
            ELSE IF p.type # "object" THEN TransformScalar(t, p, strict)
            ELSE TransformObject(d, s, t, p, strict)
      [] t.type = "array" ->
            IF p.type = "array" THEN TransformArray(d, s, t, p, strict)
            ELSE IF strict THEN Thrown ELSE p
      [] OTHER -> p
-----------------------------------------------------------------------------
VARIABLES
    classes,   \* eventMap[type]: the schemas of the versions that are known
    received,  \* the event as it was stored
    pc,        \* "called", "casting", "fallback", "done", "failed"
    payload,   \* event.payload, transformed step by step
    version,   \* the version that payload has reached
    target,    \* targetVersion
    strict     \* options.strict

vars == <<classes, received, pc, payload, version, target, strict>>

Init ==
    /\ classes \in Histories
    /\ \E v \in Versions :
        \E p \in IF v \in DOMAIN classes THEN Payloads(classes[v]) ELSE {Opaque} :
            /\ received = [version |-> v, payload |-> p]
            /\ payload = p
            /\ version = v
            /\ target = v
    /\ pc = "called"
    /\ strict = FALSE

Direction == IF target > received.version THEN Up ELSE Down

\* cast, up to its loop; "eventMap is not up to date" asks the fallback.
BeginCast(t, s, hasFallback) ==
    /\ target' = t
    /\ strict' = s
    /\ pc' = IF version = t THEN "done"
             ELSE IF {version, t} \subseteq DOMAIN classes THEN "casting"
             ELSE IF hasFallback THEN "fallback" ELSE "failed"
    /\ UNCHANGED <<classes, received, payload, version>>

\* The head of #handlerVersions.
LatestHandled(handlers) == Max(handlers)

\* EventRegistry.get with the versions a projector handles.
Get(handlers, hasFallback) ==
    /\ pc = "called"
    /\ IF handlers = {} \/ version \in handlers
       THEN pc' = "done" /\ UNCHANGED <<classes, received, payload, version, target, strict>>
       ELSE BeginCast(LatestHandled(handlers), FALSE, hasFallback)

\* EventCaster.cast called by the application.
Cast(t, s, hasFallback) == pc = "called" /\ BeginCast(t, s, hasFallback)

\* One turn of the loop; a version that is missing in between has no schema.
CastStep ==
    /\ pc = "casting"
    /\ LET v == IF Direction = Up THEN version + 1 ELSE version - 1
           result == IF v \in DOMAIN classes
                     THEN Transform(Direction, classes[version], classes[v], payload, strict)
                     ELSE Thrown
       IN IF result = Thrown
          THEN pc' = "failed" /\ UNCHANGED <<payload, version>>
          ELSE /\ payload' = result
               /\ version' = v
               /\ pc' = IF v = target THEN "done" ELSE "casting"
    /\ UNCHANGED <<classes, received, target, strict>>

\* The application's fallback answers, or rejects.
FallbackAnswers ==
    /\ pc = "fallback"
    /\ \/ pc' = "done" /\ payload' = Opaque /\ version' = target
       \/ pc' = "failed" /\ UNCHANGED <<payload, version>>
    /\ UNCHANGED <<classes, received, target, strict>>

Next ==
    \/ \E handlers \in SUBSET Versions, f \in BOOLEAN : Get(handlers, f)
    \/ \E t \in Versions, s \in BOOLEAN, f \in BOOLEAN : Cast(t, s, f)
    \/ CastStep
    \/ FallbackAnswers

Spec == Init /\ [][Next]_vars
-----------------------------------------------------------------------------
(***************************************************************************)
(* Type invariant: the parts of a call are what the code keeps in them.    *)
(***************************************************************************)
TypeOK ==
    /\ DOMAIN classes \subseteq Versions
    /\ received.version \in Versions
    /\ pc \in {"called", "casting", "fallback", "done", "failed"}
    /\ payload.type \in Scalars \cup {"object", "array", "unknown"}
    /\ version \in Versions /\ target \in Versions
    /\ strict \in BOOLEAN
    /\ pc \in {"casting", "fallback"} => version # target

\* The casts of a call that uses the schemas of its application.
Steps ==
    IF Direction = Up THEN {v \in Versions : received.version <= v /\ v < target}
    ELSE {v \in Versions : target < v /\ v <= received.version}
After(v) == IF Direction = Up THEN v + 1 ELSE v - 1
AllKnown == (Steps \cup {target}) \subseteq DOMAIN classes

(***************************************************************************)
(* Renames are kept apart if no key is both renamed and a former name, if  *)
(* only scalars are renamed or take a former name, if no renamed field     *)
(* becomes required, and if a new name that was in use before, or a former *)
(* name that is in use again, belongs to a field whose counterpart is      *)
(* always there.  Otherwise the renames overwrite each other, leave the    *)
(* value of another field in place, or miss what the analysis reports of   *)
(* fields that keep their name.                                            *)
(***************************************************************************)
RECURSIVE KeepsApart(_, _)
KeepsApart(old, new) ==
    CASE old.type = "object" /\ new.type = "object" ->
            LET renamed == RenamedIn(new.shape)
                former == OldNames(new.shape, renamed)
                field(k) == old.shape[CHOOSE f \in new.shape[k].from : TRUE]
            IN /\ renamed = KnownIn(new.shape, old.shape)
               /\ renamed \cap former = {}
               /\ \A k \in renamed :
                    /\ new.shape[k].schema.type \in Scalars
                    /\ field(k).schema.type \in Scalars
                    /\ Required(new.shape[k]) => Required(field(k))
                    /\ k \in DOMAIN old.shape =>
                        Required(field(k)) /\ old.shape[k].schema.type \in Scalars
                    /\ new.shape[k].from \cap DOMAIN new.shape # {} => Required(new.shape[k])
               /\ \A f \in former \cap DOMAIN new.shape : new.shape[f].schema.type \in Scalars
               /\ \A k \in (DOMAIN old.shape \cap DOMAIN new.shape) \ (renamed \cup former) :
                    KeepsApart(old.shape[k].schema, new.shape[k].schema)
      [] old.type = "array" /\ new.type = "array" -> KeepsApart(old.item, new.item)
      [] OTHER -> TRUE

CleanStep(v) ==
    IF Direction = Up THEN KeepsApart(classes[v], classes[After(v)])
    ELSE KeepsApart(classes[After(v)], classes[v])

(***************************************************************************)
(* What transform does not carry out, although analyze finds no error: it  *)
(* knows no unions, so that an alternative with fields or items passes as  *)
(* it is, which surely fits only a union with the same alternative; and    *)
(* the limits of an array are not compared.  Changes are seen if there are *)
(* no other unions, and if no limits become narrower.                      *)
(***************************************************************************)
RECURSIVE IsSeen(_, _)
IsSeen(old, new) ==
    CASE old.type = "object" /\ new.type = "object" ->
            \A k \in (DOMAIN old.shape \cap DOMAIN new.shape) \ RenamedIn(new.shape) :
                IsSeen(old.shape[k].schema, new.shape[k].schema)
      [] old.type = "array" /\ new.type = "array" ->
            new.min <= old.min /\ old.max <= new.max /\ IsSeen(old.item, new.item)
      [] old.type = "union" /\ new.type = "union" ->
            \A m \in old.members : m.type \in Scalars \/ m \in new.members
      [] OTHER -> TRUE

(***************************************************************************)
(* What a cast promises, whatever the order of its loops: every field of   *)
(* the target takes the value of its counterpart, else its default.        *)
(***************************************************************************)
Counterpart(d, s, t, k) ==
    IF d = Up
    THEN IF t.shape[k].from # {} THEN t.shape[k].from
         ELSE ({k} \cap DOMAIN s.shape) \ OldNames(t.shape, RenamedIn(t.shape))
    ELSE LET renamed == {j \in RenamedIn(s.shape) : s.shape[j].from = {k}}
         IN IF renamed # {} THEN renamed
            ELSE ({k} \cap DOMAIN s.shape) \ RenamedIn(s.shape)

RECURSIVE Specified(_, _, _, _)
Specified(d, s, t, p) ==
    CASE t.type = "object" ->
            LET given(k) == Counterpart(d, s, t, k) \cap DOMAIN p.fields
                there == {k \in DOMAIN t.shape : given(k) # {} \/ t.shape[k].default # {}}
            IN Object([k \in there |->
                IF given(k) = {} THEN CHOOSE v \in t.shape[k].default : TRUE
                ELSE LET j == CHOOSE j \in given(k) : TRUE
                     IN Specified(d, s.shape[j].schema, t.shape[k].schema, p.fields[j])])
      [] t.type = "array" ->
            Array([i \in DOMAIN p.items |-> Specified(d, s.item, t.item, p.items[i])])
      [] OTHER -> p

(***************************************************************************)
(* Every step of a cast between schemas of the same types moves, drops and *)
(* fills in the fields of a valid payload as specified, at any depth and   *)
(* in both directions, also when the analysis finds other errors.          *)
(***************************************************************************)
StepsAsSpecified ==
    [][version' # version /\ pc = "casting" /\ CleanStep(version)
        /\ payload \in Payloads(classes[version])
        /\ "TYPE_MISMATCH" \notin Analyze(Direction, classes[version], classes[version'])
        => payload' = Specified(Direction, classes[version], classes[version'], payload)]_vars

(***************************************************************************)
(* The analysis is sound for upcasts: when it finds no error between any   *)
(* two neighbouring versions, every stored payload is cast, strictly or    *)
(* not, to a payload that the schema of the target accepts.  Renames have  *)
(* to be kept apart, and what changes has to be seen: the comment of       *)
(* transform (EventCaster.ts:629) asks for neither, but without them the   *)
(* code gets it wrong.                                                     *)
(***************************************************************************)
UpcastIsValid ==
    /\ pc \in {"done", "failed"} /\ Direction = Up /\ AllKnown
    /\ \A v \in Steps :
        /\ IsCastable(Up, classes[v], classes[v + 1])
        /\ CleanStep(v)
        /\ IsSeen(classes[v], classes[v + 1])
    => /\ pc = "done"
       /\ version = target => payload \in Payloads(classes[target])

(***************************************************************************)
(* A consumer that is older and one that is newer agree: a payload that    *)
(* was cast up one version and back has every scalar it had before whose   *)
(* field has a counterpart.                                                *)
(***************************************************************************)
RoundTrip ==
    pc = "done" /\ Direction = Up /\ version = target
    /\ target = received.version + 1 /\ AllKnown /\ CleanStep(received.version)
    => LET old == classes[received.version]
           new == classes[target]
           back == Transform(Down, new, old, payload, FALSE)
       IN \A k \in DOMAIN received.payload.fields :
            /\ \E j \in DOMAIN new.shape : k \in Counterpart(Up, old, new, j)
            /\ received.payload.fields[k].type \in Scalars
            => /\ k \in DOMAIN back.fields
               /\ back.fields[k] = received.payload.fields[k]
=============================================================================
