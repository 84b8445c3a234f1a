---------------------------- MODULE PayloadSchema ----------------------------
(***************************************************************************)
(* The validator of payloads (pkg/validate/schema.go).                     *)
(*                                                                         *)
(* A value is [type, content]: what kind of value a decoder made of it and *)
(* how it is spelled.  encoding/json makes a "number" (a float64) of every *)
(* number, yaml an "int" of one without a fraction; null has the spelling  *)
(* fmt gives it.  An object that matters is [type, content, fields].       *)
(*                                                                         *)
(* The schema in a queue's configuration, raw, is                          *)
(*   [isMap, type, required, properties]: type is a value (null: absent),  *)
(*   required a sequence of values (empty: absent or not a list),          *)
(*   properties is [isMap, map] with map a function from names to          *)
(*   [isMap, type, enum], enum a sequence of values.                       *)
(***************************************************************************)
EXTENDS Sequences, Functions

CONSTANT ExponentForm  \* what %v prints of the float64s of a million and more

JsonTypes == {"string", "number", "boolean", "array", "object", "null"}

String(s) == [type |-> "string", content |-> s]
Number(n) == [type |-> "number", content |-> n]
YamlInt(n) == [type |-> "int", content |-> n]
Null      == [type |-> "null", content |-> "<nil>"]
Object(f) == [type |-> "object", content |-> "map", fields |-> f]

\* fmt.Sprint.
Printed(v) ==
    IF v.type = "number" /\ v.content \in DOMAIN ExponentForm
      THEN ExponentForm[v.content]
      ELSE v.content

\* v.(string), with "" for a value that is not a string.
AsString(v) == IF v.type = "string" THEN v.content ELSE ""

\* How a decoder delivers the enums: as lists.
EnumsAreLists(raw) ==
    \A n \in DOMAIN raw.properties.map :
        LET enum == raw.properties.map[n].enum IN enum \in Seq(Range(enum))

\* compileSchema returns an error.
SchemaInvalid(raw) ==
    \/ ~raw.isMap
    \/ raw.type.type = "string" /\ raw.type.content # "object"
    \/ ~raw.properties.isMap

\* Mutant: a name in "required" that is no property is not required.
CompileSchemaListed(raw) ==
    [ Required   |-> { r.content : r \in { v \in Range(raw.required) : v.type = "string" } }
                         \cap DOMAIN raw.properties.map,
      Properties |-> [ n \in { m \in DOMAIN raw.properties.map :
                                 raw.properties.map[m].isMap } |->
                         [ Type |-> AsString(raw.properties.map[n].type),
                           Enum |-> Range(raw.properties.map[n].enum) ] ] ]

\* compileSchema: what is not understood is left out.
CompileSchema(raw) ==
    [ Required   |-> { r.content : r \in { v \in Range(raw.required) : v.type = "string" } },
      Properties |-> [ n \in { m \in DOMAIN raw.properties.map :
                                 raw.properties.map[m].isMap } |->
                         [ Type |-> AsString(raw.properties.map[n].type),
                           Enum |-> Range(raw.properties.map[n].enum) ] ] ]

\* Mutant: the enum is not looked at.
FieldAcceptedByType(prop, v) ==
    prop.Type # "" => v.type = prop.Type

\* The loop over the properties, for one that is present.
FieldAccepted(prop, v) ==
    /\ prop.Type # "" => v.type = prop.Type
    /\ prop.Enum # {} => \E allowed \in prop.Enum : Printed(v) = Printed(allowed)

\* validateAgainstSchema finds no error.
Accepted(schema, data) ==
    /\ data.type = "object"
    /\ schema.Required \subseteq DOMAIN data.fields
    /\ \A n \in DOMAIN schema.Properties \cap DOMAIN data.fields :
          FieldAccepted(schema.Properties[n], data.fields[n])

\* NewValidator: one bad schema and there is no validator at all.
ValidatorFails(raws) == \E q \in DOMAIN raws : SchemaInvalid(raws[q])

\* Validate: a queue without a schema takes everything.
Validates(raws, queue, data) ==
    queue \in DOMAIN raws => Accepted(CompileSchema(raws[queue]), data)

-----------------------------------------------------------------------------
(* What a schema means to the one who writes it, field by field as the      *)
(* table of supported validations (docs/ARCHITECTURE.md, section 2.5) says. *)

SameValue(v, w) ==
    /\ v.content = w.content
    /\ \/ v.type = w.type
       \/ v.type = "number" /\ w.type = "int"

Conforms(raw, data) ==
    /\ data.type = "object"
    /\ \A r \in Range(raw.required) : r.content \in DOMAIN data.fields
    /\ \A n \in DOMAIN raw.properties.map \cap DOMAIN data.fields :
          LET p == raw.properties.map[n]
              v == data.fields[n]
          IN  /\ p.type = Null \/ v.type = p.type.content
              /\ p.enum = <<>> \/ (\E w \in Range(p.enum) : SameValue(v, w))

\* Schemas written with what the table lists.
Documented(raw) ==
    /\ ~SchemaInvalid(raw)
    /\ \A r \in Range(raw.required) : r.type = "string"
    /\ \A n \in DOMAIN raw.properties.map :
          LET p == raw.properties.map[n] IN
          /\ p.isMap
          /\ p.type = Null \/ (p.type.type = "string" /\ p.type.content \in JsonTypes)

\* "Value must be one of the listed values" is checked of what fmt.Sprint makes
\* of both: it may print two values alike, and one value in two ways.
PrintAlike(v, w) == Printed(v) = Printed(w) /\ ~SameValue(v, w)
PrintApart(v, w) == Printed(v) # Printed(w) /\ SameValue(v, w)

\* The payload has a field whose value meets such a member of its enum.
TakenForListed(raw, data) ==
    \E n \in DOMAIN raw.properties.map \cap DOMAIN data.fields :
        \E w \in Range(raw.properties.map[n].enum) : PrintAlike(data.fields[n], w)
ListedMissed(raw, data) ==
    \E n \in DOMAIN raw.properties.map \cap DOMAIN data.fields :
        \E w \in Range(raw.properties.map[n].enum) : PrintApart(data.fields[n], w)

=============================================================================
