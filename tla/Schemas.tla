------------------------------ MODULE Schemas ------------------------------
(***************************************************************************)
(* The Pydantic bridge (pydantic_bridge.py): clients create, replace and   *)
(* delete schemas, have data validated against them and have code          *)
(* generated from them. A validation looks its schema up, judges every     *)
(* field, and adds its result to the history of the schema's name, making  *)
(* the list when there is none: to look and to make are two steps. The     *)
(* history outlives the schema.                                            *)
(*                                                                         *)
(* A value has a kind and a size: the length of a string, the number that  *)
(* a number or a boolean counts as. The generated Python and TypeScript    *)
(* are text for people and are left out, the generated JSON Schema is      *)
(* judged by what it accepts.                                              *)
(***************************************************************************)
EXTENDS BridgeThreads

CONSTANTS SchemaNames, FieldNames,
          SchemaFields,    \* the fields that clients define
          DataValues,      \* the values that clients have validated
          Lowered,         \* Lowered[w]: the type name w in lower case
          ValidationBound  \* bound on the validations

Absent == [kind |-> "absent", size |-> 0]
Null == [kind |-> "null", size |-> 0]
NoLimit == 0 - 1   \* None: no client sets a bound of -1

VARIABLES schemas,     \* schemas[n]: the fields of schema n by name
          history,     \* history[n]: the validations recorded under n
          schemaCall,  \* schemaCall[t]: how far the request of thread t is
          validated,   \* validations so far; they are numbered
          kept         \* kept[n]: those recorded when nobody was about to make n's list

schemaVars == <<schemas, history, schemaCall, validated, kept>>

---------------------------------------------------------------------------
(* What a validation accepts. Python's bool is an int: it passes for an    *)
(* int and for a float, and is compared with the bounds of a number.       *)

Kinds == [str |-> {"str"}, int |-> {"int", "bool"}, float |-> {"int", "float", "bool"},
          bool |-> {"bool"}, list |-> {"list"}, dict |-> {"dict"}]

PlainTypes == DOMAIN Kinds

Numbers == {"int", "float", "bool"}

Missing(v) == v.kind \in {"absent", "null"}

\* A type is known by its name in lower case, an unknown one admits everything.
TypeFits(f, v) == Lowered[f.type] \in PlainTypes => v.kind \in Kinds[Lowered[f.type]]

\* A minimal length of 0 is as good as none, and so is a maximal length of 0.
\* A pattern is the set of the lengths it matches.
StringFits(f, v) ==
  v.kind = "str" => /\ f.min_length > 0 => v.size >= f.min_length
                    /\ f.max_length > 0 => v.size <= f.max_length
                    /\ f.pattern # {} => v.size \in f.pattern

\* Mutant: a bound of 0 is as good as none.
RangeFitsTruthy(f, v) ==
  v.kind \in Numbers => /\ f.minimum > 0 => v.size >= f.minimum
                        /\ f.maximum > 0 => v.size <= f.maximum

RangeFits(f, v) ==
  v.kind \in Numbers => /\ f.minimum # NoLimit => v.size >= f.minimum
                        /\ f.maximum # NoLimit => v.size <= f.maximum

SamePythonValue(e, v) == e = v \/ ({e.kind, v.kind} \subseteq Numbers /\ e.size = v.size)

EnumFits(f, v) == f.enum # {} => \E e \in f.enum : SamePythonValue(e, v)

Accepts(f, v) ==
  IF Missing(v) THEN ~f.required
  ELSE TypeFits(f, v) /\ StringFits(f, v) /\ RangeFits(f, v) /\ EnumFits(f, v)

Valid(schema, data) == \A x \in DOMAIN schema : Accepts(schema[x], data[x])

---------------------------------------------------------------------------
(* What the generated JSON Schema accepts: a float without a fraction, as  *)
(* all floats are here, is an integer; patterns are not in it. The OpenAPI *)
(* schema has the types only. A type that is spelt in any other way than   *)
(* the plain ones is copied into both: it is a type of JSON Schema, or the *)
(* schema is invalid and accepts nothing.                                  *)

JsonNumbers == {"int", "float"}

JsonNames == [str |-> "string", int |-> "integer", float |-> "number",
              bool |-> "boolean", list |-> "array", dict |-> "object"]

JsonKinds == [string |-> {"str"}, integer |-> JsonNumbers, number |-> JsonNumbers,
              boolean |-> {"bool"}, array |-> {"list"}, object |-> {"dict"}, null |-> {"null"}]

JsonType(f) == IF f.type \in PlainTypes THEN JsonNames[f.type] ELSE f.type

JsonTypeFits(f, v) == JsonType(f) \in DOMAIN JsonKinds /\ v.kind \in JsonKinds[JsonType(f)]

\* Both kinds of names are in lower case as they are.
ASSUME LoweredAssumption ==
  \A w \in PlainTypes \cup DOMAIN JsonKinds : w \in DOMAIN Lowered /\ Lowered[w] = w

SameJsonValue(e, v) == e = v \/ ({e.kind, v.kind} \subseteq JsonNumbers /\ e.size = v.size)

OpenApiAccepts(f, v) == IF v = Absent THEN ~f.required ELSE JsonTypeFits(f, v)

JsonAccepts(f, v) ==
  /\ OpenApiAccepts(f, v)
  /\ v.kind = "str" => /\ f.min_length > 0 => v.size >= f.min_length
                       /\ f.max_length > 0 => v.size <= f.max_length
  /\ v.kind \in JsonNumbers => /\ f.minimum # NoLimit => v.size >= f.minimum
                               /\ f.maximum # NoLimit => v.size <= f.maximum
  /\ f.enum # {} /\ v # Absent => \E e \in f.enum : SameJsonValue(e, v)

---------------------------------------------------------------------------
SchemaCreate(t, n, fields) ==
  /\ At(schemaCall, t, "idle")
  /\ schemas' = Put(schemas, n, fields)
  /\ UNCHANGED <<history, schemaCall, validated, kept>>

\* Mutant: the history goes with the schema.
SchemaForget(t, n) ==
  /\ At(schemaCall, t, "idle")
  /\ schemas' = [s \in DOMAIN schemas \ {n} |-> schemas[s]]
  /\ history' = [s \in DOMAIN history \ {n} |-> history[s]]
  /\ UNCHANGED <<schemaCall, validated, kept>>

SchemaDelete(t, n) ==
  /\ At(schemaCall, t, "idle") /\ n \in DOMAIN schemas
  /\ schemas' = [s \in DOMAIN schemas \ {n} |-> schemas[s]]
  /\ UNCHANGED <<history, schemaCall, validated, kept>>

StartValidation(t, n) ==
  /\ At(schemaCall, t, "idle")
  /\ n \in DOMAIN schemas /\ validated < ValidationBound
  /\ validated' = validated + 1
  /\ schemaCall' = [schemaCall EXCEPT ![t] = [at |-> "found", name |-> n, id |-> validated + 1]]
  /\ UNCHANGED <<schemas, history, kept>>

\* The schema was deleted since it was found: the request fails.
SchemaGone(t) ==
  /\ At(schemaCall, t, "found") /\ schemaCall[t].name \notin DOMAIN schemas
  /\ schemaCall' = [schemaCall EXCEPT ![t] = Idle]
  /\ UNCHANGED <<schemas, history, validated, kept>>

\* The schema is judged as it was looked up, then the history is asked for.
Judge(t) ==
  LET n == schemaCall[t].name IN
  /\ At(schemaCall, t, "found") /\ n \in DOMAIN schemas
  /\ \E data \in [DOMAIN schemas[n] -> DataValues] :
       schemaCall' = [schemaCall EXCEPT ![t] =
         [at |-> IF n \in DOMAIN history THEN "record" ELSE "list", name |-> n,
          id |-> schemaCall[t].id, valid |-> Valid(schemas[n], data)]]
  /\ UNCHANGED <<schemas, history, validated, kept>>

MakeHistory(t) ==
  /\ At(schemaCall, t, "list")
  /\ history' = Put(history, schemaCall[t].name, {})
  /\ schemaCall' = [schemaCall EXCEPT ![t].at = "record"]
  /\ UNCHANGED <<schemas, validated, kept>>

\* Requests about to make the list of n.
Makers(n) == {t \in Threads : At(schemaCall, t, "list") /\ schemaCall[t].name = n}

RecordValidation(t) ==
  LET n == schemaCall[t].name
      result == [id |-> schemaCall[t].id, valid |-> schemaCall[t].valid]
  IN
  /\ At(schemaCall, t, "record")
  /\ history' = [history EXCEPT ![n] = @ \cup {result}]
  /\ kept' = IF Makers(n) = {} THEN [kept EXCEPT ![n] = @ \cup {result}] ELSE kept
  /\ schemaCall' = [schemaCall EXCEPT ![t] = Idle]
  /\ UNCHANGED <<schemas, validated>>

\* The embedding program closes the bridge once it serves no request.
CloseSchemas ==
  /\ schemaCall = AllIdle
  /\ schemas' = << >> /\ history' = << >>
  /\ kept' = [n \in SchemaNames |-> {}]
  /\ UNCHANGED <<schemaCall, validated>>

SchemaInit ==
  /\ schemas = << >> /\ history = << >>
  /\ schemaCall = AllIdle /\ validated = 0
  /\ kept = [n \in SchemaNames |-> {}]

SchemaNext ==
  \/ \E t \in Threads :
       \/ \E n \in SchemaNames, xs \in SUBSET FieldNames :
            \E fields \in [xs -> SchemaFields] : SchemaCreate(t, n, fields)
       \/ \E n \in SchemaNames : SchemaDelete(t, n)
       \/ \E n \in SchemaNames : StartValidation(t, n)
       \/ SchemaGone(t) \/ Judge(t) \/ MakeHistory(t) \/ RecordValidation(t)
  \/ CloseSchemas

SchemaSpec == SchemaInit /\ [][SchemaNext]_schemaVars

---------------------------------------------------------------------------
SchemaTypeOK ==
  /\ \A n \in DOMAIN schemas :
       n \in SchemaNames /\ schemas[n] \in [DOMAIN schemas[n] -> SchemaFields]
  /\ DOMAIN history \subseteq SchemaNames
  /\ validated \in Nat

\* Two first validations of a name may make its list twice and lose what was
\* recorded in between. Once nobody is about to make the list every result is
\* kept for good, whatever becomes of the schema
\* (pydantic_bridge.py, schema_validate and schema_delete).
SettledIsKept ==
  \A n \in SchemaNames : kept[n] # {} =>
    n \in DOMAIN history /\ kept[n] \subseteq history[n]

\* Booleans that meet numbers, and floats that meet integers.
Blurred(f, v) ==
  \/ v.kind = "bool" /\ \/ f.type \in JsonNumbers
                        \/ f.minimum # NoLimit \/ f.maximum # NoLimit
                        \/ \E e \in f.enum : e.kind \in JsonNumbers
  \/ v.kind \in JsonNumbers /\ \E e \in f.enum : e.kind = "bool"
  \/ v.kind = "float" /\ f.type = "int"

\* What a generated JSON Schema accepts, validation accepts unless a pattern
\* forbids it, whatever the type is called; and what validation accepts, the
\* schemas generated from the same definition accept if the type has one of the
\* six plain names. Of any other name that is not said, for it does not hold:
\* validation takes Int for int and everything for an integer, the generators
\* write both names down as they are. Excepted are null, which validation takes
\* for absent, and the values that Python and JSON Schema do not tell apart alike
\* (pydantic_bridge.py, schema_validate, _generate_json and _generate_openapi).
SchemasAgree ==
  \A n \in DOMAIN schemas : \A x \in DOMAIN schemas[n] : \A v \in DataValues \ {Null} :
    LET f == schemas[n][x] IN
    ~Blurred(f, v) =>
      /\ JsonAccepts(f, v) /\ f.pattern = {} => Accepts(f, v)
      /\ f.type \in PlainTypes /\ Accepts(f, v) => JsonAccepts(f, v) /\ OpenApiAccepts(f, v)

==========================================================================
