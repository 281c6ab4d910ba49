----------------------------- MODULE MCBridges -----------------------------
(***************************************************************************)
(* Instances of Bridges for TLC.                                           *)
(***************************************************************************)
EXTENDS Bridges, TLC

CONSTANTS n1, n2, design, build, tool

\* One field alone, or both at once; the second may hold a value that raises.
MCFieldSets ==
  {n1 :> "good", (n1 :> "good") @@ (n2 :> "bad"), (n1 :> "bad") @@ (n2 :> "odd")}

MCProcedures == {<<design, build>>, << >>}

\* Lists, look-ups and unknown names, called straight away and by the caller.
MCChains == {<<CallTool, CallTool, ListTools>>, <<"mcp_complete">>, <<CallTool, tool>>, <<CallTool>>}

Field(type, required, low, high, enum) ==
  LET isText == type \in {"str", "string"} IN
  [type |-> type, required |-> required,
   min_length |-> IF isText THEN low ELSE NoLimit, max_length |-> IF isText THEN high ELSE NoLimit,
   minimum |-> IF isText THEN NoLimit ELSE low, maximum |-> IF isText THEN NoLimit ELSE high,
   pattern |-> IF isText /\ low = 1 THEN {1} ELSE {}, enum |-> enum]

Val(kind, size) == [kind |-> kind, size |-> size]

MCSchemaFields ==
  {Field("str", TRUE, 1, 2, {}), Field("str", FALSE, 0, 0, {Val("str", 1)}),
   Field("int", TRUE, 0, 1, {}), Field("float", FALSE, 1, NoLimit, {Val("int", 1)}),
   Field("bool", TRUE, NoLimit, NoLimit, {}), Field("list", FALSE, NoLimit, NoLimit, {}),
   Field("Int", TRUE, 0, 1, {}), Field("integer", TRUE, 0, 1, {}), Field("string", FALSE, 0, 2, {}),
   Field("decimal", FALSE, 0, NoLimit, {})}

MCTypes == PlainTypes \cup DOMAIN JsonKinds \cup {"decimal"}

MCLowered == [w \in MCTypes |-> w] @@ ("Int" :> "int")

MCDataValues ==
  {Absent, Null, Val("bool", 0), Val("bool", 1), Val("list", 0), Val("int", 0 - 2)}
    \cup {Val(kind, size) : kind \in {"str", "int", "float"}, size \in 0 .. 2}

Symmetry == Permutations(Threads)
=============================================================================
