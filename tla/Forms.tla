------------------------------ MODULE Forms ------------------------------
(***************************************************************************)
(* The AgentField bridge (agentfield_bridge.py): forms whose fields are    *)
(* validated when they are set, and again by form_validate and             *)
(* form_submit, which walk the fields and write each one back. A value is  *)
(* abstracted to what validation makes of it: good, bad, or odd, which is  *)
(* a value of a field type whose check raises (line 152 names              *)
(* FieldType.PATTERN, which does not exist). Versions and times are data.  *)
(***************************************************************************)
EXTENDS BridgeThreads

CONSTANTS FormIds, FormObjects, Names,
          Defined,    \* the names with a field definition
          FieldSets   \* the fields a request may set at once

Values == {"good", "bad", "odd"}

Fields == UNION {[S -> Values] : S \in SUBSET Names}

ASSUME FieldsAssumption == Defined \subseteq Names /\ FieldSets \subseteq Fields

VARIABLES formNamed,  \* formNamed[i]: the object registered as form i
          forms,      \* forms[f]: the fields of object f, and its status
          formCall,   \* formCall[t]: how far the request of thread t is
          asSet,      \* asSet[f][n]: the value a client set last
          raced,      \* raced[f]: names set while a walk held their old value
          settled     \* forms nobody set since the submission that ended last began

formVars == <<formNamed, forms, formCall, asSet, raced, settled>>

Invalid(n, v) == n \in Defined /\ v = "bad"
Raises(n, v) == n \in Defined /\ v = "odd"
Form(t) == formCall[t].form
Walks == {"validate", "submit"}

FormAnswer(t) == formCall' = [formCall EXCEPT ![t] = Idle]

\* A request is served for the form that has the id now; the form may be
\* deleted, or another one may get its id, before the request ends.
Finds(t, i) == At(formCall, t, "idle") /\ i \in DOMAIN formNamed

\* form_init with a value that raises stores nothing. An id in use is taken over.
InitForm(t, i, fields) ==
  /\ At(formCall, t, "idle")
  /\ \A n \in DOMAIN fields : ~Raises(n, fields[n])
  /\ \E f \in FormObjects \ DOMAIN forms :
       /\ forms' = Put(forms, f, [fields |-> fields, status |-> "draft"])
       /\ asSet' = Put(asSet, f, fields)
       /\ raced' = Put(raced, f, {})
       /\ formNamed' = Put(formNamed, i, f)
  /\ UNCHANGED <<formCall, settled>>

StartUpdate(t, i, updates) ==
  /\ Finds(t, i)
  /\ formCall' = [formCall EXCEPT ![t] =
       [at |-> "update", form |-> formNamed[i], updates |-> updates]]
  /\ UNCHANGED <<formNamed, forms, asSet, raced, settled>>

\* Other requests that read the field n of form f and will write it back.
Holds(f, n) ==
  \E u \in Threads : At(formCall, u, "visit") /\ Form(u) = f /\ formCall[u].name = n

\* Submissions of f under way see an update pass.
Disturbed(f, call) ==
  [u \in Threads |-> IF call[u].at \in {"walk", "visit"} /\ call[u].form = f
                     THEN [call[u] EXCEPT !.alone = FALSE] ELSE call[u]]

\* Mutant: an invalid value is reported and not stored.
StoredIfValid(fields, n, v) == IF Invalid(n, v) THEN fields ELSE Put(fields, n, v)

\* An invalid value is stored all the same, and reported.
StoredField(fields, n, v) == Put(fields, n, v)

UpdateField(t) ==
  /\ At(formCall, t, "update")
  /\ \E n \in DOMAIN formCall[t].updates :
       LET f == Form(t)
           v == formCall[t].updates[n]
           rest == [m \in DOMAIN formCall[t].updates \ {n} |-> formCall[t].updates[m]]
       IN  /\ ~Raises(n, v)
           /\ forms' = [forms EXCEPT ![f].fields = StoredField(@, n, v)]
           /\ asSet' = [asSet EXCEPT ![f] = Put(@, n, v)]
           /\ raced' = [raced EXCEPT ![f] = IF Holds(f, n) THEN @ \cup {n} ELSE @ \ {n}]
           /\ settled' = settled \ {f}
           /\ formCall' = Disturbed(f, [formCall EXCEPT ![t].updates = rest])
  /\ UNCHANGED formNamed

\* The update ends, or raises at a value: what it has set stays set.
EndUpdate(t) ==
  /\ At(formCall, t, "update")
  /\ \/ formCall[t].updates = << >>
     \/ \E n \in DOMAIN formCall[t].updates : Raises(n, formCall[t].updates[n])
  /\ FormAnswer(t)
  /\ UNCHANGED <<formNamed, forms, asSet, raced, settled>>

StartWalkOf(t, i, walk) ==
  /\ Finds(t, i)
  /\ LET f == formNamed[i]
         names == DOMAIN forms[f].fields
     IN  /\ forms' = IF walk = "submit" THEN [forms EXCEPT ![f].status = "submitting"] ELSE forms
         /\ formCall' = [formCall EXCEPT ![t] =
              [at |-> "walk", form |-> f, walk |-> walk, names |-> names, left |-> names,
               alone |-> TRUE]]
  /\ UNCHANGED <<formNamed, asSet, raced, settled>>

\* A field that appears during the walk ends it with an error; a form that was
\* being submitted stays "submitting".
WalkRaises(t) ==
  /\ At(formCall, t, "walk") /\ DOMAIN forms[Form(t)].fields # formCall[t].names
  /\ FormAnswer(t)
  /\ UNCHANGED <<formNamed, forms, asSet, raced, settled>>

VisitField(t) ==
  /\ At(formCall, t, "walk") /\ DOMAIN forms[Form(t)].fields = formCall[t].names
  /\ \E n \in formCall[t].left :
       formCall' = [formCall EXCEPT ![t] =
         [at |-> "visit", form |-> @.form, walk |-> @.walk, names |-> @.names,
          left |-> @.left \ {n}, alone |-> @.alone, name |-> n,
          value |-> forms[Form(t)].fields[n]]]
  /\ UNCHANGED <<formNamed, forms, asSet, raced, settled>>

Resume(t) ==
  formCall' = [formCall EXCEPT ![t] =
    [at |-> "walk", form |-> @.form, walk |-> @.walk, names |-> @.names,
     left |-> @.left, alone |-> @.alone]]

WrittenBack(t) ==
  LET c == formCall[t]
  IN  IF c.name \in Defined THEN [forms[c.form].fields EXCEPT ![c.name] = c.value]
      ELSE forms[c.form].fields

\* The field read before is validated and written back over what is there now.
WriteBack(t) ==
  /\ At(formCall, t, "visit")
  /\ formCall[t].walk = "submit" => ~Invalid(formCall[t].name, formCall[t].value)
  /\ forms' = [forms EXCEPT ![Form(t)].fields = WrittenBack(t)]
  /\ Resume(t)
  /\ UNCHANGED <<formNamed, asSet, raced, settled>>

\* Mutant: the submission goes on after an invalid field.
ReportAndGoOn(t) ==
  /\ At(formCall, t, "visit")
  /\ formCall[t].walk = "submit" /\ Invalid(formCall[t].name, formCall[t].value)
  /\ forms' = [forms EXCEPT ![Form(t)].fields = WrittenBack(t), ![Form(t)].status = "error"]
  /\ Resume(t)
  /\ UNCHANGED <<formNamed, asSet, raced, settled>>

\* The first invalid field ends a submission.
RejectField(t) ==
  /\ At(formCall, t, "visit")
  /\ formCall[t].walk = "submit" /\ Invalid(formCall[t].name, formCall[t].value)
  /\ forms' = [forms EXCEPT ![Form(t)].fields = WrittenBack(t), ![Form(t)].status = "error"]
  /\ FormAnswer(t)
  /\ UNCHANGED <<formNamed, asSet, raced, settled>>

EndOfWalk(t) ==
  /\ At(formCall, t, "walk") /\ formCall[t].left = {}
  /\ DOMAIN forms[Form(t)].fields = formCall[t].names
  /\ \/ /\ formCall[t].walk = "submit"
        /\ forms' = [forms EXCEPT ![Form(t)].status = "submitted"]
        /\ settled' = IF formCall[t].alone THEN settled \cup {Form(t)} ELSE settled \ {Form(t)}
     \/ formCall[t].walk = "validate" /\ UNCHANGED <<forms, settled>>
  /\ FormAnswer(t)
  /\ UNCHANGED <<formNamed, asSet, raced>>

DeleteForm(t, i) ==
  /\ Finds(t, i)
  /\ formNamed' = [j \in DOMAIN formNamed \ {i} |-> formNamed[j]]
  /\ UNCHANGED <<forms, formCall, asSet, raced, settled>>

\* The embedding program closes the bridge once it serves no request, and
\* initialises it again, with the same definitions, before it goes on.
CloseForms ==
  /\ formCall = AllIdle /\ forms # << >>
  /\ formNamed' = << >> /\ forms' = << >> /\ asSet' = << >> /\ raced' = << >>
  /\ settled' = {}
  /\ UNCHANGED formCall

FormInit ==
  /\ formNamed = << >> /\ forms = << >> /\ formCall = AllIdle
  /\ asSet = << >> /\ raced = << >> /\ settled = {}

FormNext ==
  \/ \E t \in Threads :
       \/ \E i \in FormIds, fields \in FieldSets :
            InitForm(t, i, fields) \/ StartUpdate(t, i, fields)
       \/ \E i \in FormIds : DeleteForm(t, i) \/ \E walk \in Walks : StartWalkOf(t, i, walk)
       \/ UpdateField(t) \/ EndUpdate(t)
       \/ WalkRaises(t) \/ VisitField(t) \/ WriteBack(t) \/ RejectField(t) \/ EndOfWalk(t)
  \/ CloseForms

FormSpec == FormInit /\ [][FormNext]_formVars

---------------------------------------------------------------------------
FormTypeOK ==
  /\ DOMAIN formNamed \subseteq FormIds
  /\ \A i \in DOMAIN formNamed : formNamed[i] \in DOMAIN forms
  /\ DOMAIN forms \subseteq FormObjects
  /\ \A f \in DOMAIN forms :
       /\ DOMAIN forms[f].fields \subseteq Names
       /\ \A n \in DOMAIN forms[f].fields : forms[f].fields[n] \in Values
       /\ forms[f].status \in {"draft", "submitting", "submitted", "error"}
       /\ DOMAIN asSet[f] = DOMAIN forms[f].fields /\ raced[f] \subseteq Names
  /\ DOMAIN asSet = DOMAIN forms /\ DOMAIN raced = DOMAIN forms
  /\ \A t \in Threads : formCall[t] # Idle => Form(t) \in DOMAIN forms
  /\ settled \subseteq DOMAIN forms

\* A form that was submitted, and not set by anyone during that submission or
\* since, has no invalid field, however many submissions and validations run
\* (agentfield_bridge.py, form_submit). A field set while a validation held its
\* old value is excepted: the validation may write that back into the form
\* after it was submitted.
SubmittedIsValid ==
  \A f \in settled : forms[f].status = "submitted" =>
    \A n \in DOMAIN forms[f].fields \ raced[f] : ~Invalid(n, forms[f].fields[n])

\* A value a client has set is the value of its field, unless a validation
\* held the old one when it was set: then the write-back may undo an update that
\* was answered "ok" (agentfield_bridge.py, form_validate and form_submit).
UpdatesAreKept ==
  \A f \in DOMAIN forms : \A n \in DOMAIN forms[f].fields :
    forms[f].fields[n] # asSet[f][n] => n \in raced[f]

==========================================================================
