---------------------------- MODULE ToolArguments ----------------------------
(***************************************************************************)
(* What becomes of the arguments a model gives a tool (engine,              *)
(* runner/tool_exec.rs, tools/validation.rs): other names of a parameter    *)
(* are understood, the edit tool repairs the shapes models get wrong, and   *)
(* the schema is checked with trivial mismatches coerced.  Then the tool    *)
(* runs, or the model is told what is wrong.                                *)
(*                                                                         *)
(* A JSON value is a pair of its type and its content.  A float is counted  *)
(* in halves.  A string is what it spells as JSON, or <<"words", w>>, or a  *)
(* Boolean in capitals, <<"loud", b>>.                                      *)
(***************************************************************************)
EXTENDS Integers, Sequences, SequencesExt, TLC

CONSTANT Given     (* Calls: a tool and the arguments a model may give it.    *)

VARIABLES
  call,      \* the tool and the model's own arguments
  stage,     \* "named", "prepared", "checked", then "executed" or "refused"
  args       \* the arguments as far as they are prepared

vars == <<call, stage, args>>

-----------------------------------------------------------------------------
(* Values.                                                                   *)
Null == <<"null">>
Bool(b) == <<"boolean", b>>
Integer(n) == <<"integer", n>>
Float(halves) == <<"float", halves>>
Str(spelled) == <<"string", spelled>>
Arr(items) == <<"array", items>>
Obj(fields) == <<"object", fields>>
Word(w) == Str(<<"words", w>>)

Is(type, v) == v[1] = type
Fields(v) == DOMAIN v[2]
Has(v, name) == Is("object", v) /\ name \in Fields(v)
Without(fields, names) == [k \in DOMAIN fields \ names |-> fields[k]]
With(fields, name, v) == (name :> v) @@ fields

(* The first of these names that an object has, as a set of at most one.     *)
FirstOf(v, names) ==
  {names[i] : i \in {j \in DOMAIN names :
     Has(v, names[j]) /\ \A k \in 1..(j - 1) : ~Has(v, names[k])}}

-----------------------------------------------------------------------------
(* The tools' schemas and other names, as far as they differ in kind.        *)
OldNames == <<"oldText", "old_text", "old_string">>
NewNames == <<"newText", "new_text", "new_string">>

String == [type |-> "string"]
EditEntry ==
  [type |-> "object", properties |-> [oldText |-> String, newText |-> String],
   required |-> {"oldText", "newText"}]
Schema ==
  [edit |->
     [type |-> "object",
      properties |-> [path |-> String, edits |-> [type |-> "array", items |-> EditEntry]],
      required |-> {"path", "edits"}],
   glob |->
     [type |-> "object",
      properties |->
        [pattern |-> [type |-> "array", items |-> String],
         type |-> [type |-> "string", enum |-> {Word("f"), Word("d"), Word("any")}],
         hidden |-> [type |-> "boolean"],
         timeout |-> [type |-> "number"],
         max_results |-> [type |-> "integer", minimum |-> 1]],
      required |-> {"pattern"}]]

(* parameter_aliases: each parameter's other names, in the order tried.      *)
Aliases ==
  [edit |-> [path |-> <<"file_path", "filePath", "file">>],
   glob |-> [pattern |-> <<"patterns", "glob", "query">>,
             path |-> <<"paths", "dir", "directory">>]]

-----------------------------------------------------------------------------
(* Step 1, normalize_aliases: what has its own name keeps it.                *)
Renamed(fields, name, names) ==
  LET found == FirstOf(Obj(fields), names) IN
  IF name \in DOMAIN fields \/ found = {} THEN fields
  ELSE LET other == CHOOSE o \in found : TRUE
       IN With(Without(fields, {other}), name, fields[other])

NormalizeAliases(v, aliases) ==
  IF ~Is("object", v) THEN v
  ELSE LET tried == SetToSeq(DOMAIN aliases)
       IN Obj(FoldLeft(LAMBDA fields, name : Renamed(fields, name, aliases[name]), v[2], tried))

-----------------------------------------------------------------------------
(* Step 2, coerce_edits: a spelled array is read, an old and a new text      *)
(* beside it are one more edit, and the entries get their canonical names.   *)
ReadEdits(fields) ==
  IF Has(Obj(fields), "edits") /\ Is("string", fields.edits) /\ Is("array", fields.edits[2])
  THEN With(fields, "edits", fields.edits[2]) ELSE fields

Pair(fields) ==
  {[oldText |-> fields[o], newText |-> fields[n]] :
     o \in FirstOf(Obj(fields), OldNames), n \in FirstOf(Obj(fields), NewNames)}

(* Mutant: the edit beside the list takes the list's place.                  *)
WrapPairAlone(fields) ==
  IF Pair(fields) = {} THEN fields
  ELSE With(Without(fields, ToSet(OldNames \o NewNames)), "edits",
            Arr(<<Obj(CHOOSE p \in Pair(fields) : TRUE)>>))

WrapPair(fields) ==
  LET entries == IF Has(Obj(fields), "edits") /\ Is("array", fields.edits)
                 THEN fields.edits[2] ELSE <<>>
  IN IF Pair(fields) = {} THEN fields
     ELSE With(Without(fields, ToSet(OldNames \o NewNames)), "edits",
               Arr(Append(entries, Obj(CHOOSE p \in Pair(fields) : TRUE))))

NormalizeEditEntry(v) ==
  IF ~Is("object", v) THEN v
  ELSE Obj(Renamed(Renamed(v[2], "oldText", Tail(OldNames)), "newText", Tail(NewNames)))

NormalizeEntries(fields) ==
  IF Has(Obj(fields), "edits") /\ Is("array", fields.edits)
  THEN With(fields, "edits",
            Arr([i \in DOMAIN fields.edits[2] |-> NormalizeEditEntry(fields.edits[2][i])]))
  ELSE fields

CoerceEdits(v) ==
  IF Is("object", v) THEN Obj(NormalizeEntries(WrapPair(ReadEdits(v[2])))) ELSE v

PrepareArguments(tool, v) == IF tool = "edit" THEN CoerceEdits(v) ELSE v

-----------------------------------------------------------------------------
(* Step 3, the schema.  A null for an optional parameter counts as absent.   *)
RejectsNull(schema) ==
  IF "type" \in DOMAIN schema THEN schema.type # "null"
  ELSE "enum" \in DOMAIN schema /\ Null \notin schema.enum

Required(schema) == IF "required" \in DOMAIN schema THEN schema.required ELSE {}

RECURSIVE StripOptionalNulls(_, _)
StripOptionalNulls(schema, v) ==
  CASE "properties" \in DOMAIN schema /\ Is("object", v) ->
         LET optional == {k \in DOMAIN schema.properties \ Required(schema) :
                            RejectsNull(schema.properties[k])}
             left == Without(v[2], {k \in optional \cap Fields(v) : v[2][k] = Null})
         IN Obj([k \in DOMAIN left |->
                   IF k \in DOMAIN schema.properties
                   THEN StripOptionalNulls(schema.properties[k], left[k]) ELSE left[k]])
    [] "items" \in DOMAIN schema /\ Is("array", v) ->
         Arr([i \in DOMAIN v[2] |-> StripOptionalNulls(schema.items, v[2][i])])
    [] OTHER -> v

TypeMatches(type, v) == Is(type, v) \/ (type = "number" /\ v[1] \in {"integer", "float"})

(* try_coerce: the values a value may be taken for, at most one.             *)
Coerced(schema, v) ==
  LET type == schema.type
      OfStrings == "items" \in DOMAIN schema /\ schema.items = String
      spelled == v[2]
  IN CASE TypeMatches(type, v) -> {v}
       [] type = "integer" /\ Is("float", v) ->
            IF v[2] % 2 = 0 THEN {Integer(v[2] \div 2)} ELSE {}
       [] ~Is("string", v) -> {}
       [] type = "boolean" /\ spelled[1] = "loud" -> {Bool(spelled[2])}
       [] TypeMatches(type, spelled) -> {spelled}
       [] type = "array" /\ OfStrings -> {Arr(<<v>>)}
       [] OTHER -> {}

(* validate_node: the value as it is taken, and whether nothing is wrong.    *)
RECURSIVE ValidateNode(_, _)
ValidateNode(schema, v) ==
  LET taken == IF "type" \in DOMAIN schema THEN Coerced(schema, v) ELSE {v}
      value == CHOOSE x \in taken : TRUE
      allowed == "enum" \in DOMAIN schema => value \in schema.enum
      enough == "minimum" \in DOMAIN schema /\ Is("integer", value)
                  => value[2] >= schema.minimum
  IN IF taken = {} THEN [value |-> v, ok |-> FALSE]
     ELSE IF "properties" \in DOMAIN schema /\ Is("object", value)
     THEN LET child == [k \in DOMAIN schema.properties \cap Fields(value) |->
                          ValidateNode(schema.properties[k], value[2][k])]
          IN [value |-> Obj([k \in DOMAIN child |-> child[k].value] @@ value[2]),
              ok |-> /\ allowed /\ enough
                     /\ Required(schema) \subseteq Fields(value)
                     /\ \A k \in DOMAIN child : child[k].ok]
     ELSE IF "items" \in DOMAIN schema /\ Is("array", value)
     THEN LET child == [i \in DOMAIN value[2] |-> ValidateNode(schema.items, value[2][i])]
          IN [value |-> Arr([i \in DOMAIN child |-> child[i].value]),
              ok |-> allowed /\ enough /\ \A i \in DOMAIN child : child[i].ok]
     ELSE [value |-> value, ok |-> allowed /\ enough]

(* validate_and_coerce: a tool's input is an object before anything else.    *)
ValidateAndCoerce(schema, v) ==
  IF "properties" \in DOMAIN schema /\ ~Is("object", v) THEN [value |-> v, ok |-> FALSE]
  ELSE ValidateNode(schema, StripOptionalNulls(schema, v))

-----------------------------------------------------------------------------
Init ==
  /\ call \in Given
  /\ stage = "named"
  /\ args = call.args

Name ==
  /\ stage = "named"
  /\ args' = NormalizeAliases(args, Aliases[call.tool])
  /\ stage' = "prepared"
  /\ UNCHANGED call

Prepare ==
  /\ stage = "prepared"
  /\ args' = PrepareArguments(call.tool, args)
  /\ stage' = "checked"
  /\ UNCHANGED call

Check ==
  /\ stage = "checked"
  /\ LET checked == ValidateAndCoerce(Schema[call.tool], args)
     IN /\ args' = checked.value
        /\ stage' = IF checked.ok THEN "executed" ELSE "refused"
  /\ UNCHANGED call

Next == Name \/ Prepare \/ Check
Spec == Init /\ [][Next]_vars

-----------------------------------------------------------------------------
(* What a schema says, defined on its own, of a value that is not changed.   *)
RECURSIVE Conforms(_, _)
Conforms(schema, v) ==
  /\ "type" \in DOMAIN schema => TypeMatches(schema.type, v)
  /\ "enum" \in DOMAIN schema => v \in schema.enum
  /\ "minimum" \in DOMAIN schema => v[2] >= schema.minimum
  /\ "items" \in DOMAIN schema => \A i \in DOMAIN v[2] : Conforms(schema.items, v[2][i])
  /\ "properties" \in DOMAIN schema =>
       /\ Required(schema) \subseteq Fields(v)
       /\ \A k \in DOMAIN schema.properties \cap Fields(v) :
            Conforms(schema.properties[k], v[2][k])

(* What the model means by a parameter: the value under its own name, or     *)
(* under the first of its other names.                                       *)
Meant(v, tool, name) ==
  LET names == IF name \in DOMAIN Aliases[tool] THEN <<name>> \o Aliases[tool][name]
               ELSE <<name>>
  IN {v[2][n] : n \in FirstOf(v, names)} \ {Null}

(* The edits the model means: those of its list, written out or spelled, and *)
(* the one beside it, each a pair of old and new text.                       *)
TextsOf(v) == <<{v[2][n] : n \in FirstOf(v, OldNames)}, {v[2][n] : n \in FirstOf(v, NewNames)}>>
ListOf(v) ==
  CASE ~Has(v, "edits") -> <<>>
    [] Is("array", v[2].edits) -> v[2].edits[2]
    [] Is("string", v[2].edits) /\ Is("array", v[2].edits[2]) -> v[2].edits[2][2]
    [] OTHER -> <<>>
Written(entry) == IF Is("string", entry) THEN entry[2] ELSE entry
MeantEdits(v) ==
  [i \in DOMAIN ListOf(v) |-> TextsOf(Written(ListOf(v)[i]))]
    \o SelectSeq(<<TextsOf(v)>>, LAMBDA texts : {} \notin ToSet(texts))

Malformed(v) ==
  /\ Has(v, "edits")
  /\ ~Is("array", v[2].edits)
  /\ Is("string", v[2].edits) => ~Is("array", v[2].edits[2])

(* The same but for the spelling: a number, a Boolean, or a list of one.     *)
Same(given, meant) ==
  \/ given = meant
  \/ meant = Str(given)
  \/ Is("integer", given) /\ meant = Float(2 * given[2])
  \/ Is("boolean", given) /\ meant = Str(<<"loud", given[2]>>)
  \/ given = Arr(<<meant>>)

(* A tool runs only on arguments that its schema allows, and they say what   *)
(* the model meant: every edit it wrote, in the order it wrote them, and     *)
(* every parameter, under whichever name.  And what the schema allows as it  *)
(* stands is neither refused nor changed (types/tool.rs:165, validation.rs). *)
(* Exempt is a malformed list that an edit beside it replaces.               *)
ToolGetsWhatWasMeant ==
  /\ stage = "executed" =>
       /\ Conforms(Schema[call.tool], args)
       /\ call.tool = "edit" /\ ~Malformed(call.args) =>
            [i \in DOMAIN args[2].edits[2] |-> TextsOf(args[2].edits[2][i])]
              = MeantEdits(call.args)
       /\ \A name \in DOMAIN Schema[call.tool].properties \ {"edits"} :
            LET meant == Meant(call.args, call.tool, name) IN
            /\ Has(args, name) <=> meant # {}
            /\ \A m \in meant : Same(args[2][name], m)
  /\ Is("object", call.args) /\ Conforms(Schema[call.tool], call.args)
     /\ Pair(call.args[2]) = {} =>
       stage # "refused" /\ (stage = "executed" => args = call.args)

(* What prepare_arguments promises of input it does not understand ("must    *)
(* leave unrecognized malformed input unchanged", types/tool.rs:165): not so *)
(* when an edit stands beside it.                                            *)
MalformedIsReported ==
  call.tool = "edit" /\ Is("object", call.args) /\ Malformed(call.args) => stage # "executed"
=============================================================================
