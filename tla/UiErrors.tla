------------------------------ MODULE UiErrors ------------------------------
(***************************************************************************)
(* What the page says when the server rejects a configuration: the column  *)
(* of the server's message is mapped back onto the text that was posted,   *)
(* and the entry and field that need fixing are named                      *)
(* (ui/src/lib/save-error.ts).                                             *)
(*                                                                         *)
(* A text is the sequence of its tokens; of a literal, the width of its    *)
(* characters matters, in bytes for the server and in UTF-16 units here.   *)
(***************************************************************************)
EXTENDS Integers, Sequences, SequencesExt, FiniteSetsExt

CONSTANTS
  Documents,   \* configurations
  Definitions, \* of the schema: the required fields and the names of all
  Chars        \* of every text and name, the bytes of its characters

VARIABLE err

vars == <<err>>

NoField == "none"

Object(members) == [kind |-> "object", of |-> members]
Array(items)    == [kind |-> "array", of |-> items]
Scalar(text)    == [kind |-> "text", of |-> text]
Member(key, value) == [key |-> key, value |-> value]

\* A step from a value to a part of it.
Name(key) == <<"key", key>>
At(i)     == <<"index", i>>

-----------------------------------------------------------------------------
(* The text of a value, without spaces.                                    *)

Mark(c)       == <<[c |-> c, chars |-> <<1>>, name |-> ""]>>
Literal(name) == <<[c |-> "text", chars |-> <<1>> \o Chars[name] \o <<1>>, name |-> name]>>

Joined(parts) ==
  FlattenSeq([i \in DOMAIN parts |-> IF i = 1 THEN parts[1] ELSE Mark(",") \o parts[i]])

RECURSIVE Tokens(_)
Tokens(v) ==
  CASE v.kind = "text"  -> Literal(v.of)
    [] v.kind = "array" -> Mark("[") \o Joined([i \in DOMAIN v.of |-> Tokens(v.of[i])]) \o Mark("]")
    [] v.kind = "object" ->
         Mark("{") \o Joined([i \in DOMAIN v.of |->
                       Literal(v.of[i].key) \o Mark(":") \o Tokens(v.of[i].value)]) \o Mark("}")

\* The part at each step, in the order of the text.
Parts(v) ==
  CASE v.kind = "text"   -> <<>>
    [] v.kind = "array"  -> [i \in DOMAIN v.of |-> [step |-> At(i - 1), value |-> v.of[i]]]
    [] v.kind = "object" -> [i \in DOMAIN v.of |->
                              [step |-> Name(v.of[i].key), value |-> v.of[i].value]]

\* All paths from a value, the value first.
RECURSIVE Paths(_)
Paths(v) ==
  <<<<>>>> \o FlattenSeq([i \in DOMAIN Parts(v) |->
    LET part == Parts(v)[i]
        under == Paths(part.value)
    IN  [j \in DOMAIN under |-> <<part.step>> \o under[j]]])

RECURSIVE valueAtPath(_, _)
valueAtPath(v, path) ==
  IF path = <<>> THEN v
  ELSE LET i == CHOOSE j \in DOMAIN Parts(v) : Parts(v)[j].step = Head(path)
       IN  valueAtPath(Parts(v)[i].value, Tail(path))

-----------------------------------------------------------------------------
(* From a column to a path.                                                *)

CharsOf(tokens) == FlattenSeq([i \in DOMAIN tokens |-> tokens[i].chars])
Units(char) == IF char = 4 THEN 2 ELSE 1

RECURSIVE Sum(_)
Sum(sizes) == IF sizes = <<>> THEN 0 ELSE Head(sizes) + Sum(Tail(sizes))

\* A bug: bytes are taken for units.
asIfAscii(chars, byteOffset) == byteOffset

RECURSIVE utf16IndexForByteOffset(_, _)
utf16IndexForByteOffset(chars, byteOffset) ==
  IF chars = <<>> \/ byteOffset <= 0 THEN 0
  ELSE Units(Head(chars)) + utf16IndexForByteOffset(Tail(chars), byteOffset - Head(chars))

currentSegments(stack) ==
  LET told == SelectSeq(stack, LAMBDA f : f.array \/ f.key # NoField)
  IN  [i \in DOMAIN told |-> IF told[i].array THEN At(told[i].index) ELSE Name(told[i].key)]

\* The open containers after one more token.  A name is known by its colon.
Read(tokens, stack, i) ==
  LET top == Len(stack)
  IN  CASE tokens[i].c \in {"{", "["} ->
             Append(stack, [array |-> tokens[i].c = "[", key |-> NoField, index |-> 0])
        [] tokens[i].c \in {"}", "]"} -> Front(stack)
        [] tokens[i].c = "," -> IF stack[top].array THEN [stack EXCEPT ![top].index = @ + 1]
                                ELSE [stack EXCEPT ![top].key = NoField]
        [] tokens[i].c = "text" /\ i < Len(tokens) /\ tokens[i + 1].c = ":" ->
             [stack EXCEPT ![top].key = tokens[i].name]
        [] OTHER -> stack

\* From the i-th token on, with "left" units to go.
RECURSIVE PathFrom(_, _, _, _)
PathFrom(tokens, i, stack, left) ==
  IF i > Len(tokens) \/ left < 0 THEN currentSegments(stack)
  ELSE IF tokens[i].c \in {"}", "]"} /\ left = 0 THEN currentSegments(Front(stack))
  ELSE LET chars == tokens[i].chars
       IN  PathFrom(tokens, i + 1, Read(tokens, stack, i),
                    left - Sum([j \in DOMAIN chars |-> Units(chars[j])]))

jsonPathAtOffset(tokens, offset) == PathFrom(tokens, 1, <<>>, offset)

-----------------------------------------------------------------------------
(* Who lacks a field.                                                      *)

Owners(definitions, field) == {d \in definitions : field \in d.required}

couldRequireField(definitions, keys, field) ==
  IF \A d \in definitions : d.required = {} THEN TRUE
  ELSE keys # {} /\ \E d \in Owners(definitions, field) : keys \subseteq d.properties

Lacks(definitions, v, field) ==
  /\ v.kind = "object"
  /\ LET keys == {v.of[i].key : i \in DOMAIN v.of}
     IN  field \notin keys /\ couldRequireField(definitions, keys, field)

deepestPathsMissingField(definitions, root, field) ==
  LET found   == SelectSeq(Paths(root), LAMBDA p : Lacks(definitions, valueAtPath(root, p), field))
      deepest == Max({Len(found[i]) : i \in DOMAIN found} \cup {0})
      kept    == SelectSeq(found, LAMBDA p : Len(p) = deepest)
  IN  SubSeq(kept, 1, Min({2, Len(kept)}))

\* An entry is told by its name, then by its id, then by its place.
Label(entry, place) ==
  LET given(key) == IF entry.kind # "object" THEN {}
                    ELSE {m.value.of : m \in {n \in Range(entry.of) : n.key = key}}
      texts == SelectSeq(<<given("name"), given("id")>>, LAMBDA s : s \ {""} # {})
  IN  IF texts = <<>> THEN At(place + 1) ELSE Name(CHOOSE t \in texts[1] : TRUE)

describeLocation(segments, config) ==
  IF Len(segments) >= 2 /\ segments[1] \in {Name("consumers"), Name("publishers")}
       /\ segments[2][1] = "index"
  THEN [segments EXCEPT ![2] = Label(valueAtPath(config, SubSeq(segments, 1, 2)), segments[2][2])]
  ELSE segments

\* "column" counts bytes from 1; a message without one is shown as it is.
explainConfigSaveError(definitions, message, config) ==
  LET tokens   == Tokens(config)
      segments == jsonPathAtOffset(tokens, utf16IndexForByteOffset(CharsOf(tokens), message.column - 1))
      lacking  == IF message.field = NoField THEN <<<<>>>>
                  ELSE deepestPathsMissingField(definitions, valueAtPath(config, segments),
                                                message.field)
      suffixes == IF lacking = <<>> THEN <<<<>>>> ELSE lacking
  IN  IF message.column = 0 THEN <<[path |-> <<>>, said |-> <<>>]>>
      ELSE [i \in DOMAIN suffixes |->
              [path |-> segments \o suffixes[i],
               said |-> describeLocation(segments \o suffixes[i], config)]]

-----------------------------------------------------------------------------
(* The page and the server.                                                *)

NoFault == [field |-> NoField, path |-> <<>>, at |-> <<>>]

\* Ghost: "fault" is what the server objects to.
Init ==
  \E config \in Documents :
    err = [config |-> config, definitions |-> {}, shown |-> <<>>,
           fault |-> NoFault]

\* At the start of the page, if the schema is there.
registerConfigSchema ==
  /\ err.definitions = {} /\ err.shown = <<>>
  /\ err' = [err EXCEPT !.definitions = Definitions]

\* The dialog is closed first.
Edit == \E config \in Documents :
  err' = [err EXCEPT !.config = config, !.shown = <<>>, !.fault = NoFault]

\* The number of the last token of the value at a path.
RECURSIVE LastToken(_, _)
LastToken(v, path) ==
  IF path = <<>> THEN Len(Tokens(v))
  ELSE LET parts  == Parts(v)
           i      == CHOOSE j \in DOMAIN parts : parts[j].step = Head(path)
           before == Sum([j \in 1 .. i - 1 |-> Len(Tokens(parts[j].value))])
           names  == IF v.kind = "object" THEN 2 * i ELSE 0
       IN  i + before + names + LastToken(parts[i].value, Tail(path))

\* The column of its last byte.
EndColumn(config, path) == Sum(CharsOf(SubSeq(Tokens(config), 1, LastToken(config, path))))

Post(message, fault) ==
  /\ err.shown = <<>>
  /\ err' = [err EXCEPT !.fault = fault,
                        !.shown = explainConfigSaveError(err.definitions, message, err.config)]

\* A value of another type than the server reads there.
postConfigWrongValue ==
  \E path \in Range(Paths(err.config)) :
    Post([column |-> EndColumn(err.config, path), field |-> NoField],
         [field |-> NoField, path |-> path, at |-> path])

\* The server misses a field of a block when it has read the block, or one
\* that the block is in.
postConfigMissingField ==
  \E path \in Range(Paths(err.config)), d \in Definitions : \E field \in d.required :
    LET block == valueAtPath(err.config, path)
    IN  /\ block.kind = "object"
        /\ \A i \in DOMAIN block.of : block.of[i].key # field
        /\ \E n \in 0 .. Len(path) :
             LET at == SubSeq(path, 1, n)
             IN  Post([column |-> EndColumn(err.config, at), field |-> field],
                      [field |-> field, path |-> path, at |-> at])

\* Any other failure.
postConfigFails ==
  Post([column |-> 0, field |-> NoField], NoFault)

Next ==
  \/ registerConfigSchema
  \/ Edit
  \/ postConfigWrongValue
  \/ postConfigMissingField
  \/ postConfigFails

Spec == Init /\ [][Next]_vars

-----------------------------------------------------------------------------
(* Properties.                                                             *)

Named == {err.shown[i].path : i \in DOMAIN err.shown}

\* The blocks in the value that the server had read which may be the one.
Suspects ==
  LET at == err.fault.at
  IN  {path \in {at \o p : p \in Range(Paths(valueAtPath(err.config, at)))} :
         Lacks(err.definitions, valueAtPath(err.config, path), err.fault.field)}

\* The message names the value at fault whatever characters come before it; of
\* a missing field it names blocks that lack the field, in what the server had
\* read, and if there is one that may be meant, that one
\* (save-error.ts: "map that offset back onto the JSON body so the dialog names
\* the consumer, publisher or route that needs fixing").
FaultIsNamed ==
  /\ err.shown # <<>> /\ err.fault.field = NoField => Named = {err.fault.path}
  /\ err.shown # <<>> /\ err.fault.field # NoField =>
       IF Suspects = {} THEN Named = {err.fault.at}
       ELSE Named \subseteq Suspects /\ (Cardinality(Suspects) = 1 => Named = Suspects)
=============================================================================
