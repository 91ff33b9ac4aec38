----------------------------- MODULE UiPayload -----------------------------
(***************************************************************************)
(* The editor of a payload, with its views as text, JSON, XML and hex      *)
(* digits (ui/src/components/PayloadDisplay.svelte,                        *)
(* lib/payload-format.ts).                                                 *)
(*                                                                         *)
(* A text is the sequence of its character codes.  The layout that JSON is *)
(* given is left out: a formatted text is the one without spaces.          *)
(***************************************************************************)
EXTENDS Integers, Sequences, SequencesExt, FiniteSetsExt

CONSTANTS
  Texts,        \* what is typed, loaded or stored as a payload
  Nibbles,      \* the hex digits that are typed
  BytesPerLine, \* of the hex view
  MaxMoves      \* bound: what the user does

VARIABLE pay

vars == <<pay>>

Modes == {"auto", "text", "json", "xml", "hex"}

Space   == 32
Unknown == 65533 \* the replacement character

-----------------------------------------------------------------------------
(* Characters and bytes.                                                   *)

IsDecimal(c) == c \in 48 .. 57
IsLetter(c)  == c \in 97 .. 122
DigitOf(c)   == IF IsDecimal(c) THEN c - 48 ELSE c - 87

White(c)  == c \in {9, 10, 13, Space}
Solid(s)  == SelectSeq(s, LAMBDA c : ~ White(c))

Trim(s) ==
  LET solid == {i \in DOMAIN s : ~ White(s[i])}
  IN  IF solid = {} THEN <<>> ELSE SubSeq(s, Min(solid), Max(solid))

HighLow(byte)    == <<byte \div 16, byte % 16>>
NibblesOf(bytes) == FlattenSeq([i \in DOMAIN bytes |-> HighLow(bytes[i])])
BytesOf(nibbles) == [i \in 1 .. Len(nibbles) \div 2 |-> 16 * nibbles[2 * i - 1] + nibbles[2 * i]]

\* Each character is taken for a byte.
stringToUint8ArrayLatin1(s) == [i \in DOMAIN s |-> s[i] % 256]

fromHexString(s) == BytesOf([i \in DOMAIN Solid(s) |-> DigitOf(Solid(s)[i])])

\* UTF-8, of one and two bytes.
RECURSIVE Decode(_)
Decode(bytes) ==
  IF bytes = <<>> THEN <<>>
  ELSE LET two == bytes[1] \in 194 .. 223 /\ Len(bytes) > 1 /\ bytes[2] \in 128 .. 191
           char == CASE bytes[1] < 128 -> bytes[1]
                     [] two -> 64 * (bytes[1] - 192) + (bytes[2] - 128)
                     [] OTHER -> Unknown
       IN  <<char>> \o Decode(SubSeq(bytes, IF two THEN 3 ELSE 2, Len(bytes)))

-----------------------------------------------------------------------------
(* What a payload looks like.                                              *)

\* Numbers, and arrays of one number or none.
IsNumber(s) ==
  s # <<>> /\ (\A i \in DOMAIN s : IsDecimal(s[i])) /\ (s[1] = 48 => Len(s) = 1)
IsArray(s)  ==
  /\ Len(s) >= 2 /\ Head(s) = 91 /\ Last(s) = 93
  /\ LET inner == Trim(SubSeq(s, 2, Len(s) - 1)) IN inner = <<>> \/ IsNumber(inner)
IsValue(s)  == LET t == Trim(s) IN IsNumber(t) \/ IsArray(t)

isValidJson(s) == IsArray(Trim(s))

\* One tag that closes itself.
isLikelyXml(s) ==
  LET t == Trim(s)
      n == Len(t)
  IN  /\ n >= 4 /\ t[1] = 60 /\ t[n - 1] = 47 /\ t[n] = 62
      /\ \A i \in 2 .. n - 2 : IsLetter(t[i])

isBinaryString(s) == \E i \in DOMAIN s : (s[i] < 32 /\ s[i] \notin {9, 10, 13}) \/ s[i] = 127

isCompleteHex(s) ==
  LET t == Solid(s)
  IN  t # <<>> /\ Len(t) % 2 = 0 /\ \A i \in DOMAIN t : IsDecimal(t[i]) \/ t[i] \in 97 .. 102

\* The rows: digits, and the characters that can be shown.
toHexPreview(bytes) ==
  LET lines == (Len(bytes) + BytesPerLine - 1) \div BytesPerLine
      line(i) == SubSeq(bytes, (i - 1) * BytesPerLine + 1, Min({i * BytesPerLine, Len(bytes)}))
  IN  [i \in 1 .. lines |->
         [hex |-> NibblesOf(line(i)),
          ascii |-> [j \in DOMAIN line(i) |-> IF line(i)[j] \in 32 .. 126 THEN line(i)[j] ELSE 46]]]

\* What an editor shows: a text, or the rows of a hex view.
TextView(s)   == [hex |-> FALSE, text |-> s, rows |-> <<>>]
HexView(rows) == [hex |-> TRUE, text |-> <<>>, rows |-> rows]

\* The type of the content only says in which order these are asked.
effectiveMode(s, mode) ==
  CASE mode # "auto"  -> mode
    [] isValidJson(s) -> "json"
    [] isLikelyXml(s) -> "xml"
    [] isBinaryString(s) -> "hex"
    [] OTHER -> "text"

formatPayload(s, mode) ==
  LET effective == effectiveMode(s, mode)
      json      == IsValue(s)
  IN  CASE effective = "json" -> [formatted |-> TextView(IF json THEN Solid(s) ELSE s),
                                  language |-> IF json THEN "json" ELSE "text"]
        [] effective = "hex"  ->
             [formatted |-> HexView(toHexPreview(IF isCompleteHex(s) THEN fromHexString(s)
                                                 ELSE stringToUint8ArrayLatin1(s))),
              language |-> "text"]
        [] effective = "xml"  -> [formatted |-> TextView(s), language |-> "xml"]
        [] effective = "text" -> [formatted |-> TextView(s), language |-> "text"]

-----------------------------------------------------------------------------
(* The display.  "input" is a hex view that is being edited.               *)

NoInput == HexView(<<>>)

\* A bug: every edit is formatted again at once.
formatsAlways(p) ==
  IF p.mode = "hex" THEN formatPayload(p.payload, p.mode).formatted ELSE TextView(p.payload)

displayedPayload(p) ==
  LET f == formatPayload(p.payload, p.mode)
  IN  IF p.editing THEN p.input
      ELSE IF (p.pretty /\ f.language = "json") \/ p.mode = "hex" THEN f.formatted
      ELSE TextView(p.payload)

\* The digits of all rows, up to the last complete pair; one digit is none.
DigitsOf(rows)  == FlattenSeq([i \in DOMAIN rows |-> rows[i].hex])
Incomplete(rows) == Len(DigitsOf(rows)) = 1
parseHexViewToText(rows) == Decode(BytesOf(DigitsOf(rows)))

Viewed(p) == [p EXCEPT !.editing = FALSE, !.input = NoInput]

-----------------------------------------------------------------------------
(* Ghosts: "meant" are the digits of the payload as the user has typed it, *)
(* and "plain" says whether the hex view can tell it: it is ASCII, and is  *)
(* not itself the digits of something else.                                *)

IsAscii(s) == \A i \in DOMAIN s : s[i] < 128

Given(p, s) ==
  [p EXCEPT !.payload = s, !.meant = NibblesOf(stringToUint8ArrayLatin1(s)), !.plain = IsAscii(s)]

Start(s, readOnly) ==
  Given([payload |-> s, readOnly |-> readOnly, mode |-> "auto", pretty |-> FALSE,
         editing |-> FALSE, input |-> NoInput,
         meant |-> <<>>, plain |-> TRUE, moves |-> 0], s)

Init == \E s \in Texts, readOnly \in BOOLEAN : pay = Start(s, readOnly)

Moves(p) == pay.moves < MaxMoves /\ pay' = [p EXCEPT !.moves = pay.moves + 1]

\* Text is typed.
handleEditorChange ==
  /\ ~ pay.readOnly /\ pay.mode # "hex"
  /\ \E s \in Texts : Moves(Given(Viewed(pay), s))

Replaced(s, i, part) == SubSeq(s, 1, i - 1) \o part \o SubSeq(s, i + 1, Len(s))

\* The digits before an edit: those that are meant, if the view tells them.
Telling == pay.plain /\ (pay.editing \/ ~ isCompleteHex(pay.payload))

\* The editor holds what is displayed, and digits are typed into that.
HexTyped(rows, meant) ==
  LET view == HexView(rows)
      text == IF Incomplete(rows) THEN pay.payload ELSE parseHexViewToText(rows)
  IN  Moves([pay EXCEPT !.editing = TRUE, !.input = view, !.payload = text,
                        !.meant = meant, !.plain = Telling])

handleHexEditorChange ==
  /\ ~ pay.readOnly /\ pay.mode = "hex"
  /\ LET rows == displayedPayload(pay).rows
         digits == IF Telling THEN pay.meant ELSE DigitsOf(rows)
         before(i) == Len(DigitsOf(SubSeq(rows, 1, i - 1)))
     IN  \/ \E i \in DOMAIN rows : \E j \in DOMAIN rows[i].hex, n \in Nibbles :
              \/ HexTyped([rows EXCEPT ![i].hex[j] = n], [digits EXCEPT ![before(i) + j] = n])
              \/ HexTyped([rows EXCEPT ![i].hex = Replaced(@, j, <<n, rows[i].hex[j]>>)],
                          Replaced(digits, before(i) + j, <<n, rows[i].hex[j]>>))
              \/ HexTyped([rows EXCEPT ![i].hex = RemoveAt(@, j)],
                          RemoveAt(digits, before(i) + j))
         \/ \E n \in Nibbles :
              HexTyped(Append(rows, [hex |-> <<n>>, ascii |-> <<>>]), Append(digits, n))
         \/ \E i \in DOMAIN rows :
              HexTyped([rows EXCEPT ![i].ascii = <<>>], digits)

\* Without its last digit, if that is half a byte.
Complete(nibbles) == SubSeq(nibbles, 1, 2 * (Len(nibbles) \div 2))

handleEditorBlur ==
  LET text == IF pay.mode = "hex" /\ pay.editing /\ ~ pay.readOnly /\ ~ Incomplete(pay.input.rows)
              THEN parseHexViewToText(pay.input.rows) ELSE pay.payload
  IN  /\ pay.editing
      /\ pay' = Viewed([pay EXCEPT !.payload = text, !.meant = Complete(@),
                                   !.plain = @ /\ IsAscii(BytesOf(pay.meant))
                                               /\ ~ Incomplete(pay.input.rows)])

\* A click beside the editor takes the focus first.
Beside == ~ pay.editing

setViewMode(mode) ==
  Beside /\ Moves(Viewed([pay EXCEPT !.mode = mode, !.pretty = FALSE]))

\* Of a response only.
handlePrettyJson ==
  /\ Beside /\ pay.readOnly /\ formatPayload(pay.payload, pay.mode).language = "json"
  /\ Moves(Viewed([pay EXCEPT !.mode = "json", !.pretty = TRUE]))

\* JSON is laid out anew; of a single tag, the spaces around it go.
handleBeautify ==
  LET language == formatPayload(pay.payload, pay.mode).language
      lang     == IF pay.mode \in {"json", "xml"} THEN pay.mode ELSE language
      laid(p, s, mode) == [p EXCEPT !.payload = s, !.mode = mode,
                                    !.meant = NibblesOf(stringToUint8ArrayLatin1(s))]
  IN  /\ Beside /\ ~ pay.readOnly /\ pay.payload # <<>>
      /\ language \in {"json", "xml"}
      /\ \/ lang = "xml" /\ Moves(Viewed(laid(pay, Trim(pay.payload), "xml")))
         \/ lang = "json" /\ IsValue(pay.payload)
              /\ Moves(Viewed(laid(pay, Solid(pay.payload), "json")))

handleImportFile ==
  /\ Beside /\ ~ pay.readOnly
  /\ \E s \in Texts : Moves([Given(pay, s) EXCEPT !.mode = "text"])

\* Another entry is selected, or a response arrives.
payloadChanges == Beside /\ \E s \in Texts : Moves(Given(pay, s))

Next ==
  \/ handleEditorChange
  \/ handleHexEditorChange
  \/ handleEditorBlur
  \/ \E mode \in Modes : setViewMode(mode)
  \/ handlePrettyJson
  \/ handleBeautify
  \/ handleImportFile
  \/ payloadChanges

Spec == Init /\ [][Next]_vars

-----------------------------------------------------------------------------
(* Properties.                                                             *)

\* What the user typed is the payload, in every view and across views: where
\* digits are typed, byte for byte and whatever incomplete or shifted digits
\* came in between and were stored, as long as the payload is ASCII and does not
\* itself read as digits (parseHexViewToText: "convert the human-readable
\* hex editor text back to its decoded string representation").
PayloadIsMeant ==
  pay.plain /\ IsAscii(BytesOf(pay.meant)) /\ ~ (pay.editing /\ Incomplete(pay.input.rows)) =>
    pay.payload = BytesOf(pay.meant)
=============================================================================
