-------------------------- MODULE UiMessagesProofs --------------------------
(***************************************************************************)
(* That the page and the server together keep every captured message at    *)
(* exactly one place, whatever polls, fetch loops, reloads and clicks come *)
(* between.                                                                *)
(*                                                                         *)
(* The argument is one lemma about sets, Moves: a step that gathers in one *)
(* place some of what a few places hold, and of what is new, and drops the *)
(* rest, keeps each message at one place.  Every action is such a step.    *)
(***************************************************************************)
EXTENDS UiMessages, SequenceTheorems, FiniteSetTheorems, WellFoundedInduction, TLAPS

Once(s) == \A i, j \in DOMAIN s : s[i] = s[j] => i = j

-----------------------------------------------------------------------------
(* Sequences.                                                              *)

\* The first entries of a sequence.
LEMMA Sliced ==
  ASSUME NEW T, NEW s \in Seq(T), NEW n \in Nat
  PROVE  /\ slice(s, n) \in Seq(T)
         /\ Len(slice(s, n)) <= n /\ Len(slice(s, n)) <= Len(s)
         /\ Elements(slice(s, n)) \subseteq Elements(s)
         /\ Once(s) => Once(slice(s, n))
<1> DEFINE m == IF Len(s) < n THEN Len(s) ELSE n
           t == SubSeq(s, 1, m)
<1>1. Len(s) \in Nat /\ m \in Nat /\ m <= n /\ m <= Len(s)
  OBVIOUS
<1>2. /\ t \in Seq(T) /\ Len(t) = m
      /\ \A i \in 1 .. m : t[i] = s[i]
  <2> HIDE DEF m
  <2>1. \A i \in 1 .. m : s[i] \in T
    BY <1>1, ElementOfSeq
  <2> QED
    BY <1>1, <2>1, SubSeqProperties
<1> HIDE DEF m, t
<1>3. slice(s, n) = t
  BY DEF slice, m, t
<1>4. DOMAIN t = 1 .. m /\ DOMAIN s = 1 .. Len(s) /\ 1 .. m \subseteq 1 .. Len(s)
  BY <1>1, <1>2, LenProperties
<1>5. Elements(t) \subseteq Elements(s)
  BY <1>2, <1>4 DEF Elements
<1>6. Once(s) => Once(t)
  BY <1>2, <1>4 DEF Once
<1> QED
  BY <1>1, <1>2, <1>3, <1>5, <1>6

\* Two sequences with nothing in common.
LEMMA Joined ==
  ASSUME NEW T, NEW s \in Seq(T), NEW t \in Seq(T),
         Once(s), Once(t), Elements(s) \cap Elements(t) = {}
  PROVE  /\ s \o t \in Seq(T)
         /\ Elements(s \o t) = Elements(s) \cup Elements(t)
         /\ Once(s \o t)
<1> DEFINE u == s \o t
           n == Len(s)
           l == Len(t)
<1>1. /\ u \in Seq(T) /\ Len(u) = n + l /\ n \in Nat /\ l \in Nat
      /\ DOMAIN u = 1 .. n + l /\ DOMAIN s = 1 .. n /\ DOMAIN t = 1 .. l
      /\ \A i \in 1 .. n : u[i] = s[i]
      /\ \A i \in n + 1 .. n + l : u[i] = t[i - n]
  BY ConcatProperties, LenProperties
<1> HIDE DEF u, n, l
<1>2. \A i \in DOMAIN u : (i \in 1 .. n /\ i \in DOMAIN s)
                            \/ (i \in n + 1 .. n + l /\ i - n \in DOMAIN t)
  BY <1>1
<1>3. Elements(u) \subseteq Elements(s) \cup Elements(t)
  BY <1>1, <1>2 DEF Elements
<1>4. Elements(s) \subseteq Elements(u)
  BY <1>1 DEF Elements
<1>5. ASSUME NEW j \in DOMAIN t PROVE t[j] \in Elements(u)
  <2>1. n + j \in n + 1 .. n + l /\ n + j \in DOMAIN u /\ (n + j) - n = j
    BY <1>1
  <2> QED
    BY <1>1, <2>1 DEF Elements
<1>6. Elements(t) \subseteq Elements(u)
  BY <1>5 DEF Elements
<1>7. ASSUME NEW i \in DOMAIN u, NEW j \in DOMAIN u, u[i] = u[j]
      PROVE  i = j
  <2>1. CASE i \in 1 .. n /\ j \in 1 .. n
    BY <1>1, <1>7, <2>1 DEF Once
  <2>2. CASE i \in n + 1 .. n + l /\ j \in n + 1 .. n + l
    <3>1. i - n \in DOMAIN t /\ j - n \in DOMAIN t /\ t[i - n] = t[j - n]
      BY <1>1, <1>7, <2>2
    <3>2. i - n = j - n
      BY <3>1 DEF Once
    <3> QED
      BY <3>2, <1>1, <2>2
  <2>3. CASE i \in 1 .. n /\ j \in n + 1 .. n + l
    <3>1. u[i] \in Elements(s)
      BY <1>1, <2>3 DEF Elements
    <3>2. j - n \in DOMAIN t /\ u[j] = t[j - n]
      BY <1>1, <2>3
    <3>3. u[j] \in Elements(t)
      BY <3>2 DEF Elements
    <3> QED
      BY <3>1, <3>3, <1>7
  <2>4. CASE j \in 1 .. n /\ i \in n + 1 .. n + l
    <3>1. u[j] \in Elements(s)
      BY <1>1, <2>4 DEF Elements
    <3>2. i - n \in DOMAIN t /\ u[i] = t[i - n]
      BY <1>1, <2>4
    <3>3. u[i] \in Elements(t)
      BY <3>2 DEF Elements
    <3> QED
      BY <3>1, <3>3, <1>7
  <2> QED
    BY <1>2, <2>1, <2>2, <2>3, <2>4
<1>8. Once(u)
  BY <1>7 DEF Once
<1>9. u \in Seq(T) /\ Elements(u) = Elements(s) \cup Elements(t)
  BY <1>1, <1>3, <1>4, <1>6
<1> QED
  BY <1>8, <1>9 DEF u

\* A new entry at the end.
LEMMA Appended ==
  ASSUME NEW T, NEW s \in Seq(T), NEW e \in T, Once(s), e \notin Elements(s)
  PROVE  /\ Append(s, e) \in Seq(T) /\ Len(Append(s, e)) = Len(s) + 1
         /\ Elements(Append(s, e)) = Elements(s) \cup {e}
         /\ Once(Append(s, e))
<1> DEFINE t == <<e>>
<1>1. t \in Seq(T) /\ Len(t) = 1 /\ DOMAIN t = {1} /\ t[1] = e
  OBVIOUS
<1>2. Once(t) /\ Elements(t) = {e}
  BY <1>1 DEF Once, Elements
<1>3. Append(s, e) = s \o t
  BY AppendIsConcat
<1>4. Len(s \o t) = Len(s) + 1
  BY <1>1, ConcatProperties
<1> HIDE DEF t
<1> QED
  BY <1>1, <1>2, <1>3, <1>4, Joined

\* What is left without the first entry.
LEMMA Popped ==
  ASSUME NEW T, NEW s \in Seq(T), s # <<>>, Once(s)
  PROVE  /\ Tail(s) \in Seq(T) /\ Len(Tail(s)) = Len(s) - 1
         /\ Head(s) \in Elements(s)
         /\ Elements(Tail(s)) = Elements(s) \ {Head(s)}
         /\ Once(Tail(s))
<1> DEFINE t == Tail(s)
           n == Len(s)
<1>1. /\ t \in Seq(T) /\ n \in Nat /\ n >= 1 /\ Len(t) = n - 1
      /\ DOMAIN t = 1 .. n - 1 /\ DOMAIN s = 1 .. n
      /\ \A i \in 1 .. n - 1 : t[i] = s[i + 1]
      /\ Head(s) = s[1]
  BY HeadTailProperties, LenProperties, EmptySeq
<1> HIDE DEF t, n
<1>2. \A i \in 1 .. n - 1 : i + 1 \in DOMAIN s /\ i + 1 # 1
  BY <1>1
<1>3. 1 \in DOMAIN s
  BY <1>1
<1>4. ASSUME NEW i \in DOMAIN t PROVE t[i] \in Elements(s) \ {s[1]}
  <2>1. t[i] = s[i + 1] /\ i + 1 \in DOMAIN s /\ i + 1 # 1
    BY <1>1, <1>2
  <2> QED
    BY <2>1, <1>3 DEF Once, Elements
<1>5. ASSUME NEW i \in DOMAIN s, s[i] # s[1] PROVE s[i] \in Elements(t)
  <2>1. i - 1 \in DOMAIN t /\ (i - 1) + 1 = i
    BY <1>1, <1>5
  <2>2. t[i - 1] = s[i]
    BY <2>1, <1>1
  <2> QED
    BY <2>1, <2>2 DEF Elements
<1>6. Elements(t) = Elements(s) \ {s[1]}
  BY <1>4, <1>5 DEF Elements
<1>7. ASSUME NEW i \in DOMAIN t, NEW j \in DOMAIN t, t[i] = t[j]
      PROVE  i = j
  <2>1. i + 1 \in DOMAIN s /\ j + 1 \in DOMAIN s /\ s[i + 1] = s[j + 1]
    BY <1>1, <1>2, <1>7
  <2>2. i + 1 = j + 1
    BY <2>1 DEF Once
  <2> QED
    BY <2>2, <1>1
<1>8. Once(t)
  BY <1>7 DEF Once
<1>9. Head(s) \in Elements(s)
  BY <1>1, <1>3 DEF Elements
<1> QED
  BY <1>1, <1>6, <1>8, <1>9 DEF t, n

\* Nothing is in the empty sequence.
LEMMA Nothing ==
  /\ \A T : <<>> \in Seq(T)
  /\ Elements(<<>>) = {} /\ Once(<<>>) /\ Len(<<>>) = 0
  BY EmptySeq DEF Elements, Once

-----------------------------------------------------------------------------
(* The invariant.                                                          *)

Seen == [Consumers -> [running : BOOLEAN, message_sequence : 0 .. MaxMessages,
                       outcome : Outcomes]]

\* A poll that is answered has a status.
Slots ==
  {x \in [phase : {"free", "answered"}, answer : Seen \cup {None}] :
     x.phase = "answered" => x.answer \in Seen}

\* A loop is at a consumer, on a status, and what it has not asked for it has
\* not got.
Loops ==
  {x \in [phase : {"free", "asked", "answered"}, at : 0 .. NumConsumers,
          runtime : Seen \cup {None}, keep : KeepLast, answer : Seq(Messages)] :
     /\ x.phase # "free" => x.at \in Consumers /\ x.runtime \in Seen
     /\ x.phase # "answered" => x.answer = <<>>}

\* The types that the argument needs: those of TypeOK, and of the loops.
Typed ==
  /\ captured \in 0 .. MaxMessages
  /\ buffer \in [Consumers -> Seq(Messages)]
  /\ \A k \in Consumers : Len(buffer[k]) <= Buffer
  /\ count \in [Consumers -> Nat]
  /\ \A k \in Consumers : count[k] <= captured
  /\ up \in [Consumers -> BOOLEAN]
  /\ outcome \in [Consumers -> Outcomes]
  /\ capture \in [Consumers -> [enabled : BOOLEAN, keep_last : KeepLast]]
  /\ rows \in [Consumers -> Seq(Messages)]
  /\ \A k \in Consumers : \E n \in KeepLast : Len(rows[k]) <= n
  /\ stored = rows
  /\ lastSeen \in [Consumers -> 0 .. MaxMessages]
  /\ runtime \in Seen
  /\ polls \in [Polls -> Slots]
  /\ fetches \in [Fetches -> Loops]

\* What each place holds.
Held == [p \in Places |-> Elements(At(p))]

\* Of the messages 1 .. n, those in dropped are nowhere, the others somewhere
\* and never at two places.
Kept(held, n, dropped) ==
  /\ dropped \subseteq 1 .. n
  /\ \A p \in Places : held[p] \subseteq (1 .. n) \ dropped
  /\ \A p, q \in Places : p # q => held[p] \cap held[q] = {}
  /\ \A m \in (1 .. n) \ dropped : \E p \in Places : m \in held[p]

EachIsKept ==
  /\ Kept(Held, captured, gone)
  /\ \A p \in Places : Once(At(p))

IInv == Typed /\ EachIsKept

-----------------------------------------------------------------------------
(* Places.                                                                 *)

\* A step that gathers in place d some of what the places of From held (that is
\* taken), and of what is new, and drops the rest of it.
Gathering(held, held2, n, n2, dropped, dropped2, From, d, taken) ==
  /\ n \in Nat /\ n2 \in Nat /\ n <= n2
  /\ From \subseteq Places /\ d \in From
  /\ \A m : m \in taken <=> \E p \in From : m \in held[p]
  /\ \A p \in Places \ From : held2[p] = held[p]
  /\ \A p \in From : p # d => held2[p] = {}
  /\ held2[d] \subseteq taken \cup (n + 1 .. n2)
  /\ dropped2 = dropped \cup ((taken \cup (n + 1 .. n2)) \ held2[d])

LEMMA Moves ==
  ASSUME NEW held, NEW held2, NEW n, NEW n2, NEW dropped, NEW dropped2,
         NEW From, NEW d, NEW taken, Kept(held, n, dropped),
         Gathering(held, held2, n, n2, dropped, dropped2, From, d, taken)
  PROVE  Kept(held2, n2, dropped2)
<1> USE DEF Gathering
<1> DEFINE new == n + 1 .. n2
<1>1. (1 .. n2) = (1 .. n) \cup new /\ (1 .. n) \cap new = {}
  OBVIOUS
<1> HIDE DEF new
<1>2. \A p \in Places : held[p] \subseteq (1 .. n) \ dropped
  BY DEF Kept
<1>3. dropped \subseteq 1 .. n
  BY DEF Kept
<1>4. taken \subseteq (1 .. n) \ dropped
  BY <1>2
<1>5. \A p \in Places \ From : held[p] \cap taken = {}
  BY DEF Kept
<1>6. held2[d] \subseteq taken \cup new
      /\ dropped2 = dropped \cup ((taken \cup new) \ held2[d])
  BY DEF new
<1>7. dropped2 \subseteq 1 .. n2
  BY <1>1, <1>3, <1>4, <1>6
<1>8. ASSUME NEW p \in Places
      PROVE  held2[p] \subseteq (1 .. n2) \ dropped2
  <2>1. CASE p = d
    BY <2>1, <1>1, <1>3, <1>4, <1>6
  <2>2. CASE p # d /\ p \in From
    BY <2>2
  <2>3. CASE p # d /\ p \notin From
    <3>1. held2[p] = held[p] /\ held[p] \cap taken = {}
      BY <2>3, <1>5
    <3>2. held[p] \subseteq (1 .. n) \ dropped
      BY <1>2
    <3> QED
      BY <3>1, <3>2, <1>1, <1>6
  <2> QED
    BY <2>1, <2>2, <2>3
<1>9. ASSUME NEW p \in Places, NEW q \in Places, p # q
       PROVE  held2[p] \cap held2[q] = {}
  <2>1. \A r \in Places : r # d => held2[r] = {} \/ (held2[r] = held[r] /\ held[r] \cap taken = {})
    BY <1>5
  <2>2. CASE p # d /\ q # d
    BY <2>1, <2>2, <1>9 DEF Kept
  <2>3. \A r \in Places : r # d => held2[r] \cap held2[d] = {}
    <3> SUFFICES ASSUME NEW r \in Places, r # d PROVE held2[r] \cap held2[d] = {}
      OBVIOUS
    <3>1. held[r] \subseteq 1 .. n
      BY <1>2
    <3> QED
      BY <3>1, <2>1, <1>1, <1>6
  <2> QED
    BY <2>2, <2>3, <1>9
<1>10. ASSUME NEW m \in (1 .. n2) \ dropped2
       PROVE  \E p \in Places : m \in held2[p]
  <2>1. CASE m \in taken \cup new
    BY <2>1, <1>6
  <2>2. CASE m \notin taken /\ m \notin new
    <3>1. m \in (1 .. n) \ dropped
      BY <2>2, <1>1, <1>6
    <3>2. PICK p \in Places : m \in held[p]
      BY <3>1 DEF Kept
    <3>3. p # d /\ p \notin From
      BY <3>2, <2>2
    <3> QED
      BY <3>2, <3>3
  <2> QED
    BY <2>1, <2>2
<1> QED
  BY <1>7, <1>8, <1>9, <1>10 DEF Kept

\* What the places are.
LEMMA PlacesAre ==
  /\ \A k \in Consumers : <<"buffer", k>> \in Places /\ <<"rows", k>> \in Places
  /\ \A f \in Fetches : <<"answer", f>> \in Places
  /\ \A p \in Places : \/ \E k \in Consumers : p = <<"buffer", k>> \/ p = <<"rows", k>>
                       \/ \E f \in Fetches : p = <<"answer", f>>
  /\ \A k, l : /\ <<"buffer", k>> # <<"rows", l>> /\ <<"buffer", k>> # <<"answer", l>>
               /\ <<"rows", k>> # <<"answer", l>>
  /\ \A k, l : /\ k # l => <<"buffer", k>> # <<"buffer", l>>
               /\ k # l => <<"rows", k>> # <<"rows", l>>
               /\ k # l => <<"answer", k>> # <<"answer", l>>
  BY DEF Places

\* And what is there, before and after a step.
LEMMA IsAt ==
  /\ \A k : /\ At(<<"buffer", k>>) = buffer[k]
            /\ At(<<"rows", k>>) = rows[k]
            /\ At(<<"answer", k>>) = fetches[k].answer
  /\ \A k : /\ At(<<"buffer", k>>)' = buffer'[k]
            /\ At(<<"rows", k>>)' = rows'[k]
            /\ At(<<"answer", k>>)' = fetches'[k].answer
  BY DEF At

LEMMA IsHeld ==
  /\ \A k \in Consumers : /\ Held[<<"buffer", k>>] = Elements(buffer[k])
                          /\ Held[<<"rows", k>>] = Elements(rows[k])
                          /\ Held'[<<"buffer", k>>] = Elements(buffer'[k])
                          /\ Held'[<<"rows", k>>] = Elements(rows'[k])
  /\ \A f \in Fetches : /\ Held[<<"answer", f>>] = Elements(fetches[f].answer)
                        /\ Held'[<<"answer", f>>] = Elements(fetches'[f].answer)
  BY PlacesAre, IsAt DEF Held

\* The places of some buffers, rows and answers.
Some(B, R, A) == ({"buffer"} \X B) \cup ({"rows"} \X R) \cup ({"answer"} \X A)

\* What a step takes that changes the buffers B, the rows R and the answers A.
Taken(B, R, A) == (UNION {Elements(buffer[k]) : k \in B})
                    \cup (UNION {Elements(rows[k]) : k \in R})
                    \cup (UNION {Elements(fetches[f].answer) : f \in A})

\* Such a step gathers in place d, and empties the other places it changes.
Changes(B, R, A, d) ==
  /\ captured \in Nat /\ captured' \in Nat /\ captured <= captured'
  /\ B \subseteq Consumers /\ R \subseteq Consumers /\ A \subseteq Fetches
  /\ \A k \in Consumers \ B : buffer'[k] = buffer[k]
  /\ \A k \in Consumers \ R : rows'[k] = rows[k]
  /\ \A f \in Fetches \ A : fetches'[f].answer = fetches[f].answer
  /\ d \in Some(B, R, A)
  /\ \A p \in Some(B, R, A) : p # d => At(p)' = <<>>
  /\ Once(At(d)')
  /\ Elements(At(d)') \subseteq Taken(B, R, A) \cup (captured + 1 .. captured')
  /\ gone' = gone \cup
       ((Taken(B, R, A) \cup (captured + 1 .. captured')) \ Elements(At(d)'))

LEMMA Gathers ==
  ASSUME EachIsKept, NEW B, NEW R, NEW A, NEW d, Changes(B, R, A, d)
  PROVE  EachIsKept'
<1> USE DEF Changes
<1> DEFINE From == Some(B, R, A)
<1>1. \A p \in From : \/ \E k \in B : p = <<"buffer", k>>
                      \/ \E k \in R : p = <<"rows", k>>
                      \/ \E f \in A : p = <<"answer", f>>
  BY DEF Some
<1>2. /\ \A k \in B : <<"buffer", k>> \in From
      /\ \A k \in R : <<"rows", k>> \in From
      /\ \A f \in A : <<"answer", f>> \in From
  BY DEF Some
<1>3. From \subseteq Places
  BY <1>1, PlacesAre
<1>4. /\ \A k \in Consumers : <<"buffer", k>> \notin From => k \notin B
      /\ \A k \in Consumers : <<"rows", k>> \notin From => k \notin R
      /\ \A f \in Fetches : <<"answer", f>> \notin From => f \notin A
  BY <1>2
<1>5. d \in From /\ \A p \in From : p # d => At(p)' = <<>>
  OBVIOUS
<1> HIDE DEF From
<1>6. \A p \in Places \ From : At(p)' = At(p)
  <2> SUFFICES ASSUME NEW p \in Places, p \notin From PROVE At(p)' = At(p)
    OBVIOUS
  <2>1. CASE \E k \in Consumers : p = <<"buffer", k>>
    BY <2>1, <1>4, IsAt
  <2>2. CASE \E k \in Consumers : p = <<"rows", k>>
    BY <2>2, <1>4, IsAt
  <2>3. CASE \E f \in Fetches : p = <<"answer", f>>
    BY <2>3, <1>4, IsAt
  <2> QED
    BY <2>1, <2>2, <2>3, PlacesAre
<1>7. \A p \in Places : Held[p] = Elements(At(p)) /\ Held'[p] = Elements(At(p)')
  BY DEF Held
<1>8. \A p \in Places \ From : Held'[p] = Held[p]
  BY <1>6, <1>7
<1>9. \A p \in From : p # d => Held'[p] = {}
  BY <1>3, <1>5, <1>7, Nothing
<1>10. \A p \in Places : Once(At(p)')
  <2> SUFFICES ASSUME NEW p \in Places PROVE Once(At(p)')
    OBVIOUS
  <2>1. CASE p \in From
    BY <2>1, <1>5, Nothing
  <2>2. CASE p \notin From
    BY <2>2, <1>6 DEF EachIsKept
  <2> QED
    BY <2>1, <2>2
<1> DEFINE taken == Taken(B, R, A)
<1>11. \A m : m \in taken <=> \E p \in From : m \in Held[p]
  <2>1. ASSUME NEW m \in taken PROVE \E p \in From : m \in Held[p]
    <3>1. CASE \E k \in B : m \in Elements(buffer[k])
      BY <3>1, <1>2, IsHeld
    <3>2. CASE \E k \in R : m \in Elements(rows[k])
      BY <3>2, <1>2, IsHeld
    <3>3. CASE \E f \in A : m \in Elements(fetches[f].answer)
      BY <3>3, <1>2, IsHeld
    <3> QED
      BY <2>1, <3>1, <3>2, <3>3 DEF Taken
  <2>2. ASSUME NEW p \in From, NEW m \in Held[p] PROVE m \in taken
    <3>1. CASE \E k \in B : p = <<"buffer", k>>
      <4>1. PICK k \in B : p = <<"buffer", k>>
        BY <3>1
      <4>2. m \in Elements(buffer[k])
        BY <2>2, <4>1, IsHeld
      <4> QED
        BY <4>2 DEF Taken
    <3>2. CASE \E k \in R : p = <<"rows", k>>
      <4>1. PICK k \in R : p = <<"rows", k>>
        BY <3>2
      <4>2. m \in Elements(rows[k])
        BY <2>2, <4>1, IsHeld
      <4> QED
        BY <4>2 DEF Taken
    <3>3. CASE \E f \in A : p = <<"answer", f>>
      <4>1. PICK f \in A : p = <<"answer", f>>
        BY <3>3
      <4>2. m \in Elements(fetches[f].answer)
        BY <2>2, <4>1, IsHeld
      <4> QED
        BY <4>2 DEF Taken
    <3> QED
      BY <3>1, <3>2, <3>3, <1>1
  <2> QED
    BY <2>1, <2>2
<1> HIDE DEF taken
<1>12. Held'[d] = Elements(At(d)')
  BY <1>3, <1>5, <1>7
<1>13. Kept(Held, captured, gone)
  BY DEF EachIsKept
<1>14. Gathering(Held, Held', captured, captured', gone, gone', From, d, taken)
  BY <1>3, <1>5, <1>8, <1>9, <1>11, <1>12 DEF Gathering, taken
<1>15. Kept(Held', captured', gone')
  BY <1>13, <1>14, Moves
<1> QED
  BY <1>10, <1>15 DEF EachIsKept

\* The same entries at the same places.
LEMMA Same ==
  ASSUME EachIsKept, captured' = captured, gone' = gone, buffer' = buffer, rows' = rows,
         \A f \in Fetches : fetches'[f].answer = fetches[f].answer
  PROVE  EachIsKept'
<1>1. \A p \in Places : At(p)' = At(p)
  BY IsAt, PlacesAre
<1>2. Held' = Held
  BY <1>1 DEF Held
<1>3. \A p \in Places : Once(At(p)')
  BY <1>1 DEF EachIsKept
<1> QED
  BY <1>2, <1>3 DEF EachIsKept, Kept

-----------------------------------------------------------------------------
(* The server.                                                             *)

LEMMA StartKeeps ==
  ASSUME IInv, NEW k \in Consumers, Start(k)
  PROVE  IInv'
<1>1. Typed'
  BY DEF IInv, Typed, Start, view, Outcomes
<1>2. EachIsKept'
  BY Same DEF IInv, Start, view
<1> QED
  BY <1>1, <1>2 DEF IInv

LEMMA StopKeeps ==
  ASSUME IInv, NEW k \in Consumers, NEW how \in Outcomes, Stop(k, how)
  PROVE  IInv'
<1>1. Typed'
  BY DEF IInv, Typed, Stop, view, Outcomes
<1>2. EachIsKept'
  BY Same DEF IInv, Stop, view
<1> QED
  BY <1>1, <1>2 DEF IInv

LEMMA CaptureKeeps ==
  ASSUME IInv, NEW k \in Consumers, Capture(k)
  PROVE  IInv'
<1> DEFINE full == Len(buffer[k]) = Buffer
           rest == IF full THEN Tail(buffer[k]) ELSE buffer[k]
           e == captured + 1
           d == <<"buffer", k>>
<1>1. /\ captured' = e /\ captured < MaxMessages
      /\ count' = [count EXCEPT ![k] = @ + 1]
      /\ buffer' = [buffer EXCEPT ![k] = Append(rest, e)]
      /\ gone' = IF full THEN gone \cup {Head(buffer[k])} ELSE gone
      /\ UNCHANGED <<up, outcome, capture, rows, stored, lastSeen, runtime, polls, fetches>>
  BY DEF Capture, view
<1>2. /\ captured \in Nat /\ captured' \in Nat /\ captured' = captured + 1
      /\ e \in Messages /\ captured' \in 0 .. MaxMessages
  BY <1>1, ConstantsAssumption DEF IInv, Typed, Messages
<1>3. /\ buffer[k] \in Seq(Messages) /\ Len(buffer[k]) <= Buffer
      /\ Len(buffer[k]) \in Nat /\ Buffer \in Nat /\ Buffer # 0
  BY ConstantsAssumption, LenProperties DEF IInv, Typed
<1>4. /\ d \in Places /\ At(d) = buffer[k] /\ Once(buffer[k])
      /\ Held[d] = Elements(buffer[k])
  BY PlacesAre, IsAt, IsHeld DEF IInv, EachIsKept
<1>5. Held[d] \subseteq 1 .. captured
  BY <1>4 DEF IInv, EachIsKept, Kept
<1>8. /\ rest \in Seq(Messages) /\ Len(rest) + 1 <= Buffer /\ Once(rest)
      /\ Elements(rest) \subseteq Held[d]
      /\ gone' = gone \cup (Held[d] \ Elements(rest))
  <2>1. CASE full
    <3>1. buffer[k] # <<>>
      BY <1>3, <2>1, Nothing
    <3>2. /\ rest \in Seq(Messages) /\ Len(rest) = Len(buffer[k]) - 1
          /\ Head(buffer[k]) \in Held[d]
          /\ Elements(rest) = Held[d] \ {Head(buffer[k])} /\ Once(rest)
      BY <3>1, <1>3, <1>4, <2>1, Popped
    <3>3. Len(rest) + 1 <= Buffer
      BY <3>2, <1>3
    <3>4. gone' = gone \cup {Head(buffer[k])}
      BY <1>1, <2>1
    <3>5. Elements(rest) \subseteq Held[d]
          /\ gone' = gone \cup (Held[d] \ Elements(rest))
      BY <3>2, <3>4
    <3> QED
      BY <3>2, <3>3, <3>5
  <2>2. CASE ~ full
    <3>1. rest = buffer[k] /\ gone' = gone
      BY <2>2, <1>1
    <3> QED
      BY <3>1, <1>3, <1>4, <2>2
  <2> QED
    BY <2>1, <2>2
<1> HIDE DEF full, rest
<1>9. e \notin Elements(rest) /\ Len(rest) \in Nat
  BY <1>2, <1>5, <1>8, LenProperties
<1> DEFINE s == Append(rest, e)
<1>10. /\ s \in Seq(Messages) /\ Len(s) <= Buffer /\ Once(s)
       /\ Elements(s) = Elements(rest) \cup {e}
  <2>1. /\ s \in Seq(Messages) /\ Len(s) = Len(rest) + 1 /\ Once(s)
        /\ Elements(s) = Elements(rest) \cup {e}
    BY <1>2, <1>8, <1>9, Appended
  <2> QED
    BY <2>1, <1>8
<1> HIDE DEF s
<1>11. buffer' = [buffer EXCEPT ![k] = s]
  BY <1>1 DEF s
<1>12. buffer \in [Consumers -> Seq(Messages)]
  BY DEF IInv, Typed
<1>13. buffer'[k] = s /\ \A j \in Consumers : j # k => buffer'[j] = buffer[j]
  BY <1>11, <1>12
<1>14. Typed'
  <2>1. /\ buffer' \in [Consumers -> Seq(Messages)]
        /\ \A j \in Consumers : Len(buffer'[j]) <= Buffer
    BY <1>10, <1>11, <1>12, <1>13 DEF IInv, Typed
  <2>2. /\ count' \in [Consumers -> Nat]
        /\ \A j \in Consumers : count'[j] <= captured'
    BY <1>1, <1>2 DEF IInv, Typed
  <2> QED
    BY <2>1, <2>2, <1>1, <1>2 DEF IInv, Typed
<1>15. EachIsKept'
  <2>1. /\ At(d)' = s
        /\ \A p \in Some({k}, {}, {}) : p = d
        /\ d \in Some({k}, {}, {})
    BY <1>13, IsAt DEF Some
  <2>2. {e} = captured + 1 .. captured' /\ captured <= captured'
    BY <1>1, <1>2
  <2>3. e \notin Held[d]
    BY <1>2, <1>5
  <2>4. /\ Elements(s) \subseteq Held[d] \cup (captured + 1 .. captured')
        /\ gone' = gone \cup ((Held[d] \cup (captured + 1 .. captured')) \ Elements(s))
    BY <2>2, <2>3, <1>8, <1>10
  <2>5. /\ \A j \in Consumers \ {} : rows'[j] = rows[j]
        /\ \A f \in Fetches \ {} : fetches'[f].answer = fetches[f].answer
        /\ \A j \in Consumers \ {k} : buffer'[j] = buffer[j]
    BY <1>1, <1>13
  <2>6. Taken({k}, {}, {}) = Held[d]
    BY <1>4 DEF Taken
  <2>7. EachIsKept /\ Once(At(d)')
    BY <2>1, <1>10 DEF IInv
  <2> HIDE DEF d, e
  <2>8. {k} \in SUBSET Consumers /\ {} \in SUBSET Consumers /\ {} \in SUBSET Fetches
    OBVIOUS
  <2>9. Changes({k}, {}, {}, d)
    BY <2>1, <2>2, <2>4, <2>5, <2>6, <2>7, <2>8, <1>2 DEF Changes
  <2> QED
    BY <2>7, <2>9, Gathers
<1> QED
  BY <1>14, <1>15 DEF IInv

LEMMA RestartKeeps ==
  ASSUME IInv, ServerRestart
  PROVE  IInv'
<1>1. /\ gone' = gone \cup UNION {Elements(buffer[k]) : k \in Consumers}
      /\ buffer' = [k \in Consumers |-> <<>>]
      /\ count' = [k \in Consumers |-> 0]
      /\ up' = [k \in Consumers |-> FALSE]
      /\ outcome' = [k \in Consumers |-> None]
      /\ UNCHANGED <<captured, capture, rows, stored, lastSeen, runtime, polls, fetches>>
  BY DEF ServerRestart, view
<1>2. Typed'
  <2>1. /\ buffer' \in [Consumers -> Seq(Messages)]
        /\ \A k \in Consumers : Len(buffer'[k]) <= Buffer
    BY <1>1, Nothing, ConstantsAssumption
  <2>2. /\ count' \in [Consumers -> Nat] /\ \A k \in Consumers : count'[k] <= captured
        /\ up' \in [Consumers -> BOOLEAN] /\ outcome' \in [Consumers -> Outcomes]
    BY <1>1 DEF Outcomes, IInv, Typed
  <2> QED
    BY <1>1, <2>1, <2>2 DEF IInv, Typed
<1> DEFINE d == <<"buffer", 1>>
<1>3. 1 \in Consumers
  BY ConstantsAssumption DEF Consumers
<1>4. \A k \in Consumers : At(<<"buffer", k>>)' = <<>>
  BY <1>1, IsAt
<1>5. /\ d \in Some(Consumers, {}, {})
      /\ \A p \in Some(Consumers, {}, {}) : At(p)' = <<>>
  BY <1>3, <1>4 DEF Some
<1>6. Elements(At(d)') = {} /\ Once(At(d)')
  BY <1>3, <1>4, Nothing
<1>7. captured \in Nat /\ captured' = captured /\ captured + 1 .. captured' = {}
  BY <1>1 DEF IInv, Typed
<1> HIDE DEF d
<1>8. Taken(Consumers, {}, {}) = UNION {Elements(buffer[k]) : k \in Consumers}
  BY DEF Taken
<1>9. Changes(Consumers, {}, {}, d)
  BY <1>1, <1>5, <1>6, <1>7, <1>8 DEF Changes
<1>10. EachIsKept'
  BY <1>9, Gathers DEF IInv
<1> QED
  BY <1>2, <1>10 DEF IInv

-----------------------------------------------------------------------------
(* The fetch loops.                                                        *)

LEMMA NoFetchIsALoop == NoFetch \in Loops /\ NoFetch.answer = <<>>
  BY Nothing, ConstantsAssumption DEF NoFetch, Loops

LEMMA NoStatusIsSeen == EMPTY_RUNTIME_STATUS \in Seen
<1>1. 0 \in 0 .. MaxMessages /\ None \in Outcomes
  BY ConstantsAssumption DEF Outcomes
<1> QED
  BY <1>1 DEF EMPTY_RUNTIME_STATUS, Seen

\* A loop goes on at a later consumer, or ends; it starts there with nothing.
LEMMA AskingGoesOn ==
  ASSUME Typed, NEW k, NEW status \in Seen
  PROVE  Asking(k, status) \in Loops /\ Asking(k, status).answer = <<>>
<1> DEFINE later == {j \in Consumers : j > k /\ wantsFetch(j, status)}
           j == CHOOSE i \in later : \A l \in later : i <= l
           begun == [phase |-> "asked", at |-> j, runtime |-> status,
                     keep |-> capture[j].keep_last, answer |-> <<>>]
<1>1. Asking(k, status) = IF later = {} THEN NoFetch ELSE begun
  BY DEF Asking
<1>2. NoFetch \in Loops /\ NoFetch.answer = <<>>
  BY NoFetchIsALoop
<1>3. later # {} => j \in Consumers
  <2>1. later \in SUBSET Nat /\ later \subseteq Consumers
    BY DEF Consumers
  <2> HIDE DEF later
  <2>2. ASSUME later # {} PROVE \E i \in later : \A l \in later : ~ (<<l, i>> \in OpToRel(<, Nat))
    BY <2>1, <2>2, NatLessThanWellFounded, WFMin
  <2>3. \A i, l \in Nat : <<l, i>> \notin OpToRel(<, Nat) => i <= l
    BY DEF OpToRel
  <2>4. later # {} => \E i \in later : \A l \in later : i <= l
    BY <2>1, <2>2, <2>3
  <2> QED
    BY <2>1, <2>4
<1> HIDE DEF j
<1>4. later # {} => begun \in Loops /\ begun.answer = <<>>
  <2> SUFFICES ASSUME j \in Consumers PROVE begun \in Loops /\ begun.answer = <<>>
    BY <1>3
  <2>1. capture[j].keep_last \in KeepLast /\ j \in 0 .. NumConsumers
    BY DEF Typed, Consumers
  <2> QED
    BY <2>1, Nothing DEF Loops
<1> QED
  BY <1>1, <1>2, <1>4

LEMMA DrainKeeps ==
  ASSUME IInv, NEW f \in Fetches, Drain(f), NEW k, k = fetches[f].at
  PROVE  IInv'
<1> DEFINE s == buffer[k]
           a == <<"answer", f>>
           b == <<"buffer", k>>
<1>1. /\ fetches[f].phase = "asked"
      /\ fetches' = [fetches EXCEPT ![f].phase = "answered", ![f].answer = s]
      /\ buffer' = [buffer EXCEPT ![k] = <<>>]
      /\ UNCHANGED <<count, up, outcome, captured, capture, rows, stored,
                     lastSeen, runtime, polls, gone>>
  BY DEF Drain, view
<1>2. /\ fetches \in [Fetches -> Loops] /\ fetches[f] \in Loops
      /\ buffer \in [Consumers -> Seq(Messages)]
  BY DEF IInv, Typed
<1>3. k \in Consumers /\ s \in Seq(Messages) /\ fetches[f].answer = <<>>
  BY <1>1, <1>2 DEF Loops
<1>4. fetches'[f] = [fetches[f] EXCEPT !.phase = "answered", !.answer = s]
      /\ \A g \in Fetches : g # f => fetches'[g] = fetches[g]
  BY <1>1, <1>2
<1>5. fetches'[f] \in Loops /\ fetches'[f].answer = s
  BY <1>1, <1>2, <1>3, <1>4 DEF Loops
<1>6. /\ fetches' \in [Fetches -> Loops]
      /\ buffer' \in [Consumers -> Seq(Messages)]
      /\ buffer'[k] = <<>> /\ \A j \in Consumers : j # k => buffer'[j] = buffer[j]
  BY <1>1, <1>2, <1>3, <1>4, <1>5, Nothing
<1> HIDE DEF s
<1>7. Typed'
  <2>1. \A j \in Consumers : Len(buffer[j]) <= Buffer
    BY DEF IInv, Typed
  <2>2. Len(buffer'[k]) <= Buffer
    BY <1>6, Nothing, ConstantsAssumption
  <2>3. \A j \in Consumers : Len(buffer'[j]) <= Buffer
    BY <1>6, <2>1, <2>2
  <2> QED
    BY <1>1, <1>6, <2>3 DEF IInv, Typed
<1>8. EachIsKept'
  <2>1. /\ a \in Some({k}, {}, {f}) /\ At(a)' = s /\ At(b)' = <<>>
        /\ \A p \in Some({k}, {}, {f}) : p # a => p = b
    BY <1>5, <1>6, IsAt DEF Some
  <2>2. Once(s)
    BY <1>3, PlacesAre, IsAt DEF IInv, EachIsKept, s
  <2>3. captured \in Nat /\ captured' = captured /\ captured + 1 .. captured' = {}
    BY <1>1 DEF IInv, Typed
  <2>4. Taken({k}, {}, {f}) = Elements(s)
    BY <1>3, Nothing DEF Taken, s
  <2>5. \A g \in Fetches \ {f} : fetches'[g].answer = fetches[g].answer
    BY <1>4
  <2>6. \A j \in Consumers \ {k} : buffer'[j] = buffer[j]
    BY <1>6
  <2>7. {k} \subseteq Consumers /\ {f} \subseteq Fetches
    BY <1>3
  <2> HIDE DEF a, b
  <2>8. /\ Elements(At(a)') \subseteq Elements(s) \cup (captured + 1 .. captured')
        /\ gone' = gone \cup
             ((Elements(s) \cup (captured + 1 .. captured')) \ Elements(At(a)'))
    BY <1>1, <2>1, <2>3
  <2>9. /\ Elements(At(a)') \subseteq Taken({k}, {}, {f}) \cup (captured + 1 .. captured')
        /\ gone' = gone \cup
             ((Taken({k}, {}, {f}) \cup (captured + 1 .. captured')) \ Elements(At(a)'))
    BY <2>4, <2>8
  <2>10. /\ \A p \in Some({k}, {}, {f}) : p # a => At(p)' = <<>>
         /\ Once(At(a)')
    BY <2>1, <2>2
  <2>11. /\ \A j \in Consumers \ {} : rows'[j] = rows[j]
         /\ captured <= captured' /\ captured' \in Nat /\ {} \subseteq Consumers
    BY <1>1, <2>3
  <2>12. Changes({k}, {}, {f}, a)
    BY <2>1, <2>3, <2>5, <2>6, <2>7, <2>9, <2>10, <2>11 DEF Changes
  <2> QED
    BY <2>12, Gathers DEF IInv
<1> QED
  BY <1>7, <1>8 DEF IInv

LEMMA FetchKeeps ==
  ASSUME IInv, NEW f \in Fetches, fetchNewMessagesForRunningConsumers(f),
         NEW k, k = fetches[f].at
  PROVE  IInv'
<1> DEFINE fetch == fetches[f]
           answer == fetch.answer
           keep == fetch.keep
           all == answer \o rows[k]
           s == slice(all, keep)
           next == Asking(k, fetch.runtime)
           seen == fetch.runtime[k]
           a == <<"answer", f>>
           r == <<"rows", k>>
<1>1. /\ fetch.phase = "answered"
      /\ rows' = [rows EXCEPT ![k] = s]
      /\ stored' = rows'
      /\ gone' = gone \cup (Elements(all) \ Elements(s))
      /\ lastSeen' = [lastSeen EXCEPT ![k] = seen.message_sequence]
      /\ fetches' = [fetches EXCEPT ![f] = next]
      /\ UNCHANGED <<buffer, count, up, outcome, captured, capture, runtime, polls>>
  BY DEF fetchNewMessagesForRunningConsumers, Dropped, merged, server
<1>2. /\ fetches \in [Fetches -> Loops] /\ fetch \in Loops
      /\ rows \in [Consumers -> Seq(Messages)]
      /\ lastSeen \in [Consumers -> 0 .. MaxMessages]
  BY DEF IInv, Typed
<1>3. /\ k \in Consumers /\ fetch.runtime \in Seen
      /\ answer \in Seq(Messages) /\ keep \in KeepLast /\ keep \in Nat
      /\ rows[k] \in Seq(Messages)
  BY <1>1, <1>2, ConstantsAssumption DEF Loops
<1>4. seen.message_sequence \in 0 .. MaxMessages
  BY <1>3 DEF Seen
<1>5. next \in Loops /\ next.answer = <<>>
  BY <1>3, AskingGoesOn DEF IInv
<1>6. /\ a \in Places /\ r \in Places /\ a # r
      /\ At(a) = answer /\ At(r) = rows[k]
      /\ Held[a] = Elements(answer) /\ Held[r] = Elements(rows[k])
  BY <1>3, PlacesAre, IsAt, IsHeld
<1>7. Once(answer) /\ Once(rows[k]) /\ Elements(answer) \cap Elements(rows[k]) = {}
  BY <1>6 DEF IInv, EachIsKept, Kept
<1>8. /\ all \in Seq(Messages) /\ Once(all)
      /\ Elements(all) = Elements(answer) \cup Elements(rows[k])
  BY <1>3, <1>7, Joined
<1> HIDE DEF all
<1>9. /\ s \in Seq(Messages) /\ Once(s) /\ Len(s) <= keep
      /\ Elements(s) \subseteq Elements(all)
  BY <1>3, <1>8, Sliced
<1> HIDE DEF s, next, seen
<1>10. /\ rows' \in [Consumers -> Seq(Messages)] /\ rows'[k] = s
       /\ \A j \in Consumers : j # k => rows'[j] = rows[j]
       /\ fetches' \in [Fetches -> Loops] /\ fetches'[f] = next
       /\ \A g \in Fetches : g # f => fetches'[g] = fetches[g]
       /\ lastSeen' \in [Consumers -> 0 .. MaxMessages]
  BY <1>1, <1>2, <1>3, <1>4, <1>5, <1>9
<1>11. \A j \in Consumers : \E n \in KeepLast : Len(rows'[j]) <= n
  BY <1>3, <1>9, <1>10 DEF IInv, Typed
<1>12. Typed'
  BY <1>1, <1>10, <1>11 DEF IInv, Typed
<1>13. EachIsKept'
  <2>1. /\ r \in Some({}, {k}, {f}) /\ At(r)' = s /\ At(a)' = <<>>
        /\ \A p \in Some({}, {k}, {f}) : p # r => p = a
    BY <1>5, <1>10, IsAt DEF Some
  <2>2. captured \in Nat /\ captured' = captured /\ captured + 1 .. captured' = {}
    BY <1>1 DEF IInv, Typed
  <2>3. Taken({}, {k}, {f}) = Elements(all)
    BY <1>8 DEF Taken
  <2>4. \A g \in Fetches \ {f} : fetches'[g].answer = fetches[g].answer
    BY <1>10
  <2>5. \A j \in Consumers \ {k} : rows'[j] = rows[j]
    BY <1>10
  <2>6. {k} \subseteq Consumers /\ {f} \subseteq Fetches
    BY <1>3
  <2> HIDE DEF a, r
  <2>7. /\ Elements(At(r)') \subseteq Elements(all) \cup (captured + 1 .. captured')
        /\ gone' = gone \cup
             ((Elements(all) \cup (captured + 1 .. captured')) \ Elements(At(r)'))
    BY <1>1, <1>9, <2>1, <2>2
  <2>8. /\ Elements(At(r)') \subseteq Taken({}, {k}, {f}) \cup (captured + 1 .. captured')
        /\ gone' = gone \cup
             ((Taken({}, {k}, {f}) \cup (captured + 1 .. captured')) \ Elements(At(r)'))
    BY <2>3, <2>7
  <2>9. /\ \A p \in Some({}, {k}, {f}) : p # r => At(p)' = <<>>
        /\ Once(At(r)')
    BY <1>9, <2>1
  <2>10. /\ \A j \in Consumers \ {} : buffer'[j] = buffer[j]
         /\ captured <= captured' /\ captured' \in Nat /\ {} \subseteq Consumers
    BY <1>1, <2>2
  <2>11. Changes({}, {k}, {f}, r)
    BY <2>1, <2>2, <2>4, <2>5, <2>6, <2>8, <2>9, <2>10 DEF Changes
  <2> QED
    BY <2>11, Gathers DEF IInv
<1> QED
  BY <1>12, <1>13 DEF IInv

LEMMA FetchFailsKeeps ==
  ASSUME IInv, NEW f \in Fetches, fetchFails(f)
  PROVE  IInv'
<1> DEFINE fetch == fetches[f]
           a == <<"answer", f>>
<1>1. /\ fetch.phase # "free"
      /\ gone' = gone \cup Elements(fetch.answer)
      /\ \/ fetches' = [fetches EXCEPT ![f] = Asking(fetch.at, fetch.runtime)]
         \/ fetches' = [fetches EXCEPT ![f] = NoFetch]
      /\ UNCHANGED <<buffer, count, up, outcome, captured, capture, rows, stored,
                     lastSeen, runtime, polls>>
  BY DEF fetchFails, server, view
<1>2. fetches \in [Fetches -> Loops] /\ fetch \in Loops
  BY DEF IInv, Typed
<1>3. fetch.runtime \in Seen
  BY <1>1, <1>2 DEF Loops
<1>4. /\ Asking(fetch.at, fetch.runtime) \in Loops
      /\ Asking(fetch.at, fetch.runtime).answer = <<>>
      /\ NoFetch \in Loops /\ NoFetch.answer = <<>>
  BY <1>3, AskingGoesOn, NoFetchIsALoop DEF IInv
<1>5. /\ fetches' \in [Fetches -> Loops] /\ fetches'[f].answer = <<>>
      /\ \A g \in Fetches : g # f => fetches'[g] = fetches[g]
  BY <1>1, <1>2, <1>4
<1>6. Typed'
  BY <1>1, <1>5 DEF IInv, Typed
<1>7. EachIsKept'
  <2>1. /\ a \in Some({}, {}, {f}) /\ At(a)' = <<>>
        /\ \A p \in Some({}, {}, {f}) : p = a
    BY <1>5, IsAt DEF Some
  <2>2. captured \in Nat /\ captured' = captured /\ captured + 1 .. captured' = {}
    BY <1>1 DEF IInv, Typed
  <2>3. Taken({}, {}, {f}) = Elements(fetch.answer)
    BY DEF Taken
  <2>4. Elements(At(a)') = {} /\ Once(At(a)')
    BY <2>1, Nothing
  <2> HIDE DEF a
  <2>5. /\ Elements(At(a)') \subseteq Taken({}, {}, {f}) \cup (captured + 1 .. captured')
        /\ gone' = gone \cup
             ((Taken({}, {}, {f}) \cup (captured + 1 .. captured')) \ Elements(At(a)'))
    BY <1>1, <2>2, <2>3, <2>4
  <2>6. /\ \A k \in Consumers \ {} : buffer'[k] = buffer[k] /\ rows'[k] = rows[k]
        /\ \A g \in Fetches \ {f} : fetches'[g].answer = fetches[g].answer
        /\ captured <= captured' /\ captured' \in Nat
        /\ {} \subseteq Consumers /\ {f} \subseteq Fetches
    BY <1>1, <1>5, <2>2
  <2>7. Changes({}, {}, {f}, a)
    BY <2>1, <2>2, <2>4, <2>5, <2>6 DEF Changes
  <2> QED
    BY <2>7, Gathers DEF IInv
<1> QED
  BY <1>6, <1>7 DEF IInv

LEMMA ScheduleKeeps ==
  ASSUME IInv, NEW f \in Fetches, scheduleMessagePolling(f)
  PROVE  IInv'
<1>1. /\ fetches[f].phase = "free"
      /\ fetches' = [fetches EXCEPT ![f] = Asking(0, runtime)]
      /\ UNCHANGED <<buffer, count, up, outcome, captured, capture, rows, stored,
                     lastSeen, runtime, polls, gone>>
  BY DEF scheduleMessagePolling, NextFree, server, view
<1>2. fetches \in [Fetches -> Loops] /\ runtime \in Seen
  BY DEF IInv, Typed
<1>3. Asking(0, runtime) \in Loops /\ Asking(0, runtime).answer = <<>>
  BY <1>2, AskingGoesOn DEF IInv
<1>4. fetches[f].answer = <<>>
  BY <1>1, <1>2 DEF Loops
<1>5. /\ fetches' \in [Fetches -> Loops]
      /\ \A g \in Fetches : fetches'[g].answer = fetches[g].answer
  BY <1>1, <1>2, <1>3, <1>4
<1>6. Typed'
  BY <1>1, <1>5 DEF IInv, Typed
<1>7. EachIsKept'
  BY <1>1, <1>5, Same DEF IInv
<1> QED
  BY <1>6, <1>7 DEF IInv

-----------------------------------------------------------------------------
(* The status poller.                                                      *)

LEMMA PollKeeps ==
  ASSUME IInv, NEW p \in Polls, poll(p)
  PROVE  IInv'
<1> DEFINE status == normalizeStatus(
                       [k \in Consumers |-> [running |-> up[k],
                                             message_sequence |-> count[k],
                                             outcome |-> outcome[k]]])
<1>1. /\ polls' = [polls EXCEPT ![p] = [phase |-> "answered", answer |-> status]]
      /\ UNCHANGED <<buffer, count, up, outcome, captured, capture, rows, stored,
                     lastSeen, runtime, fetches, gone>>
  BY DEF poll, server, view
<1>2. \A k \in Consumers : /\ up[k] \in BOOLEAN
                           /\ count[k] \in 0 .. MaxMessages
                           /\ None \in Outcomes
  BY ConstantsAssumption DEF IInv, Typed, Outcomes
<1>3. status = [k \in Consumers |-> [running |-> up[k], message_sequence |-> count[k],
                                     outcome |-> None]]
  BY DEF normalizeStatus
<1> HIDE DEF status
<1>4. status \in Seen
  BY <1>2, <1>3 DEF Seen
<1>5. polls' \in [Polls -> Slots]
  BY <1>1, <1>4 DEF IInv, Typed, Slots
<1>6. Typed'
  BY <1>1, <1>5 DEF IInv, Typed
<1>7. EachIsKept'
  BY <1>1, Same DEF IInv
<1> QED
  BY <1>6, <1>7 DEF IInv

LEMMA PollFailsKeeps ==
  ASSUME IInv, NEW p \in Polls, pollFails(p)
  PROVE  IInv'
<1>1. /\ polls' = [polls EXCEPT ![p] = [phase |-> "answered",
                                        answer |-> EMPTY_RUNTIME_STATUS]]
      /\ UNCHANGED <<buffer, count, up, outcome, captured, capture, rows, stored,
                     lastSeen, runtime, fetches, gone>>
  BY DEF pollFails, server, view
<1>2. polls' \in [Polls -> Slots]
  BY <1>1, NoStatusIsSeen DEF IInv, Typed, Slots
<1>3. Typed'
  BY <1>1, <1>2 DEF IInv, Typed
<1>4. EachIsKept'
  BY <1>1, Same DEF IInv
<1> QED
  BY <1>3, <1>4 DEF IInv

LEMMA PublishKeeps ==
  ASSUME IInv, NEW p \in Polls, NEW f \in Fetches, publish(p, f)
  PROVE  IInv'
<1> DEFINE status == polls[p].answer
<1>1. /\ polls[p].phase = "answered" /\ fetches[f].phase = "free"
      /\ runtime' = status
      /\ polls' = [polls EXCEPT ![p] = NoPoll]
      /\ fetches' = [fetches EXCEPT ![f] = Asking(0, status)]
      /\ UNCHANGED <<buffer, count, up, outcome, captured, capture, rows, stored,
                     lastSeen, gone>>
  BY DEF publish, NextFree, server, view
<1>2. /\ polls \in [Polls -> Slots] /\ polls[p] \in Slots
      /\ fetches \in [Fetches -> Loops] /\ fetches[f] \in Loops
  BY DEF IInv, Typed
<1>3. status \in Seen
  BY <1>1, <1>2 DEF Slots
<1> HIDE DEF status
<1>4. Asking(0, status) \in Loops /\ Asking(0, status).answer = <<>>
  BY <1>3, AskingGoesOn DEF IInv
<1>5. fetches[f].answer = <<>>
  BY <1>1, <1>2 DEF Loops
<1>6. /\ fetches' \in [Fetches -> Loops]
      /\ \A g \in Fetches : fetches'[g].answer = fetches[g].answer
  BY <1>1, <1>2, <1>4, <1>5
<1>7. polls' \in [Polls -> Slots] /\ runtime' \in Seen
  BY <1>1, <1>2, <1>3 DEF NoPoll, Slots
<1>8. Typed'
  BY <1>1, <1>6, <1>7 DEF IInv, Typed
<1>9. EachIsKept'
  BY <1>1, <1>6, Same DEF IInv
<1> QED
  BY <1>8, <1>9 DEF IInv

-----------------------------------------------------------------------------
(* What the user does, and the page that is set up again.                  *)

\* The rows of one consumer are cut: a clear leaves none of them.
LEMMA CutKeeps ==
  ASSUME IInv, NEW k \in Consumers, NEW s \in Seq(Messages), Once(s),
         Elements(s) \subseteq Elements(rows[k]),
         \E n \in KeepLast : Len(s) <= n,
         rows' = [rows EXCEPT ![k] = s], stored' = rows',
         gone' = gone \cup (Elements(rows[k]) \ Elements(s)),
         capture' \in [Consumers -> [enabled : BOOLEAN, keep_last : KeepLast]],
         UNCHANGED <<buffer, count, up, outcome, captured, lastSeen, runtime,
                     polls, fetches>>
  PROVE  IInv'
<1> DEFINE r == <<"rows", k>>
<1>1. rows \in [Consumers -> Seq(Messages)]
  BY DEF IInv, Typed
<1>2. /\ rows' \in [Consumers -> Seq(Messages)] /\ rows'[k] = s
      /\ \A j \in Consumers : j # k => rows'[j] = rows[j]
  BY <1>1
<1>3. \A j \in Consumers : \E n \in KeepLast : Len(rows'[j]) <= n
  BY <1>2 DEF IInv, Typed
<1>4. Typed'
  BY <1>2, <1>3 DEF IInv, Typed
<1>5. EachIsKept'
  <2>1. /\ r \in Some({}, {k}, {}) /\ At(r)' = s
        /\ \A p \in Some({}, {k}, {}) : p = r
    BY <1>2, IsAt DEF Some
  <2>2. captured \in Nat /\ captured' = captured /\ captured + 1 .. captured' = {}
    BY DEF IInv, Typed
  <2>3. Taken({}, {k}, {}) = Elements(rows[k])
    BY DEF Taken
  <2> HIDE DEF r
  <2>4. /\ Elements(At(r)') \subseteq Taken({}, {k}, {}) \cup (captured + 1 .. captured')
        /\ gone' = gone \cup
             ((Taken({}, {k}, {}) \cup (captured + 1 .. captured')) \ Elements(At(r)'))
    BY <2>1, <2>2, <2>3
  <2>5. /\ \A j \in Consumers \ {} : buffer'[j] = buffer[j]
        /\ \A j \in Consumers \ {k} : rows'[j] = rows[j]
        /\ \A g \in Fetches \ {} : fetches'[g].answer = fetches[g].answer
        /\ captured <= captured' /\ captured' \in Nat
        /\ {} \subseteq Consumers /\ {k} \subseteq Consumers /\ {} \subseteq Fetches
    BY <1>2, <2>2
  <2>6. Changes({}, {k}, {}, r)
    BY <2>1, <2>2, <2>4, <2>5 DEF Changes
  <2> QED
    BY <2>6, Gathers DEF IInv
<1> QED
  BY <1>4, <1>5 DEF IInv

LEMMA ClearKeeps ==
  ASSUME IInv, NEW k \in Consumers, clearActiveConsumerHistory(k)
  PROVE  IInv'
<1>1. /\ gone' = gone \cup Elements(rows[k])
      /\ rows' = [rows EXCEPT ![k] = <<>>]
      /\ stored' = rows'
      /\ UNCHANGED <<buffer, count, up, outcome, captured, capture, lastSeen,
                     runtime, polls, fetches>>
  BY DEF clearActiveConsumerHistory, server
<1> DEFINE s == <<>>
<1>2. /\ s \in Seq(Messages) /\ Once(s) /\ Elements(s) = {}
      /\ \E n \in KeepLast : Len(s) <= n
  BY Nothing, ConstantsAssumption
<1>3. rows' = [rows EXCEPT ![k] = s]
  BY <1>1
<1> HIDE DEF s
<1>4. /\ Elements(s) \subseteq Elements(rows[k])
      /\ gone' = gone \cup (Elements(rows[k]) \ Elements(s))
  BY <1>1, <1>2
<1>5. capture' \in [Consumers -> [enabled : BOOLEAN, keep_last : KeepLast]]
  BY <1>1 DEF IInv, Typed
<1> QED
  BY <1>1, <1>2, <1>3, <1>4, <1>5, CutKeeps

LEMMA KeepLastKeeps ==
  ASSUME IInv, NEW k \in Consumers, NEW typed \in KeepLast \cup {0},
         setConsumerMessageCaptureKeepLastAction(k, typed)
  PROVE  IInv'
<1> DEFINE n == atLeastOne(typed)
           s == slice(rows[k], n)
<1>1. n \in KeepLast /\ n \in Nat
  BY ConstantsAssumption DEF atLeastOne
<1>2. /\ capture' = [capture EXCEPT ![k].keep_last = n]
      /\ gone' = gone \cup (Elements(rows[k]) \ Elements(s))
      /\ rows' = [rows EXCEPT ![k] = s]
      /\ stored' = rows'
      /\ UNCHANGED <<buffer, count, up, outcome, captured, lastSeen, runtime,
                     polls, fetches>>
  BY DEF setConsumerMessageCaptureKeepLastAction, Dropped, server
<1> HIDE DEF n
<1>3. rows[k] \in Seq(Messages) /\ Once(rows[k])
  BY PlacesAre, IsAt DEF IInv, Typed, EachIsKept
<1>4. /\ s \in Seq(Messages) /\ Once(s) /\ Len(s) <= n
      /\ Elements(s) \subseteq Elements(rows[k])
  BY <1>1, <1>3, Sliced
<1> HIDE DEF s
<1>5. capture' \in [Consumers -> [enabled : BOOLEAN, keep_last : KeepLast]]
  BY <1>1, <1>2 DEF IInv, Typed
<1> QED
  BY <1>1, <1>2, <1>4, <1>5, CutKeeps

LEMMA EnabledKeeps ==
  ASSUME IInv, NEW k \in Consumers, setConsumerMessageCaptureEnabledAction(k)
  PROVE  IInv'
<1>1. /\ capture' = [capture EXCEPT ![k].enabled = ~ @]
      /\ UNCHANGED <<buffer, count, up, outcome, captured, rows, stored, lastSeen,
                     runtime, polls, fetches, gone>>
  BY DEF setConsumerMessageCaptureEnabledAction, server
<1>2. capture' \in [Consumers -> [enabled : BOOLEAN, keep_last : KeepLast]]
  BY <1>1 DEF IInv, Typed
<1>3. Typed'
  BY <1>1, <1>2 DEF IInv, Typed
<1>4. EachIsKept'
  BY <1>1, Same DEF IInv
<1> QED
  BY <1>3, <1>4 DEF IInv

LEMMA InitConsumersKeeps ==
  ASSUME IInv, initConsumers
  PROVE  IInv'
<1>1. /\ rows' = rows
      /\ lastSeen' = [k \in Consumers |-> 0]
      /\ UNCHANGED <<buffer, count, up, outcome, captured, capture, stored, runtime,
                     polls, fetches, gone>>
  BY DEF IInv, Typed, initConsumers, server
<1>2. lastSeen' \in [Consumers -> 0 .. MaxMessages]
  BY <1>1, ConstantsAssumption
<1>3. Typed'
  BY <1>1, <1>2 DEF IInv, Typed
<1>4. EachIsKept'
  BY <1>1, Same DEF IInv
<1> QED
  BY <1>3, <1>4 DEF IInv

LEMMA ReloadKeeps ==
  ASSUME IInv, Reload
  PROVE  IInv'
<1> DEFINE a == <<"answer", 1>>
<1>1. /\ rows' = rows
      /\ lastSeen' = [k \in Consumers |-> 0]
      /\ runtime' = EMPTY_RUNTIME_STATUS
      /\ gone' = gone \cup UNION {Elements(fetches[f].answer) : f \in Fetches}
      /\ polls' = [p \in Polls |-> NoPoll]
      /\ fetches' = [f \in Fetches |-> NoFetch]
      /\ UNCHANGED <<buffer, count, up, outcome, captured, capture, stored>>
  BY DEF IInv, Typed, Reload, server
<1>2. /\ lastSeen' \in [Consumers -> 0 .. MaxMessages]
      /\ runtime' \in Seen
      /\ polls' \in [Polls -> Slots]
      /\ fetches' \in [Fetches -> Loops]
  BY <1>1, ConstantsAssumption, NoStatusIsSeen, NoFetchIsALoop DEF NoPoll, Slots
<1>3. Typed'
  BY <1>1, <1>2 DEF IInv, Typed
<1>4. EachIsKept'
  <2>1. 1 \in Fetches
    BY ConstantsAssumption DEF Fetches
  <2>2. \A f \in Fetches : At(<<"answer", f>>)' = <<>>
    BY <1>1, IsAt, NoFetchIsALoop
  <2>3. /\ a \in Some({}, {}, Fetches)
        /\ \A p \in Some({}, {}, Fetches) : At(p)' = <<>>
    BY <2>1, <2>2 DEF Some
  <2>4. captured \in Nat /\ captured' = captured /\ captured + 1 .. captured' = {}
    BY <1>1 DEF IInv, Typed
  <2>5. Taken({}, {}, Fetches) = UNION {Elements(fetches[f].answer) : f \in Fetches}
    BY DEF Taken
  <2>6. Elements(At(a)') = {} /\ Once(At(a)')
    BY <2>1, <2>2, Nothing
  <2> HIDE DEF a
  <2>7. /\ Elements(At(a)') \subseteq Taken({}, {}, Fetches) \cup (captured + 1 .. captured')
        /\ gone' = gone \cup
             ((Taken({}, {}, Fetches) \cup (captured + 1 .. captured')) \ Elements(At(a)'))
    BY <1>1, <2>4, <2>5, <2>6
  <2>8. /\ \A j \in Consumers \ {} : buffer'[j] = buffer[j] /\ rows'[j] = rows[j]
        /\ \A f \in Fetches \ Fetches : fetches'[f].answer = fetches[f].answer
        /\ captured <= captured' /\ captured' \in Nat
        /\ {} \subseteq Consumers /\ Fetches \subseteq Fetches
    BY <1>1, <2>4
  <2>9. Changes({}, {}, Fetches, a)
    BY <2>3, <2>4, <2>6, <2>7, <2>8 DEF Changes
  <2> QED
    BY <2>9, Gathers DEF IInv
<1> QED
  BY <1>3, <1>4 DEF IInv

-----------------------------------------------------------------------------
(* The theorems.                                                           *)

LEMMA InitIInv == Init => IInv
<1> SUFFICES ASSUME Init PROVE IInv
  OBVIOUS
<1> USE ConstantsAssumption DEF Init
<1>1. capture \in [Consumers -> [enabled : BOOLEAN, keep_last : KeepLast]]
  BY DEF DEFAULT_CAPTURE
<1>2. /\ buffer \in [Consumers -> Seq(Messages)]
      /\ \A k \in Consumers : Len(buffer[k]) <= Buffer
      /\ rows \in [Consumers -> Seq(Messages)]
      /\ \A k \in Consumers : \E n \in KeepLast : Len(rows[k]) <= n
  BY Nothing
<1>3. /\ runtime \in Seen /\ polls \in [Polls -> Slots]
      /\ fetches \in [Fetches -> Loops]
  BY NoStatusIsSeen, NoFetchIsALoop DEF NoPoll, Slots
<1>4. /\ captured \in 0 .. MaxMessages /\ captured = 0
      /\ count \in [Consumers -> Nat] /\ \A k \in Consumers : count[k] <= captured
      /\ up \in [Consumers -> BOOLEAN] /\ outcome \in [Consumers -> Outcomes]
      /\ lastSeen \in [Consumers -> 0 .. MaxMessages]
      /\ stored = rows
  BY DEF Outcomes
<1>5. Typed
  BY <1>1, <1>2, <1>3, <1>4 DEF Typed
<1>6. \A p \in Places : At(p) = <<>>
  <2>1. /\ \A k \in Consumers : buffer[k] = <<>> /\ rows[k] = <<>>
        /\ \A f \in Fetches : fetches[f].answer = <<>>
    BY NoFetchIsALoop
  <2> QED
    BY <2>1, PlacesAre, IsAt
<1>7. \A p \in Places : Held[p] = {} /\ Once(At(p))
  BY <1>6, Nothing DEF Held
<1>8. EachIsKept
  BY <1>4, <1>7 DEF EachIsKept, Kept
<1> QED
  BY <1>5, <1>8 DEF IInv

LEMMA NextIInv == IInv /\ [Next]_vars => IInv'
<1> SUFFICES ASSUME IInv, [Next]_vars PROVE IInv'
  OBVIOUS
<1>1. ASSUME NEW k \in Consumers,
             \/ Start(k) \/ Capture(k)
             \/ \E how \in Outcomes : Stop(k, how)
             \/ clearActiveConsumerHistory(k)
             \/ \E n \in KeepLast \cup {0} : setConsumerMessageCaptureKeepLastAction(k, n)
             \/ setConsumerMessageCaptureEnabledAction(k)
      PROVE  IInv'
  BY <1>1, StartKeeps, CaptureKeeps, StopKeeps, ClearKeeps, KeepLastKeeps, EnabledKeeps
<1>2. CASE ServerRestart
  BY <1>2, RestartKeeps
<1>3. CASE initConsumers
  BY <1>3, InitConsumersKeeps
<1>4. CASE Reload
  BY <1>4, ReloadKeeps
<1>5. ASSUME NEW p \in Polls,
             poll(p) \/ pollFails(p) \/ \E f \in Fetches : publish(p, f)
      PROVE  IInv'
  BY <1>5, PollKeeps, PollFailsKeeps, PublishKeeps
<1>6. ASSUME NEW f \in Fetches,
             \/ Drain(f) \/ fetchNewMessagesForRunningConsumers(f)
             \/ fetchFails(f) \/ scheduleMessagePolling(f)
      PROVE  IInv'
  BY <1>6, DrainKeeps, FetchKeeps, FetchFailsKeeps, ScheduleKeeps
<1>7. CASE UNCHANGED vars
  <2>1. Typed'
    BY <1>7 DEF IInv, Typed, vars, server, view
  <2>2. EachIsKept'
    BY <1>7, Same DEF IInv, vars, server, view
  <2> QED
    BY <2>1, <2>2 DEF IInv
<1> QED
  BY <1>1, <1>2, <1>3, <1>4, <1>5, <1>6, <1>7 DEF Next

(* Each message that is captured is at one place or dropped, for any       *)
(* consumers, fetch loops, polls and limits: the answers that the fetching *)
(* of consumers-view.ts awaits are merged with the rows there are then.    *)
THEOREM Invariant == Spec => []IInv
<1>1. Init => IInv
  BY InitIInv
<1>2. IInv /\ [Next]_vars => IInv'
  BY NextIInv
<1> QED
  BY <1>1, <1>2, PTL DEF Spec

(* The types, and the limits: no list of rows is longer than some          *)
(* keep_last, no buffer than its capacity, and what the browser has stored *)
(* is what it shows.                                                       *)
THEOREM TypeCorrect == Spec => []TypeOK
<1>1. ASSUME IInv PROVE TypeOK
  <2>1. \A k \in Consumers : count[k] \in 0 .. MaxMessages
    BY <1>1, ConstantsAssumption DEF IInv, Typed
  <2>2. count \in [Consumers -> 0 .. MaxMessages]
    BY <1>1, <2>1 DEF IInv, Typed
  <2>3. runtime \in Statuses
    BY <1>1, ConstantsAssumption DEF IInv, Typed, Seen, Statuses, Status
  <2>4. \A p \in Polls : polls[p].phase \in {"free", "answered"}
    BY <1>1 DEF IInv, Typed, Slots
  <2>5. \A f \in Fetches :
          /\ fetches[f].phase \in {"free", "asked", "answered"}
          /\ fetches[f].phase # "free" => fetches[f].at \in Consumers
    BY <1>1 DEF IInv, Typed, Loops
  <2> QED
    BY <1>1, <2>2, <2>3, <2>4, <2>5 DEF IInv, Typed, TypeOK
<1> QED
  BY <1>1, Invariant, PTL

(* The property that the run checks, from the invariant.                   *)
THEOREM MessagesHaveOnePlace == Spec => []EachMessageOnePlace
<1>1. ASSUME IInv PROVE EachMessageOnePlace
  <2>1. ASSUME NEW m \in 1 .. captured
        PROVE  Cardinality({p \in Places : m \in Elements(At(p))}) =
                 IF m \in gone THEN 0 ELSE 1
    <3> DEFINE here == {p \in Places : m \in Elements(At(p))}
    <3>1. here = {p \in Places : m \in Held[p]}
      BY DEF Held
    <3>2. CASE m \in gone
      <4>1. here = {}
        BY <1>1, <3>1, <3>2 DEF IInv, EachIsKept, Kept
      <4> QED
        BY <3>2, <4>1, FS_EmptySet
    <3>3. CASE m \notin gone
      <4>1. PICK p \in Places : m \in Held[p]
        BY <1>1, <2>1, <3>3 DEF IInv, EachIsKept, Kept
      <4>2. \A q \in Places : m \in Held[q] => q = p
        BY <1>1, <4>1 DEF IInv, EachIsKept, Kept
      <4>3. here = {p}
        BY <3>1, <4>1, <4>2
      <4> QED
        BY <3>3, <4>3, FS_Singleton
    <3> QED
      BY <3>2, <3>3
  <2>2. \A p \in Places : \A i, j \in DOMAIN At(p) : At(p)[i] = At(p)[j] => i = j
    BY <1>1 DEF IInv, EachIsKept, Once
  <2> QED
    BY <2>1, <2>2 DEF EachMessageOnePlace
<1> QED
  BY <1>1, Invariant, PTL
=============================================================================
