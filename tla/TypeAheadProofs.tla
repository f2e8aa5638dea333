---------------------------- MODULE TypeAheadProofs ----------------------------
(***************************************************************************)
(* For any number of windows and keys, and any length of the queue: no key *)
(* is lost or doubled or overtaken, and no answer holds any of another.    *)
(* The second is about what Chars makes of a sequence that grows, so it is *)
(* shown first, by induction over the keys, that Chars goes key by key.    *)
(***************************************************************************)
EXTENDS TypeAhead, SequenceTheorems, WellFoundedInduction, TLAPS

\* Induction over the naturals, for a set.
LEMMA NatSet ==
    ASSUME NEW S, 0 \in S, \A n \in Nat : n \in S => n + 1 \in S
    PROVE  Nat \subseteq S
<1> DEFINE R == {ss \in Nat \X Nat : ss[1] < ss[2]}
           T == Nat \ S
<1>1. IsWellFoundedOn(R, Nat)
  BY NatLessThanWellFounded DEF OpToRel
<1>2. ASSUME T # {} PROVE FALSE
  <2>1. PICK x \in T : \A y \in T : ~ (<<y, x>> \in R)
    <3> HIDE DEF R
    <3> QED BY <1>1, <1>2, WFMin
  <2>2. x \in Nat \ {0} /\ x - 1 \in Nat
    OBVIOUS
  <2>3. <<x - 1, x>> \in R
    BY <2>2
  <2>4. x - 1 \in S
    BY <2>1, <2>2, <2>3
  <2> QED BY <2>2, <2>4
<1> QED BY <1>2
-------------------------------------------------------------------------------
(* Chars, key by key. *)

\* What Chars does with one key, of the text so far.
Taken(text0, key) == IF key.kind = "char" THEN Append(text0, key) ELSE text0

\* f gives the text of the first n keys, up to m.
Keeps(f, ks, m) ==
    f = [n \in 0..m |-> IF n = 0 THEN <<>> ELSE Taken(f[n - 1], ks[n])]

\* There is such a function.
LEMMA KeepsExists ==
    ASSUME NEW ks, NEW m \in Nat PROVE \E f : Keeps(f, ks, m)
<1> DEFINE S == {i \in Nat : \E f : Keeps(f, ks, i)}
<1>1. 0 \in S
  <2>1. Keeps([n \in 0..0 |-> <<>>], ks, 0)
    BY DEF Keeps
  <2> QED BY <2>1
<1>2. ASSUME NEW i \in Nat, i \in S PROVE i + 1 \in S
  <2>1. PICK f : Keeps(f, ks, i)
    BY <1>2
  <2> DEFINE g == [n \in 0..i + 1 |-> IF n = i + 1 THEN Taken(f[i], ks[i + 1])
                                                  ELSE f[n]]
  <2>2. /\ f[0] = <<>>
        /\ \A n \in 1..i : f[n] = Taken(f[n - 1], ks[n])
    BY <2>1 DEF Keeps
  <2>3. /\ g[0] = <<>>
        /\ \A n \in 1..i + 1 : g[n] = Taken(g[n - 1], ks[n])
    <3>1. ASSUME NEW n \in 1..i + 1 PROVE g[n] = Taken(g[n - 1], ks[n])
      <4>1. CASE n = i + 1
        BY <4>1
      <4>2. CASE n # i + 1
        BY <2>2, <4>2
      <4> QED BY <4>1, <4>2
    <3> QED BY <2>2, <3>1
  <2>4. g = [n \in 0..i + 1 |-> g[n]]
    OBVIOUS
  <2> HIDE DEF g
  <2>5. \A n \in 0..i + 1 : n = 0 \/ n \in 1..i + 1
    OBVIOUS
  <2>6. \A n \in 0..i + 1 :
          g[n] = IF n = 0 THEN <<>> ELSE Taken(g[n - 1], ks[n])
    BY <2>3, <2>5
  <2>7. Keeps(g, ks, i + 1)
    BY <2>4, <2>6 DEF Keeps
  <2> QED BY <2>7
<1>3. Nat \subseteq S
  <2> HIDE DEF S
  <2> QED BY <1>1, <1>2, NatSet
<1> QED BY <1>3

\* The function in the definition of Chars.
Kept(ks) == CHOOSE f : Keeps(f, ks, Len(ks))

\* It is as its definition says, and sequences of keys remain such.
LEMMA KeptDef ==
    ASSUME NEW ks \in Seq(Keys)
    PROVE  /\ Chars(ks) = Kept(ks)[Len(ks)]
           /\ Kept(ks)[0] = <<>>
           /\ \A n \in 1..Len(ks) : Kept(ks)[n] = Taken(Kept(ks)[n - 1], ks[n])
<1>1. Chars(ks) = Kept(ks)[Len(ks)]
  BY DEF Chars, Kept, Keeps, Taken
<1>2. Keeps(Kept(ks), ks, Len(ks))
  BY KeepsExists DEF Kept
<1> QED BY <1>1, <1>2 DEF Keeps

\* What a key adds to a sequence of keys, it adds after anything before it.
LEMMA TakenConcat ==
    ASSUME NEW a \in Seq(Keys), NEW b \in Seq(Keys), NEW key \in Keys
    PROVE  Taken(b, key) \in Seq(Keys) /\ Taken(a \o b, key) = a \o Taken(b, key)
<1>1. Append(b, key) \in Seq(Keys)
  OBVIOUS
<1>2. Append(a \o b, key) = a \o Append(b, key)
  OBVIOUS
<1> QED BY <1>1, <1>2 DEF Taken

\* The text of the first keys is a sequence of keys.
LEMMA KeptType ==
    ASSUME NEW ks \in Seq(Keys)
    PROVE  \A n \in 0..Len(ks) : Kept(ks)[n] \in Seq(Keys)
<1> DEFINE S == {n \in Nat : n <= Len(ks) => Kept(ks)[n] \in Seq(Keys)}
<1>1. Len(ks) \in Nat /\ \A n \in 1..Len(ks) : ks[n] \in Keys
  OBVIOUS
<1>2. 0 \in S
  <2>1. Kept(ks)[0] = <<>> /\ <<>> \in Seq(Keys)
    BY KeptDef
  <2> QED BY <2>1
<1>3. ASSUME NEW n \in Nat, n \in S PROVE n + 1 \in S
  <2>1. ASSUME n + 1 <= Len(ks) PROVE Kept(ks)[n + 1] \in Seq(Keys)
    <3>1. n + 1 \in 1..Len(ks) /\ Kept(ks)[n] \in Seq(Keys)
      BY <1>1, <1>3, <2>1
    <3>2. Kept(ks)[n + 1] = Taken(Kept(ks)[n], ks[n + 1])
      BY <3>1, KeptDef
    <3> QED BY <1>1, <3>1, <3>2, TakenConcat
  <2> QED BY <2>1
<1>4. Nat \subseteq S
  <2> HIDE DEF S
  <2> QED BY <1>2, <1>3, NatSet
<1> QED BY <1>1, <1>4

\* The keys before do not matter for those after, nor the other way round.
LEMMA KeptBefore ==
    ASSUME NEW a \in Seq(Keys), NEW b \in Seq(Keys)
    PROVE  \A n \in 0..Len(a) : Kept(a \o b)[n] = Kept(a)[n]
<1> DEFINE S == {n \in Nat : n <= Len(a) => Kept(a \o b)[n] = Kept(a)[n]}
<1>1. /\ a \o b \in Seq(Keys) /\ Len(a) \in Nat /\ Len(b) \in Nat
      /\ Len(a \o b) = Len(a) + Len(b)
      /\ \A n \in 1..Len(a) : (a \o b)[n] = a[n]
  OBVIOUS
<1>2. 0 \in S
  BY <1>1, KeptDef
<1>3. ASSUME NEW n \in Nat, n \in S PROVE n + 1 \in S
  <2>1. ASSUME n + 1 <= Len(a) PROVE Kept(a \o b)[n + 1] = Kept(a)[n + 1]
    <3>1. /\ n + 1 \in 1..Len(a) /\ n + 1 \in 1..Len(a \o b)
          /\ Kept(a \o b)[n] = Kept(a)[n]
      BY <1>1, <1>3, <2>1
    <3>2. Kept(a)[n + 1] = Taken(Kept(a)[n], a[n + 1])
      BY <3>1, KeptDef
    <3>3. Kept(a \o b)[n + 1] = Taken(Kept(a \o b)[(n + 1) - 1], (a \o b)[n + 1])
      BY <1>1, <3>1, KeptDef
    <3>4. (n + 1) - 1 = n
      OBVIOUS
    <3> QED BY <1>1, <3>1, <3>2, <3>3, <3>4
  <2> QED BY <2>1
<1>4. Nat \subseteq S
  <2> HIDE DEF S
  <2> QED BY <1>2, <1>3, NatSet
<1> QED BY <1>1, <1>4

LEMMA KeptAfter ==
    ASSUME NEW a \in Seq(Keys), NEW b \in Seq(Keys)
    PROVE  \A n \in 0..Len(b) : Kept(a \o b)[Len(a) + n] = Chars(a) \o Kept(b)[n]
<1> DEFINE S == {n \in Nat : n <= Len(b) =>
                   Kept(a \o b)[Len(a) + n] = Chars(a) \o Kept(b)[n]}
<1>1. /\ a \o b \in Seq(Keys) /\ Len(a) \in Nat /\ Len(b) \in Nat
      /\ Len(a \o b) = Len(a) + Len(b)
      /\ \A n \in 1..Len(b) : (a \o b)[Len(a) + n] = b[n] /\ b[n] \in Keys
  OBVIOUS
<1>2. Chars(a) \in Seq(Keys) /\ Chars(a) = Kept(a)[Len(a)]
  BY <1>1, KeptDef, KeptType
<1>3. 0 \in S
  <2>1. Kept(a \o b)[Len(a)] = Chars(a)
    BY <1>1, <1>2, KeptBefore
  <2>2. Kept(b)[0] = <<>>
    BY KeptDef
  <2>3. Chars(a) \o <<>> = Chars(a)
    BY <1>2, ConcatEmptySeq
  <2>4. Kept(a \o b)[Len(a) + 0] = Chars(a) \o Kept(b)[0]
    BY <1>1, <2>1, <2>2, <2>3
  <2> QED BY <2>4
<1>4. ASSUME NEW n \in Nat, n \in S PROVE n + 1 \in S
  <2>1. ASSUME n + 1 <= Len(b)
        PROVE  Kept(a \o b)[Len(a) + (n + 1)] = Chars(a) \o Kept(b)[n + 1]
    <3>1. /\ n + 1 \in 1..Len(b) /\ Len(a) + (n + 1) \in 1..Len(a \o b)
          /\ n \in 0..Len(b) /\ (Len(a) + (n + 1)) - 1 = Len(a) + n
          /\ Kept(a \o b)[Len(a) + n] = Chars(a) \o Kept(b)[n]
      BY <1>1, <1>4, <2>1
    <3>2. Kept(b)[n + 1] = Taken(Kept(b)[n], b[n + 1])
      BY <3>1, KeptDef
    <3>3. Kept(a \o b)[Len(a) + (n + 1)]
            = Taken(Kept(a \o b)[Len(a) + n], (a \o b)[Len(a) + (n + 1)])
      BY <1>1, <3>1, KeptDef
    <3>4. Kept(a \o b)[Len(a) + (n + 1)] = Taken(Chars(a) \o Kept(b)[n], b[n + 1])
      BY <1>1, <3>1, <3>3
    <3>5. Kept(b)[n] \in Seq(Keys) /\ b[n + 1] \in Keys
      BY <1>1, <3>1, KeptType
    <3>6. Taken(Chars(a) \o Kept(b)[n], b[n + 1])
          = Chars(a) \o Taken(Kept(b)[n], b[n + 1])
      BY <1>2, <3>5, TakenConcat
    <3> QED BY <3>2, <3>4, <3>6
  <2> QED BY <2>1
<1>5. Nat \subseteq S
  <2> HIDE DEF S
  <2> QED BY <1>3, <1>4, NatSet
<1> QED BY <1>1, <1>5

\* The text of one sequence of keys after another is the one's after the other's.
LEMMA CharsConcat ==
    ASSUME NEW a \in Seq(Keys), NEW b \in Seq(Keys)
    PROVE  Chars(a \o b) = Chars(a) \o Chars(b) /\ Chars(a) \in Seq(Keys)
<1>1. /\ a \o b \in Seq(Keys) /\ Len(a) \in Nat /\ Len(b) \in Nat
      /\ Len(a \o b) = Len(a) + Len(b)
  OBVIOUS
<1>2. /\ Chars(a \o b) = Kept(a \o b)[Len(a) + Len(b)]
      /\ Chars(b) = Kept(b)[Len(b)] /\ Chars(a) = Kept(a)[Len(a)]
  BY <1>1, KeptDef
<1>3. Kept(a \o b)[Len(a) + Len(b)] = Chars(a) \o Kept(b)[Len(b)]
  <2>1. Len(b) \in 0..Len(b)
    BY <1>1
  <2> QED BY <2>1, KeptAfter
<1>4. Chars(a) \in Seq(Keys)
  BY <1>1, <1>2, KeptType
<1> QED BY <1>2, <1>3, <1>4

\* No keys, no text.
LEMMA CharsEmpty == Chars(<<>>) = <<>>
<1>1. <<>> \in Seq(Keys) /\ Len(<<>>) = 0
  OBVIOUS
<1> QED BY <1>1, KeptDef

\* What was typed since the last answer grows at its end.
LEMMA SinceGrows ==
    ASSUME NEW a \in Seq(Keys), NEW b \in Seq(Keys), NEW m \in 0..Len(a)
    PROVE  SubSeq(a \o b, m + 1, Len(a \o b)) = SubSeq(a, m + 1, Len(a)) \o b
<1> DEFINE s == SubSeq(a \o b, m + 1, Len(a \o b))
           old == SubSeq(a, m + 1, Len(a))
<1>1. Len(a) \in Nat /\ Len(b) \in Nat /\ m \in Nat /\ m <= Len(a)
  OBVIOUS
<1>2. /\ a \o b \in Seq(Keys) /\ Len(a \o b) = Len(a) + Len(b)
      /\ \A i \in 1..Len(a) + Len(b) :
           (a \o b)[i] = IF i <= Len(a) THEN a[i] ELSE b[i - Len(a)]
  BY ConcatProperties
<1>3. /\ old \in Seq(Keys) /\ Len(old) = Len(a) - m
      /\ \A i \in 1..Len(a) - m : old[i] = a[m + i]
  BY <1>1
<1>4. /\ s \in Seq(Keys) /\ Len(s) = (Len(a) + Len(b)) - m
      /\ \A i \in 1..(Len(a) + Len(b)) - m : s[i] = (a \o b)[m + i]
  BY <1>1, <1>2
<1> HIDE DEF s, old
<1>5. /\ old \o b \in Seq(Keys) /\ Len(old \o b) = Len(old) + Len(b)
      /\ \A i \in 1..Len(old) + Len(b) :
           (old \o b)[i] = IF i <= Len(old) THEN old[i] ELSE b[i - Len(old)]
  BY <1>3, ConcatProperties
<1>6. ASSUME NEW i \in 1..Len(s) PROVE s[i] = (old \o b)[i]
  <2>1. m + i \in 1..Len(a) + Len(b) /\ i \in 1..Len(old) + Len(b)
    BY <1>1, <1>3, <1>4
  <2>2. CASE i <= Len(a) - m
    BY <1>1, <1>2, <1>3, <1>4, <1>5, <2>1, <2>2
  <2>3. CASE i > Len(a) - m
    <3>1. s[i] = b[(m + i) - Len(a)] /\ (old \o b)[i] = b[i - (Len(a) - m)]
      BY <1>1, <1>2, <1>3, <1>4, <1>5, <2>1, <2>3
    <3>2. (m + i) - Len(a) = i - (Len(a) - m)
      BY <1>1, <2>1
    <3> QED BY <3>1, <3>2
  <2> QED BY <1>1, <2>1, <2>2, <2>3
<1>7. Len(s) = Len(old \o b)
  BY <1>1, <1>3, <1>4, <1>5
<1>8. s = old \o b
  BY <1>4, <1>5, <1>6, <1>7, SeqEqual
<1> QED BY <1>8 DEF s, old
-------------------------------------------------------------------------------
(* The invariant. *)

\* Before the socket is shown the plug has nothing, and no dialog has no socket.
PlugIsNew ==
    /\ socket # "shown" => entered = <<>> /\ plugQueue = <<>>
    /\ dialog = None => socket = "none"

\* The entry takes keys only when none is kept for later.
NoneOvertaken == ~troubled /\ sensitive => plugQueue = <<>>

\* No queue has more keys than were typed.
Counted ==
    /\ answered <= Len(entered)
    /\ Len(entered) + Len(plugQueue) <= keys
    /\ \A w \in Windows : Len(queue[w]) <= keys

IInv ==
    TypeOK /\ KeysKept /\ AnswerIsFresh /\ PlugIsNew /\ NoneOvertaken /\ Counted

\* What the entry gets: the text since the last answer grows by its characters.
LEMMA EnterFresh ==
    ASSUME IInv, NEW ks \in Seq(Keys), NEW b \in BOOLEAN, Enter(ks, b),
           UNCHANGED answered
    PROVE  /\ AnswerIsFresh' /\ text' \in Seq(Keys)
           /\ entered' = entered \o ks /\ entered' \in Seq(Keys)
           /\ Len(entered') = Len(entered) + Len(ks)
           /\ answered' <= Len(entered') /\ clicking' \in BOOLEAN
<1>1. /\ entered \in Seq(Keys) /\ text \in Seq(Keys) /\ Len(entered) \in Nat
      /\ Len(ks) \in Nat /\ answered \in 0..Len(entered)
  BY DEF IInv, TypeOK, Counted
<1>2. /\ entered' = entered \o ks /\ entered' \in Seq(Keys)
      /\ Len(entered') = Len(entered) + Len(ks)
  BY <1>1 DEF Enter
<1> DEFINE old == SubSeq(entered, answered + 1, Len(entered))
<1>3. old \in Seq(Keys)
  BY <1>1
<1>4. SubSeq(entered', answered + 1, Len(entered')) = old \o ks
  BY <1>1, <1>2, SinceGrows
<1>5. text' = Chars(old) \o Chars(ks)
  BY DEF Enter, IInv, AnswerIsFresh
<1> HIDE DEF old
<1>6. text' = Chars(old \o ks) /\ text' \in Seq(Keys)
  <2>1. old \o ks \in Seq(Keys)
    BY <1>3
  <2>2. Chars(old) \in Seq(Keys) /\ Chars(ks) \in Seq(Keys)
    BY <1>3, CharsConcat
  <2> QED BY <1>3, <1>5, <2>1, <2>2, CharsConcat
<1>7. AnswerIsFresh'
  <2>1. Chars(SubSeq(entered, answered + 1, Len(entered)))'
          = Chars(SubSeq(entered', answered' + 1, Len(entered')))
    BY DEF Chars
  <2> QED BY <1>4, <1>6, <2>1 DEF AnswerIsFresh
<1>8. clicking' \in BOOLEAN
  BY DEF Enter
<1> QED BY <1>1, <1>2, <1>6, <1>7, <1>8

\* Nothing happens in the plug.
LEMMA PlugStays ==
    ASSUME IInv, UNCHANGED <<entered, answered, text>>
    PROVE  AnswerIsFresh' /\ answered' <= Len(entered')
<1>1. AnswerIsFresh'
  BY DEF IInv, AnswerIsFresh, Chars
<1> QED BY <1>1 DEF IInv, Counted

\* What the plug gets is after all that it got, in the entry or kept for later.
LEMMA PlugGetsInOrder ==
    ASSUME IInv, NEW ks \in Seq(Keys), PlugGets(ks)
    PROVE  /\ AnswerIsFresh' /\ answered' <= Len(entered')
           /\ text' \in Seq(Keys) /\ entered' \in Seq(Keys) /\ plugQueue' \in Seq(Keys)
           /\ clicking' \in BOOLEAN
           /\ Len(entered') + Len(plugQueue') = Len(entered) + Len(plugQueue) + Len(ks)
           /\ ~troubled => /\ entered' \o plugQueue' = (entered \o plugQueue) \o ks
                           /\ sensitive' => plugQueue' = <<>>
<1>1. /\ entered \in Seq(Keys) /\ text \in Seq(Keys) /\ plugQueue \in Seq(Keys)
      /\ sensitive \in BOOLEAN /\ clicking \in BOOLEAN
  BY DEF IInv, TypeOK
<1>2. CASE sensitive
  <2>1. Enter(ks, prompting) /\ UNCHANGED <<plugQueue, answered, sensitive>>
    BY <1>2 DEF PlugGets
  <2>2. /\ AnswerIsFresh' /\ answered' <= Len(entered')
        /\ text' \in Seq(Keys) /\ entered' \in Seq(Keys) /\ clicking' \in BOOLEAN
        /\ entered' = entered \o ks /\ Len(entered') = Len(entered) + Len(ks)
    BY <2>1, EnterFresh DEF IInv, TypeOK
  <2>3. ASSUME ~troubled
        PROVE  /\ plugQueue' = <<>>
               /\ entered' \o plugQueue' = (entered \o plugQueue) \o ks
    <3>1. plugQueue = <<>> /\ plugQueue' = <<>>
      BY <1>2, <2>1, <2>3 DEF IInv, NoneOvertaken
    <3>2. entered' \o <<>> = entered' /\ entered \o <<>> = entered
      BY <1>1, <2>2, ConcatEmptySeq
    <3> QED BY <2>2, <3>1, <3>2
  <2>4. Len(entered') + Len(plugQueue') = Len(entered) + Len(plugQueue) + Len(ks)
    BY <1>1, <2>1, <2>2
  <2> QED BY <1>1, <2>1, <2>2, <2>3, <2>4
<1>3. CASE ~sensitive
  <2>1. /\ plugQueue' = plugQueue \o ks
        /\ UNCHANGED <<text, entered, clicking, answered, sensitive>>
    BY <1>3 DEF PlugGets
  <2>2. AnswerIsFresh' /\ answered' <= Len(entered')
    BY <2>1, PlugStays
  <2>3. /\ plugQueue' \in Seq(Keys)
        /\ Len(entered') + Len(plugQueue') = Len(entered) + Len(plugQueue) + Len(ks)
    BY <1>1, <2>1
  <2>4. entered \o (plugQueue \o ks) = (entered \o plugQueue) \o ks
    BY <1>1, ConcatAssociative
  <2> QED BY <1>1, <1>3, <2>1, <2>2, <2>3, <2>4
<1> QED BY <1>1, <1>2, <1>3

\* queue_key_event adds the key at the end of one window's queue, or does nothing.
LEMMA QueueKeyEventInOrder ==
    ASSUME IInv, NEW w \in Windows, NEW kind \in Kinds, keys < MaxKeys,
           NEW key, key = [number |-> keys + 1, kind |-> kind],
           QueueKeyEvent(w, key)
    PROVE  /\ queue' \in [Windows -> Seq(Keys)]
           /\ \A v \in Windows : Len(queue'[v]) <= keys + 1
           /\ \A v \in Windows : v # w => queue'[v] = queue[v]
           /\ queue' = queue \/ queue'[w] = Append(queue[w], key)
           /\ kind = "navigation" \/ Eaten(w, kind) => queue' = queue
           /\ kind # "navigation" => key \in Keys
<1>1. /\ keys \in Nat /\ queue \in [Windows -> Seq(Keys)]
      /\ \A v \in Windows : Len(queue[v]) \in Nat /\ Len(queue[v]) <= keys
  BY KeysAssumption DEF IInv, TypeOK, Counted
<1>2. kind # "navigation" => key \in Keys
  BY <1>1, KeysAssumption DEF Kinds, Keys
<1>3. CASE queue' = queue
  BY <1>1, <1>2, <1>3
<1>4. CASE ~(kind = "navigation" \/ Eaten(w, kind))
           /\ queue' = [queue EXCEPT ![w] = Append(@, key)]
  <2>1. /\ Append(queue[w], key) \in Seq(Keys)
        /\ Len(Append(queue[w], key)) = Len(queue[w]) + 1
    BY <1>1, <1>2, <1>4
  <2> QED BY <1>1, <1>2, <1>4, <2>1
<1> QED BY <1>3, <1>4 DEF QueueKeyEvent

\* A key typed now comes after those that were there before.
LEMMA AppendsLast ==
    ASSUME NEW a \in Seq(Keys), NEW b \in Seq(Keys), NEW key \in Keys
    PROVE  a \o Append(b, key) = Append(a \o b, key)
  OBVIOUS

\* A key for a window whose socket is not shown: the plug, if any, is new.
LEMMA KeyWhileQueuedIInv ==
    ASSUME IInv, NEW w \in Windows, NEW kind \in Kinds, keys < MaxKeys,
           keys' = keys + 1, KeyWhileQueued(w, kind)
    PROVE  IInv'
<1> DEFINE key == [number |-> keys + 1, kind |-> kind]
           wanted == kind # "navigation" /\ ~Eaten(w, kind)
<1>1. /\ QueueKeyEvent(w, key)
      /\ typed' = IF wanted THEN [typed EXCEPT ![w] = Append(@, key)] ELSE typed
      /\ troubled' = (troubled \/ (wanted /\ UNCHANGED queue))
      /\ UNCHANGED <<socket, plugQueue, sensitive, prompting, clicking, text, resets,
                     entered, answered, strays>>
  BY DEF KeyWhileQueued, plug
<1>2. socket # "shown"
  BY DEF KeyWhileQueued, IInv, PlugIsNew
<1>3. dialog' \in Windows \union {None} /\ (dialog' = None => socket = "none")
  <2>1. dialog' = dialog => (dialog' = None => socket = "none")
    BY DEF IInv, PlugIsNew
  <2> QED BY <2>1 DEF KeyWhileQueued, Asked, IInv, TypeOK, PlugIsNew
<1> HIDE DEF key
<1>4. /\ queue' \in [Windows -> Seq(Keys)]
      /\ \A v \in Windows : Len(queue'[v]) <= keys + 1
      /\ \A v \in Windows : v # w => queue'[v] = queue[v]
      /\ queue' = queue \/ queue'[w] = Append(queue[w], key)
      /\ ~wanted => queue' = queue
      /\ wanted => key \in Keys
  BY <1>1, QueueKeyEventInOrder DEF key
<1>5. AnswerIsFresh' /\ answered' <= Len(entered')
  BY <1>1, PlugStays
<1>6. typed' \in [Windows -> Seq(Keys)]
  <2>1. typed \in [Windows -> Seq(Keys)]
    BY DEF IInv, TypeOK
  <2>2. wanted => Append(typed[w], key) \in Seq(Keys)
    BY <1>4, <2>1
  <2> QED BY <1>1, <2>1, <2>2
<1>7. troubled' \in BOOLEAN /\ keys' \in 0..MaxKeys
  BY <1>1, KeysAssumption DEF IInv, TypeOK
<1>8. TypeOK'
  BY <1>1, <1>3, <1>4, <1>6, <1>7 DEF IInv, TypeOK
<1>9. PlugIsNew' /\ NoneOvertaken'
  BY <1>1, <1>3 DEF IInv, PlugIsNew, NoneOvertaken
<1>10. Counted'
  BY <1>1, <1>4, <1>5, KeysAssumption DEF IInv, TypeOK, Counted
<1>11. KeysKept'
  <2> SUFFICES ASSUME ~troubled', NEW v \in Windows
               PROVE  strays[v] \o typed'[v] = queue'[v]
    BY <1>1, <1>2 DEF KeysKept
  <2>1. ~troubled /\ (wanted => queue' # queue)
    BY <1>1
  <2>2. /\ strays[v] \o typed[v] = queue[v]
        /\ typed \in [Windows -> Seq(Keys)] /\ strays[v] \in Seq(Keys)
    BY <1>2, <2>1 DEF IInv, KeysKept, TypeOK
  <2>3. CASE ~wanted
    BY <1>1, <1>4, <2>2, <2>3
  <2>4. CASE wanted /\ v # w
    BY <1>1, <1>4, <2>2, <2>4
  <2>5. CASE wanted /\ v = w
    <3>1. typed'[v] = Append(typed[v], key) /\ queue'[v] = Append(queue[v], key)
      BY <1>1, <1>4, <2>1, <2>2, <2>5
    <3>2. strays[v] \o Append(typed[v], key) = Append(strays[v] \o typed[v], key)
      BY <1>4, <2>2, <2>5, AppendsLast
    <3> QED BY <2>2, <3>1, <3>2
  <2> QED BY <2>3, <2>4, <2>5
<1> QED BY <1>5, <1>8, <1>9, <1>10, <1>11 DEF IInv

\* A key for the window whose socket is shown, to the plug.
LEMMA KeyWhileShownIInv ==
    ASSUME IInv, NEW kind \in Kinds, keys < MaxKeys, keys' = keys + 1,
           KeyWhileShown(kind)
    PROVE  IInv'
<1> DEFINE key == [number |-> keys + 1, kind |-> kind]
<1>1. /\ dialog \in Windows /\ socket = "shown" /\ QueueKeyEvent(dialog, key)
      /\ UNCHANGED <<dialog, socket, strays, troubled>>
  BY DEF KeyWhileShown, IInv, TypeOK
<1> HIDE DEF key
<1>2. /\ queue' \in [Windows -> Seq(Keys)]
      /\ \A v \in Windows : Len(queue'[v]) <= keys + 1
      /\ \A v \in Windows : v # dialog => queue'[v] = queue[v]
      /\ kind # "navigation" => key \in Keys
  BY <1>1, QueueKeyEventInOrder DEF key
<1>3. /\ entered \in Seq(Keys) /\ plugQueue \in Seq(Keys) /\ keys \in Nat
      /\ keys' \in 0..MaxKeys
      /\ typed \in [Windows -> Seq(Keys)] /\ strays \in [Windows -> Seq(Keys)]
      /\ Len(entered) + Len(plugQueue) <= keys
  BY KeysAssumption DEF IInv, TypeOK, Counted
<1>4. CASE kind = "navigation"
  <2>1. UNCHANGED <<plugQueue, sensitive, prompting, clicking, text, resets,
                    entered, answered, typed>>
    BY <1>4 DEF KeyWhileShown, plug
  <2>2. AnswerIsFresh' /\ answered' <= Len(entered')
    BY <2>1, PlugStays
  <2>3. TypeOK'
    BY <1>1, <1>2, <1>3, <2>1 DEF IInv, TypeOK
  <2>4. PlugIsNew' /\ NoneOvertaken' /\ Counted'
    BY <1>1, <1>2, <1>3, <2>1, <2>2 DEF IInv, PlugIsNew, NoneOvertaken, Counted
  <2>5. KeysKept'
    BY <1>1, <1>2, <2>1 DEF IInv, KeysKept
  <2> QED BY <2>2, <2>3, <2>4, <2>5 DEF IInv
<1>5. CASE kind # "navigation"
  <2>1. /\ PlugGets(<<key>>)
        /\ typed' = [typed EXCEPT ![dialog] = Append(@, key)]
    BY <1>5 DEF KeyWhileShown, key
  <2>2. <<key>> \in Seq(Keys) /\ Len(<<key>>) = 1
    BY <1>2, <1>5
  <2>3. /\ AnswerIsFresh' /\ answered' <= Len(entered')
        /\ text' \in Seq(Keys) /\ entered' \in Seq(Keys) /\ plugQueue' \in Seq(Keys)
        /\ clicking' \in BOOLEAN
        /\ Len(entered') + Len(plugQueue') = Len(entered) + Len(plugQueue) + 1
        /\ ~troubled => /\ entered' \o plugQueue' = (entered \o plugQueue) \o <<key>>
                        /\ sensitive' => plugQueue' = <<>>
    BY <2>1, <2>2, PlugGetsInOrder
  <2>4. UNCHANGED <<sensitive, prompting, resets, answered>>
    BY <2>1 DEF PlugGets
  <2>5. typed' \in [Windows -> Seq(Keys)]
    BY <1>1, <1>2, <1>3, <1>5, <2>1
  <2>6. TypeOK'
    BY <1>1, <1>2, <1>3, <2>3, <2>4, <2>5 DEF IInv, TypeOK
  <2>7. PlugIsNew' /\ NoneOvertaken'
    BY <1>1, <2>3, <2>4 DEF IInv, PlugIsNew, NoneOvertaken
  <2>8. Counted'
    BY <1>2, <1>3, <2>3 DEF Counted
  <2>9. KeysKept'
    <3> SUFFICES ASSUME ~troubled, NEW w \in Windows
                 PROVE  strays[w] \o typed'[w]
                          = IF dialog = w THEN entered' \o plugQueue'
                                          ELSE queue'[w]
      BY <1>1 DEF KeysKept
    <3>1. CASE w = dialog
      <4>1. strays[w] \o typed[w] = entered \o plugQueue
        BY <1>1, <3>1 DEF IInv, KeysKept
      <4>2. Append(entered \o plugQueue, key) = (entered \o plugQueue) \o <<key>>
        BY <1>2, <1>3, <1>5
      <4>3. strays[w] \o Append(typed[w], key) = Append(strays[w] \o typed[w], key)
        BY <1>2, <1>3, <1>5, AppendsLast
      <4>4. typed'[w] = Append(typed[w], key)
        BY <1>3, <2>1, <3>1
      <4> QED BY <2>3, <3>1, <4>1, <4>2, <4>3, <4>4
    <3>2. CASE w # dialog
      BY <1>1, <1>2, <1>3, <2>1, <3>2 DEF IInv, KeysKept
    <3> QED BY <3>1, <3>2
  <2> QED BY <2>3, <2>6, <2>7, <2>8, <2>9 DEF IInv
<1> QED BY <1>4, <1>5

\* lock_socket_show: what the window kept goes to the new plug.
LEMMA SocketShowIInv == IInv /\ SocketShow => IInv'
<1> SUFFICES ASSUME IInv, SocketShow PROVE IInv'
  OBVIOUS
<1>1. /\ dialog \in Windows /\ socket = "hidden" /\ socket' = "shown"
      /\ PlugGets(queue[dialog]) /\ queue' = [queue EXCEPT ![dialog] = <<>>]
      /\ UNCHANGED <<keys, dialog, typed, strays, troubled, sensitive, prompting,
                     resets, answered>>
  BY DEF SocketShow, PlugGets, IInv, TypeOK
<1>2. /\ entered = <<>> /\ plugQueue = <<>>
      /\ queue \in [Windows -> Seq(Keys)] /\ keys \in Nat
      /\ \A w \in Windows : Len(queue[w]) <= keys
  BY <1>1, KeysAssumption DEF IInv, TypeOK, PlugIsNew, Counted
<1>3. queue[dialog] \in Seq(Keys)
  BY <1>1, <1>2
<1>4. /\ AnswerIsFresh' /\ answered' <= Len(entered')
      /\ text' \in Seq(Keys) /\ entered' \in Seq(Keys) /\ plugQueue' \in Seq(Keys)
      /\ clicking' \in BOOLEAN
      /\ Len(entered') + Len(plugQueue')
           = Len(entered) + Len(plugQueue) + Len(queue[dialog])
      /\ ~troubled => /\ entered' \o plugQueue' = (entered \o plugQueue) \o queue[dialog]
                      /\ sensitive' => plugQueue' = <<>>
  BY <1>1, <1>3, PlugGetsInOrder
<1>5. /\ <<>> \in Seq(Keys) /\ Len(<<>>) = 0
      /\ (<<>> \o <<>>) \o queue[dialog] = queue[dialog]
  <2>1. <<>> \o <<>> = <<>> /\ <<>> \o queue[dialog] = queue[dialog]
    BY <1>3, ConcatEmptySeq
  <2> QED BY <2>1
<1>6. /\ queue' \in [Windows -> Seq(Keys)] /\ queue'[dialog] = <<>>
      /\ \A w \in Windows : w # dialog => queue'[w] = queue[w]
  BY <1>1, <1>2, <1>5
<1>7. TypeOK'
  BY <1>1, <1>4, <1>6 DEF IInv, TypeOK
<1>8. PlugIsNew' /\ NoneOvertaken'
  BY <1>1, <1>4 DEF IInv, PlugIsNew, NoneOvertaken
<1>9. Counted'
  <2>1. Len(entered') + Len(plugQueue') <= keys'
    BY <1>1, <1>2, <1>3, <1>4, <1>5
  <2>2. \A w \in Windows : Len(queue'[w]) <= keys'
    BY <1>1, <1>2, <1>5, <1>6
  <2> QED BY <1>4, <2>1, <2>2 DEF Counted
<1>10. KeysKept'
  <2> SUFFICES ASSUME ~troubled, NEW w \in Windows
               PROVE  strays[w] \o typed[w]
                        = IF dialog = w THEN entered' \o plugQueue' ELSE queue'[w]
    BY <1>1 DEF KeysKept
  <2>1. strays[w] \o typed[w] = queue[w]
    BY <1>1 DEF IInv, KeysKept
  <2>2. entered' \o plugQueue' = queue[dialog]
    BY <1>2, <1>4, <1>5
  <2> QED BY <1>6, <2>1, <2>2
<1> QED BY <1>4, <1>7, <1>8, <1>9, <1>10 DEF IInv

\* popdown_dialog: nothing of the dialog's keys is left, and what other windows
\* have is now of an earlier dialog's time.
LEMMA DialogFinishIInv == IInv /\ DialogFinish => IInv'
<1> SUFFICES ASSUME IInv, DialogFinish PROVE IInv'
  OBVIOUS
<1>1. /\ dialog \in Windows /\ queue' = [queue EXCEPT ![dialog] = <<>>]
      /\ typed' = [w \in Windows |-> <<>>]
      /\ strays' = [w \in Windows |-> IF w = dialog THEN <<>>
                                       ELSE strays[w] \o typed[w]]
      /\ NewPlug
      /\ dialog' = None /\ socket' = "none" /\ UNCHANGED <<keys, troubled>>
  BY DEF DialogFinish, RemoveKeyEvents, IInv, TypeOK
<1>2. <<>> \in Seq(Keys) /\ Len(<<>>) = 0 /\ 0 \in 0..MaxKeys /\ 0 \in 0..2
  BY KeysAssumption
<1>3. /\ queue \in [Windows -> Seq(Keys)]
      /\ \A w \in Windows : strays[w] \o typed[w] \in Seq(Keys)
  BY DEF IInv, TypeOK
<1>4. /\ queue' \in [Windows -> Seq(Keys)] /\ queue'[dialog] = <<>>
      /\ typed' \in [Windows -> Seq(Keys)] /\ strays' \in [Windows -> Seq(Keys)]
      /\ strays'[dialog] = <<>>
      /\ \A w \in Windows :
           /\ typed'[w] = <<>>
           /\ w # dialog => queue'[w] = queue[w] /\ strays'[w] = strays[w] \o typed[w]
  BY <1>1, <1>2, <1>3
<1>5. TypeOK'
  BY <1>1, <1>2, <1>4 DEF NewPlug, IInv, TypeOK
<1>6. AnswerIsFresh'
  <2>1. SubSeq(<<>>, 0 + 1, 0) = <<>>
    BY SubSeqEmpty
  <2>2. Chars(SubSeq(entered, answered + 1, Len(entered)))'
          = Chars(SubSeq(entered', answered' + 1, Len(entered')))
    BY DEF Chars
  <2> QED BY <1>1, <1>2, <2>1, <2>2, CharsEmpty DEF NewPlug, AnswerIsFresh
<1>7. PlugIsNew' /\ NoneOvertaken'
  BY <1>1 DEF NewPlug, PlugIsNew, NoneOvertaken
<1>8. Counted'
  BY <1>1, <1>2, <1>4, KeysAssumption DEF NewPlug, IInv, TypeOK, Counted
<1>9. KeysKept'
  <2> SUFFICES ASSUME ~troubled, NEW w \in Windows
               PROVE  strays'[w] \o typed'[w] = queue'[w]
    BY <1>1 DEF KeysKept
  <2>1. strays'[w] \o typed'[w] = strays'[w]
    BY <1>4, ConcatEmptySeq
  <2>2. CASE w = dialog
    BY <1>4, <2>1, <2>2
  <2>3. CASE w # dialog
    BY <1>4, <2>1, <2>3 DEF IInv, KeysKept
  <2> QED BY <2>2, <2>3
<1> QED BY <1>5, <1>6, <1>7, <1>8, <1>9 DEF IInv

\* request_response: what was kept goes to the entry, before any other key.
LEMMA PromptIInv == IInv /\ Prompt => IInv'
<1> SUFFICES ASSUME IInv, Prompt PROVE IInv'
  OBVIOUS
<1>1. /\ Enter(plugQueue, TRUE) /\ plugQueue' = <<>>
      /\ sensitive' = TRUE /\ prompting' = TRUE
      /\ UNCHANGED <<keys, dialog, socket, queue, resets, answered, typed, strays,
                     troubled>>
  BY DEF Prompt, PlugForward
<1>2. entered \in Seq(Keys) /\ plugQueue \in Seq(Keys)
  BY DEF IInv, TypeOK
<1>3. /\ AnswerIsFresh' /\ text' \in Seq(Keys)
      /\ entered' = entered \o plugQueue /\ entered' \in Seq(Keys)
      /\ Len(entered') = Len(entered) + Len(plugQueue)
      /\ answered' <= Len(entered') /\ clicking' \in BOOLEAN
  BY <1>1, <1>2, EnterFresh
<1>4. <<>> \in Seq(Keys) /\ Len(<<>>) = 0 /\ <<>> \o <<>> = <<>>
      /\ entered' \o <<>> = entered'
  BY <1>3, ConcatEmptySeq
<1>5. TypeOK'
  BY <1>1, <1>3, <1>4 DEF IInv, TypeOK
<1>6. PlugIsNew' /\ NoneOvertaken'
  BY <1>1, <1>3, <1>4 DEF IInv, PlugIsNew, NoneOvertaken
<1>7. Counted'
  BY <1>1, <1>2, <1>3, <1>4 DEF IInv, Counted
<1>8. KeysKept'
  BY <1>1, <1>3, <1>4 DEF IInv, KeysKept
<1> QED BY <1>3, <1>5, <1>6, <1>7, <1>8 DEF IInv

\* The entry is empty, for an answer or for none: what was in it is counted as
\* answered, and no key is moved.
LEMMA EntryEmptied ==
    ASSUME IInv, text' = <<>>, answered' = Len(entered),
           clicking' \in BOOLEAN, prompting' \in BOOLEAN, sensitive' \in BOOLEAN,
           sensitive' => sensitive,
           UNCHANGED <<keys, dialog, socket, queue, plugQueue, resets, entered, typed,
                       strays, troubled>>
    PROVE  IInv'
<1>1. /\ <<>> \in Seq(Keys) /\ Len(entered) \in 0..MaxKeys
  BY KeysAssumption DEF IInv, TypeOK, Counted
<1>2. TypeOK'
  BY <1>1 DEF IInv, TypeOK
<1>3. AnswerIsFresh'
  <2>1. SubSeq(entered, Len(entered) + 1, Len(entered)) = <<>>
    BY <1>1, SubSeqEmpty
  <2>2. Chars(SubSeq(entered, answered + 1, Len(entered)))'
          = Chars(SubSeq(entered', answered' + 1, Len(entered')))
    BY DEF Chars
  <2> QED BY <2>1, <2>2, CharsEmpty DEF AnswerIsFresh
<1>4. PlugIsNew' /\ KeysKept'
  BY DEF IInv, PlugIsNew, KeysKept
<1>5. Counted'
  BY <1>1 DEF IInv, Counted
<1>6. NoneOvertaken'
  BY Zenon DEF IInv, NoneOvertaken
<1> QED BY <1>2, <1>3, <1>4, <1>5, <1>6 DEF IInv

\* request_response at its end, and gs_lock_plug_response with CANCEL.
LEMMA AnswerIInv == IInv /\ (Answer \/ Cancel) => IInv'
<1>1. IInv /\ Answer => IInv'
  BY EntryEmptied DEF Answer, GetText
<1>2. ASSUME IInv, Cancel PROVE IInv'
  <2>1. sensitive' = (sensitive /\ ~prompting) /\ prompting' = FALSE
    BY <1>2 DEF Cancel
  <2>2. sensitive' \in BOOLEAN /\ (sensitive' => sensitive)
    BY <2>1, Zenon
  <2> QED BY <1>2, <2>1, <2>2, EntryEmptied DEF Cancel
<1> QED BY <1>1, <1>2

\* What leaves the keys where they are: it may only have the entry wake with keys
\* kept, and that is noted.
LEMMA KeysStayIInv ==
    ASSUME IInv,
           UNCHANGED <<keys, queue, plugQueue, prompting, clicking, text, entered,
                       answered, typed, strays>>,
           dialog' \in Windows \union {None}, socket' \in {"none", "hidden", "shown"},
           socket # socket' => socket = "none" /\ socket' = "hidden",
           dialog # dialog' => dialog = None,
           dialog' = None => socket' = "none",
           resets' \in 0..2, sensitive' \in BOOLEAN, troubled' \in BOOLEAN,
           ~troubled' => ~troubled /\ (sensitive' => sensitive \/ plugQueue = <<>>)
    PROVE  IInv'
<1>1. AnswerIsFresh'
  BY PlugStays
<1>2. TypeOK'
  BY DEF IInv, TypeOK
<1>3. PlugIsNew' /\ NoneOvertaken'
  BY DEF IInv, PlugIsNew, NoneOvertaken
<1>4. Counted'
  BY DEF IInv, Counted
<1>5. KeysKept'
  BY DEF IInv, KeysKept, PlugIsNew
<1> QED BY <1>1, <1>2, <1>3, <1>4, <1>5 DEF IInv

\* Every step of keys, windows, dialog and PAM keeps the invariant.
LEMMA NextIInv == IInv /\ [Next]_vars => IInv'
<1> SUFFICES ASSUME IInv, [Next]_vars PROVE IInv'
  OBVIOUS
<1>1. TypeOK /\ PlugIsNew
  BY DEF IInv
<1>2. CASE KeyPress
  BY <1>2, KeyWhileShownIInv, KeyWhileQueuedIInv DEF KeyPress, IInv, TypeOK
<1>3. CASE SocketShow \/ DialogFinish \/ Prompt \/ Answer \/ Cancel
  BY <1>3, SocketShowIInv, DialogFinishIInv, PromptIInv, AnswerIInv
<1>4. CASE OtherActivity \/ SocketMade
  BY <1>1, <1>4, KeysStayIInv
     DEF OtherActivity, SocketMade, Asked, plug, TypeOK,
                                  PlugIsNew
<1>5. CASE AuthFails
  <2>1. resets' \in 0..2
    BY <1>1, <1>5 DEF AuthFails, TypeOK
  <2> QED BY <1>1, <1>5, <2>1, KeysStayIInv DEF AuthFails, TypeOK, PlugIsNew
<1>6. CASE ResetIdle
  <2>1. resets' \in 0..2
    BY <1>1, <1>6 DEF ResetIdle, TypeOK
  <2>2. troubled' = (troubled \/ plugQueue # <<>>) /\ sensitive' = TRUE
    BY <1>6 DEF ResetIdle
  <2>3. troubled' \in BOOLEAN
    BY <1>1, <2>2, Zenon DEF TypeOK
  <2>4. ~troubled' => ~troubled /\ (sensitive' => sensitive \/ plugQueue = <<>>)
    BY <2>2
  <2> QED BY <1>1, <1>6, <2>1, <2>2, <2>3, <2>4, KeysStayIInv
          DEF ResetIdle, TypeOK, PlugIsNew
<1>7. CASE GivenUp
  BY <1>1, <1>7, KeysStayIInv DEF GivenUp, TypeOK, PlugIsNew
<1>8. CASE UNCHANGED vars
  BY <1>1, <1>8, KeysStayIInv DEF vars, plug, TypeOK, PlugIsNew
<1> QED BY <1>2, <1>3, <1>4, <1>5, <1>6, <1>7, <1>8 DEF Next

LEMMA InitIInv == Init => IInv
<1> SUFFICES ASSUME Init PROVE IInv
  OBVIOUS
<1>1. <<>> \in Seq(Keys) /\ Len(<<>>) = 0 /\ 0 \in 0..MaxKeys /\ 0 \in 0..2
  BY KeysAssumption
<1>2. SubSeq(<<>>, 0 + 1, 0) = <<>>
  BY SubSeqEmpty
<1>3. TypeOK
  BY <1>1 DEF Init, TypeOK
<1>4. AnswerIsFresh
  BY <1>1, <1>2, CharsEmpty DEF Init, AnswerIsFresh
<1>5. KeysKept /\ PlugIsNew /\ NoneOvertaken /\ Counted
  BY <1>1, ConcatEmptySeq DEF Init, KeysKept, PlugIsNew, NoneOvertaken, Counted
<1> QED BY <1>3, <1>4, <1>5 DEF IInv

LEMMA Invariance == Spec => []IInv
  BY InitIInv, NextIInv, PTL DEF Spec
-------------------------------------------------------------------------------
(* What the run checks. *)

\* Every variable has its type.
THEOREM TypeCorrect == Spec => []TypeOK
  BY Invariance, PTL DEF IInv

\* The two queues hand on every key, once and in the order typed
\* (forward_key_events of the window and of the plug), the strays of a window that
\* did not get a dialog before those typed for its own; but for the two cases that
\* troubled tells.
THEOREM AlwaysKeysKept == Spec => []KeysKept
  BY Invariance, PTL DEF IInv

\* An answer has every character typed since the one before, and no other
\* (gs_lock_plug_get_text, gs_lock_plug_disable_prompt).
THEOREM AlwaysFresh == Spec => []AnswerIsFresh
  BY Invariance, PTL DEF IInv
===============================================================================
