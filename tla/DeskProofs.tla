----------------------------- MODULE DeskProofs -----------------------------
(***************************************************************************)
(* What becomes of a key.  First what the tables of src/keymap.rs keep,    *)
(* for every key, code, button and combination; then what the loop         *)
(* believes of the keyboard, for whatever the hands of the user do,        *)
(* whatever the OS reports of the pointer and for every bound: no press    *)
(* and no release is lost between the hand and the loop.  Then what        *)
(* becomes of a movement: the trail of the positions the OS tells of, from *)
(* the last one the capture thread knows to where the pointer is.  It      *)
(* shows that the desk drives the loop as Controller describes it, that a  *)
(* jump of the loop's own is never taken for a movement of the hand, and   *)
(* that the movements of a visit arrive once.                              *)
(***************************************************************************)
EXTENDS Desk, ControllerProofs

\* CanonKey::code: the code of a named key is its rank in ALL_CANON.
LEMMA CodeOfName == \A i \in Codes : CodeAt(CanonNames[i]) = i
BY TablesAssumption DEF CodeAt

\* ALL_CANON has 86 keys.
LEMMA TableSize == Codes = 1 .. 86
BY DEF Codes, CanonNames

\* Equal comes 81st in ALL_CANON.
LEMMA EqualIs81 == CodeAt("Equal") = 81
<1>1. CanonNames[81] = "Equal"
  BY DEF CanonNames
<1> QED
  BY <1>1, CodeOfName, TableSize

\* rdev_key_to_canon: a key of the tables becomes the canonical key of its
\* row; any other becomes an Other, with a code out of the tables.
LEMMA CanonOfKey ==
  ASSUME NEW k
  PROVE  \/ k \in TableKeys /\ \E i \in Codes : RdevNames[i] = k
                                 /\ RdevKeyToCanon(k) = Named(CanonNames[i])
         \/ k \notin TableKeys /\ \E n \in {181, 182, 65535} : RdevKeyToCanon(k) = Other(n)
<1>1. CASE k \in TableKeys
  <2>1. PICK i \in Codes : RdevNames[i] = k
    BY <1>1 DEF TableKeys
  <2>2. RowOf(k) = i
    BY <2>1, TablesAssumption DEF RowOf
  <2>3. RdevKeyToCanon(k) = Named(CanonNames[i])
    BY <1>1, <2>2 DEF RdevKeyToCanon
  <2> QED
    BY <1>1, <2>1, <2>3
<1>2. CASE k \notin TableKeys
  <2>1. CodeAt("Equal") + 100 = 181 /\ CodeAt("Equal") + 101 = 182
    BY EqualIs81
  <2>2. CASE k = "BackQuote"
    BY <1>2, <2>1, <2>2 DEF RdevKeyToCanon
  <2>3. CASE k = "IntlBackslash"
    BY <1>2, <2>1, <2>3 DEF RdevKeyToCanon
  <2>4. CASE k \notin {"BackQuote", "IntlBackslash"}
    BY <1>2, <2>4 DEF RdevKeyToCanon
  <2> QED
    BY <2>2, <2>3, <2>4
<1> QED
  BY <1>1, <1>2

\* CanonKey::from_code and code: what code gives, from_code takes back to the
\* same key, for whatever key the capture may meet.
THEOREM CodesKeepKeys ==
  \A k : FromCode(Code(RdevKeyToCanon(k))) = RdevKeyToCanon(k)
<1> SUFFICES ASSUME NEW k
             PROVE  FromCode(Code(RdevKeyToCanon(k))) = RdevKeyToCanon(k)
  OBVIOUS
<1>1. CASE \E i \in Codes : RdevKeyToCanon(k) = Named(CanonNames[i])
  BY <1>1, CodeOfName, TablesAssumption DEF Code, FromCode, Named
<1>2. CASE \E n \in {181, 182, 65535} : RdevKeyToCanon(k) = Other(n)
  BY <1>2, TableSize DEF Code, FromCode, Other
<1> QED
  BY <1>1, <1>2, CanonOfKey

\* from_code: two codes are never taken for the same canonical key, so that
\* the set of the keys that are down is a set of codes.
THEOREM CodesAreDistinct ==
  \A m, n \in Nat : FromCode(m) = FromCode(n) => m = n
<1> SUFFICES ASSUME NEW m \in Nat, NEW n \in Nat, FromCode(m) = FromCode(n)
             PROVE  m = n
  OBVIOUS
<1>1. /\ m \in Codes => FromCode(m).name = CanonNames[m]
      /\ m \notin Codes => FromCode(m).name = "Other" /\ FromCode(m).code = m
  BY DEF FromCode, Named, Other
<1>2. /\ n \in Codes => FromCode(n).name = CanonNames[n]
      /\ n \notin Codes => FromCode(n).name = "Other" /\ FromCode(n).code = n
  BY DEF FromCode, Named, Other
<1>3. CASE m \in Codes /\ n \in Codes
  BY <1>1, <1>2, <1>3, TablesAssumption
<1>4. CASE m \notin Codes /\ n \notin Codes
  BY <1>1, <1>2, <1>4
<1>5. (m \in Codes) <=> (n \in Codes)
  BY <1>1, <1>2, TablesAssumption
<1> QED
  BY <1>3, <1>4, <1>5

\* canon_to_rdev after rdev_key_to_canon, over the wire: every key of the
\* tables comes out on the client as it went in on the controller.
THEOREM KeysRoundTrip == \A k \in TableKeys : KeyOfCode(CodeOfKey(k)) = k
<1> SUFFICES ASSUME NEW k \in TableKeys
             PROVE  KeyOfCode(CodeOfKey(k)) = k
  OBVIOUS
<1>1. PICK i \in Codes : RdevNames[i] = k /\ RdevKeyToCanon(k) = Named(CanonNames[i])
  BY CanonOfKey
<1>2. KeyOfCode(CodeOfKey(k)) = CanonToRdev(Named(CanonNames[i]))
  BY <1>1, CodesKeepKeys DEF KeyOfCode, CodeOfKey
<1>3. CanonToRdev(Named(CanonNames[i])) = RdevNames[i]
  BY TablesAssumption, CodeOfName DEF CanonToRdev, Named
<1> QED
  BY <1>1, <1>2, <1>3

\* ... and every other key comes out as Escape (the `Other` arm of
\* canon_to_rdev), the two that have a code of their own included.
THEOREM OtherKeysEscape ==
  \A k : k \notin TableKeys => KeyOfCode(CodeOfKey(k)) = "Escape"
<1> SUFFICES ASSUME NEW k, k \notin TableKeys
             PROVE  KeyOfCode(CodeOfKey(k)) = "Escape"
  OBVIOUS
<1>1. \E n \in {181, 182, 65535} : RdevKeyToCanon(k) = Other(n)
  BY CanonOfKey
<1> QED
  BY <1>1, CodesKeepKeys DEF KeyOfCode, CodeOfKey, CanonToRdev, Other

\* button_to_id and id_to_button: the three named buttons come out as they
\* went in, an unknown one only if its number is none of theirs and not 0.
THEOREM ButtonsRoundTrip ==
  /\ \A b \in {LeftButton, RightButton, MiddleButton} : IdToButton(ButtonToId(b)) = b
  /\ \A n \in 0 .. 255 :
       IdToButton(ButtonToId(UnknownButton(n))) = UnknownButton(n) <=> n \notin 0 .. 3
<1>1. \A b \in {LeftButton, RightButton, MiddleButton} : IdToButton(ButtonToId(b)) = b
  BY DEF IdToButton, ButtonToId, LeftButton, RightButton, MiddleButton
<1>2. ASSUME NEW n \in 0 .. 255
      PROVE  IdToButton(ButtonToId(UnknownButton(n))) = UnknownButton(n) <=> n \notin 0 .. 3
  <2>1. ButtonToId(UnknownButton(n)) = n
    BY DEF ButtonToId, LeftButton, RightButton, MiddleButton, UnknownButton
  <2>2. CASE n \in 0 .. 3
    BY <2>1, <2>2 DEF IdToButton, LeftButton, RightButton, MiddleButton, UnknownButton, NoButton
  <2>3. CASE n \notin 0 .. 3
    BY <2>1, <2>3 DEF IdToButton
  <2> QED
    BY <2>2, <2>3
<1> QED
  BY <1>1, <1>2

RightModifiers == {Named("ShiftR"), Named("CtrlR"), Named("AltR"), Named("MetaR")}

\* The rows of the modifiers on the right.
LEMMA RightModifierCodes ==
  /\ CanonNames[43] = "ShiftR" /\ CanonNames[45] = "CtrlR"
  /\ CanonNames[47] = "AltR" /\ CanonNames[49] = "MetaR"
BY DEF CanonNames

\* parse_emergency_combo: no combination contains a modifier of the right
\* hand.  As run_controller does not normalise the keys that go down, those
\* never take part in an emergency stop.
THEOREM CombosAreLeftHanded ==
  \A tokens : Parses(tokens) => ParseEmergencyCombo(tokens) \cap RightModifiers = {}
<1> SUFFICES ASSUME NEW tokens, Parses(tokens), NEW i \in DOMAIN tokens
             PROVE  KeyOfToken(tokens[i]) \notin RightModifiers
  BY DEF ParseEmergencyCombo
<1> DEFINE t == tokens[i]
<1>1. Understood(t)
  BY DEF Parses
<1>2. CASE t.kind = "word"
  BY <1>1, <1>2 DEF Understood, KeyOfToken, KeyOfWord, Words, CtrlWords, AltWords,
                    ShiftWords, MetaWords, RightModifiers, Named
<1>3. ASSUME NEW n \in Codes \ {43, 45, 47, 49}
      PROVE  FromCode(n) \notin RightModifiers
  <2>1. FromCode(n).name = CanonNames[n]
    BY DEF FromCode, Named
  <2>2. \A j \in {43, 45, 47, 49} : j \in Codes /\ CanonNames[j] # CanonNames[n]
    <3>1. {43, 45, 47, 49} \subseteq Codes /\ n \in Codes /\ n \notin {43, 45, 47, 49}
      BY TableSize
    <3> QED
      BY <3>1, TablesAssumption
  <2>3. CanonNames[n] \notin {"ShiftR", "CtrlR", "AltR", "MetaR"}
    BY <2>2, RightModifierCodes
  <2> QED
    BY <2>1, <2>3 DEF Named, RightModifiers
<1>4. CASE t.kind = "function"
  BY <1>1, <1>3, <1>4, TableSize DEF Understood, KeyOfToken
<1>5. CASE t.kind = "letter"
  BY <1>1, <1>3, <1>5, TableSize DEF Understood, KeyOfToken
<1>6. CASE t.kind = "digit"
  BY <1>1, <1>3, <1>6, TableSize DEF Understood, KeyOfToken
<1> QED
  BY <1>1, <1>2, <1>4, <1>5, <1>6 DEF Understood

-----------------------------------------------------------------------------

\* From the hand to the loop a key goes through two queues.  What they hold
\* is a sequence of presses and releases: what it makes of a set of keys.

OnKey(e, c) == e.type = "Key" /\ e.code = c

Untouched(q, c) == \A i \in 1 .. Len(q) : ~OnKey(q[i], c)

PressedLast(q, c) ==
  \E i \in 1 .. Len(q) :
    /\ OnKey(q[i], c) /\ q[i].pressed
    /\ \A j \in i + 1 .. Len(q) : ~OnKey(q[j], c)

After(q, S) == {c \in Keys : (c \in S /\ Untouched(q, c)) \/ PressedLast(q, c)}

Applied(e, S) ==
  IF e.type # "Key" THEN S ELSE IF e.pressed THEN S \cup {e.code} ELSE S \ {e.code}

KeyOK(e) == e.type = "Key" => e.code \in Keys /\ e.pressed \in BOOLEAN

LEMMA AfterEmpty == \A S \in SUBSET Keys : After(<<>>, S) = S
BY DEF After, Untouched, PressedLast

LEMMA AfterAppend ==
  ASSUME NEW T, NEW q \in Seq(T), NEW e \in T, KeyOK(e), NEW S \in SUBSET Keys
  PROVE  After(Append(q, e), S) = Applied(e, After(q, S))
<1> DEFINE r == Append(q, e)
           n == Len(q)
<1>1. n \in Nat /\ Len(r) = n + 1 /\ r[n + 1] = e /\ \A i \in 1 .. n : r[i] = q[i]
  BY AppendProperties, LenProperties
<1>2. ASSUME NEW c \in Keys
      PROVE  c \in After(r, S) <=> c \in Applied(e, After(q, S))
  <2>1. CASE OnKey(e, c)
    <3>1. ~Untouched(r, c)
      BY <1>1, <2>1 DEF Untouched
    <3>2. PressedLast(r, c) <=> e.pressed
      <4>1. ASSUME PressedLast(r, c) PROVE e.pressed
        <5>1. PICK i \in 1 .. n + 1 : /\ OnKey(r[i], c) /\ r[i].pressed
                                      /\ \A j \in i + 1 .. n + 1 : ~OnKey(r[j], c)
          BY <1>1, <4>1 DEF PressedLast
        <5>2. i = n + 1
          BY <1>1, <2>1, <5>1
        <5> QED
          BY <1>1, <5>1, <5>2
      <4>2. ASSUME e.pressed PROVE PressedLast(r, c)
        BY <1>1, <2>1, <4>2 DEF PressedLast
      <4> QED
        BY <4>1, <4>2
    <3> QED
      BY <2>1, <3>1, <3>2 DEF After, Applied, OnKey
  <2>2. CASE ~OnKey(e, c)
    <3>1. Untouched(r, c) <=> Untouched(q, c)
      BY <1>1, <2>2 DEF Untouched
    <3>2. ASSUME PressedLast(q, c) PROVE PressedLast(r, c)
      <4>1. PICK i \in 1 .. n : /\ OnKey(q[i], c) /\ q[i].pressed
                                /\ \A j \in i + 1 .. n : ~OnKey(q[j], c)
        BY <3>2 DEF PressedLast
      <4>2. \A j \in i + 1 .. n + 1 : ~OnKey(r[j], c)
        BY <1>1, <2>2, <4>1
      <4> QED
        BY <1>1, <4>1, <4>2 DEF PressedLast
    <3>3. ASSUME PressedLast(r, c) PROVE PressedLast(q, c)
      <4>1. PICK i \in 1 .. n + 1 : /\ OnKey(r[i], c) /\ r[i].pressed
                                    /\ \A j \in i + 1 .. n + 1 : ~OnKey(r[j], c)
        BY <1>1, <3>3 DEF PressedLast
      <4>2. i \in 1 .. n
        BY <1>1, <2>2, <4>1
      <4> QED
        BY <1>1, <4>1, <4>2 DEF PressedLast
    <3>4. c \in Applied(e, After(q, S)) <=> c \in After(q, S)
      BY <2>2 DEF Applied, OnKey
    <3> QED
      BY <3>1, <3>2, <3>3, <3>4 DEF After
  <2> QED
    BY <2>1, <2>2
<1>3. Applied(e, After(q, S)) \subseteq Keys /\ After(r, S) \subseteq Keys
  BY DEF Applied, After, KeyOK
<1> QED
  BY <1>2, <1>3

LEMMA AfterTail ==
  ASSUME NEW T, NEW q \in Seq(T), q # <<>>, KeyOK(Head(q)), NEW S \in SUBSET Keys
  PROVE  After(q, S) = After(Tail(q), Applied(Head(q), S))
<1> DEFINE r == Tail(q)
           n == Len(r)
           e == Head(q)
<1>1. n \in Nat /\ Len(q) = n + 1 /\ q[1] = e /\ \A i \in 1 .. n : r[i] = q[i + 1]
  BY HeadTailProperties, LenProperties
<1>2. ASSUME NEW c \in Keys
      PROVE  c \in After(q, S) <=> c \in After(r, Applied(e, S))
  <2>1. Untouched(q, c) <=> ~OnKey(e, c) /\ Untouched(r, c)
    <3>1. ASSUME Untouched(q, c) PROVE ~OnKey(e, c) /\ Untouched(r, c)
      BY <1>1, <3>1 DEF Untouched
    <3>2. ASSUME ~OnKey(e, c), Untouched(r, c), NEW i \in 1 .. n + 1 PROVE ~OnKey(q[i], c)
      <4>1. CASE i = 1
        BY <1>1, <3>2, <4>1
      <4>2. CASE i # 1
        <5>1. i - 1 \in 1 .. n /\ q[i] = r[i - 1]
          BY <1>1, <4>2
        <5> QED
          BY <3>2, <5>1 DEF Untouched
      <4> QED
        BY <4>1, <4>2
    <3> QED
      BY <1>1, <3>1, <3>2 DEF Untouched
  <2>2. PressedLast(q, c) <=> PressedLast(r, c) \/ (OnKey(e, c) /\ e.pressed /\ Untouched(r, c))
    <3>1. ASSUME PressedLast(q, c)
          PROVE  PressedLast(r, c) \/ (OnKey(e, c) /\ e.pressed /\ Untouched(r, c))
      <4>1. PICK i \in 1 .. n + 1 : /\ OnKey(q[i], c) /\ q[i].pressed
                                    /\ \A j \in i + 1 .. n + 1 : ~OnKey(q[j], c)
        BY <1>1, <3>1 DEF PressedLast
      <4>2. \A j \in i .. n : j + 1 \in i + 1 .. n + 1 /\ j \in 1 .. n
        BY <1>1
      <4>3. \A j \in i .. n : ~OnKey(r[j], c)
        BY <1>1, <4>1, <4>2
      <4>4. CASE i = 1
        BY <1>1, <4>1, <4>3, <4>4 DEF Untouched
      <4>5. CASE i # 1
        <5>1. i - 1 \in 1 .. n /\ q[i] = r[i - 1]
          BY <1>1, <4>5
        <5>2. \A j \in (i - 1) + 1 .. n : ~OnKey(r[j], c)
          BY <4>3
        <5> QED
          BY <4>1, <5>1, <5>2 DEF PressedLast
      <4> QED
        BY <4>4, <4>5
    <3>2. ASSUME PressedLast(r, c) PROVE PressedLast(q, c)
      <4>1. PICK i \in 1 .. n : /\ OnKey(r[i], c) /\ r[i].pressed
                                /\ \A j \in i + 1 .. n : ~OnKey(r[j], c)
        BY <3>2 DEF PressedLast
      <4>2. ASSUME NEW j \in (i + 1) + 1 .. n + 1 PROVE ~OnKey(q[j], c)
        <5>1. j - 1 \in i + 1 .. n /\ q[j] = r[j - 1]
          BY <1>1
        <5> QED
          BY <4>1, <5>1
      <4>3. i + 1 \in 1 .. Len(q) /\ q[i + 1] = r[i]
        BY <1>1
      <4> QED
        BY <1>1, <4>1, <4>2, <4>3 DEF PressedLast
    <3>3. ASSUME OnKey(e, c), e.pressed, Untouched(r, c) PROVE PressedLast(q, c)
      <4>1. ASSUME NEW j \in 1 + 1 .. n + 1 PROVE ~OnKey(q[j], c)
        <5>1. j - 1 \in 1 .. n /\ q[j] = r[j - 1]
          BY <1>1
        <5> QED
          BY <3>3, <5>1 DEF Untouched
      <4>2. 1 \in 1 .. Len(q)
        BY <1>1
      <4> QED
        BY <1>1, <3>3, <4>1, <4>2 DEF PressedLast
    <3> QED
      BY <3>1, <3>2, <3>3
  <2>3. ~(Untouched(r, c) /\ PressedLast(r, c))
    BY DEF Untouched, PressedLast
  <2>4. c \in Applied(e, S) <=> IF OnKey(e, c) THEN e.pressed ELSE c \in S
    BY DEF Applied, OnKey, KeyOK
  <2> QED
    BY <2>1, <2>2, <2>3, <2>4 DEF After
<1> QED
  BY <1>2 DEF After

-----------------------------------------------------------------------------
\* What the OS has told, in the words of the capture thread.

CodeOfTold(e) == IF e.type = "Key" THEN KeyEvent(CodeOfKey(e.key), e.pressed) ELSE Move(<<0, 0>>)

Coded(q) == [i \in 1 .. Len(q) |-> CodeOfTold(q[i])]

ToldOK(e) == e.type = "Key" => e.key \in HandKeys /\ e.pressed \in BOOLEAN

LEMMA CodedEvent ==
  \A e : /\ ToldOK(e) => KeyOK(CodeOfTold(e))
         /\ e.type = "Key" => CodeOfTold(e) = KeyEvent(CodeOfKey(e.key), e.pressed)
         /\ e.type # "Key" => \A S : Applied(CodeOfTold(e), S) = S
BY DeskAssumption DEF ToldOK, KeyOK, CodeOfTold, KeyEvent, Move, Applied

LEMMA CodedType ==
  ASSUME NEW T, NEW q \in Seq(T)
  PROVE  Coded(q) \in Seq({CodeOfTold(e) : e \in T}) /\ Len(Coded(q)) = Len(q)
<1>1. Len(q) \in Nat /\ \A i \in 1 .. Len(q) : CodeOfTold(q[i]) \in {CodeOfTold(e) : e \in T}
  BY LenProperties, ElementOfSeq
<1> QED
  BY <1>1 DEF Coded

LEMMA CodedAppend ==
  ASSUME NEW T, NEW q \in Seq(T), NEW e \in T
  PROVE  Coded(Append(q, e)) = Append(Coded(q), CodeOfTold(e))
<1> DEFINE C == {CodeOfTold(d) : d \in T}
           l == Coded(Append(q, e))
           r == Append(Coded(q), CodeOfTold(e))
<1>1. Append(q, e) \in Seq(T) /\ Coded(q) \in Seq(C) /\ CodeOfTold(e) \in C
  BY AppendProperties, CodedType
<1>2. l \in Seq(C) /\ r \in Seq(C)
  BY <1>1, CodedType, AppendProperties
<1>3. Len(q) \in Nat /\ Len(Append(q, e)) = Len(q) + 1 /\ Len(Coded(q)) = Len(q)
  BY LenProperties, AppendProperties, CodedType
<1>4. Len(l) = Len(q) + 1 /\ Len(r) = Len(q) + 1
  <2>1. Len(l) = Len(Append(q, e))
    BY <1>1, CodedType
  <2>2. Len(r) = Len(Coded(q)) + 1
    BY <1>1, AppendProperties
  <2> QED
    BY <1>3, <2>1, <2>2
<1>5. ASSUME NEW i \in 1 .. Len(q) + 1 PROVE l[i] = r[i]
  <2>1. l[i] = CodeOfTold(Append(q, e)[i])
    BY <1>3 DEF Coded
  <2>2. CASE i = Len(q) + 1
    BY <1>1, <1>3, <2>1, <2>2, AppendProperties
  <2>3. CASE i \in 1 .. Len(q)
    <3>1. Append(q, e)[i] = q[i] /\ r[i] = Coded(q)[i]
      BY <1>1, <1>3, <2>3, AppendProperties
    <3> QED
      BY <2>1, <2>3, <3>1 DEF Coded
  <2> QED
    BY <1>3, <2>2, <2>3
<1> HIDE DEF l, r, C
<1>6. l = r
  BY <1>2, <1>4, <1>5, SeqEqual
<1> QED
  BY <1>6 DEF l, r

LEMMA CodedTail ==
  ASSUME NEW T, NEW q \in Seq(T), q # <<>>
  PROVE  /\ Coded(q) # <<>> /\ Head(Coded(q)) = CodeOfTold(Head(q))
         /\ Coded(Tail(q)) = Tail(Coded(q))
<1> DEFINE C == {CodeOfTold(d) : d \in T}
           l == Coded(Tail(q))
           r == Tail(Coded(q))
<1>1. Len(q) \in Nat \ {0} /\ Tail(q) \in Seq(T) /\ Len(Tail(q)) = Len(q) - 1
  BY HeadTailProperties, EmptySeq
<1>2. Coded(q) \in Seq(C) /\ Len(Coded(q)) = Len(q) /\ Coded(q) # <<>>
  BY <1>1, CodedType, EmptySeq
<1>3. l \in Seq(C) /\ r \in Seq(C) /\ Len(l) = Len(q) - 1 /\ Len(r) = Len(q) - 1
  BY <1>1, <1>2, CodedType, HeadTailProperties
<1>4. ASSUME NEW i \in 1 .. Len(q) - 1 PROVE l[i] = r[i]
  <2>1. Tail(q)[i] = q[i + 1]
    BY <1>1, HeadTailProperties
  <2>2. r[i] = Coded(q)[i + 1]
    BY <1>1, <1>2, HeadTailProperties
  <2> QED
    BY <1>1, <2>1, <2>2 DEF Coded
<1>5. Head(Coded(q)) = CodeOfTold(Head(q))
  BY <1>1, <1>2, HeadTailProperties DEF Coded
<1> HIDE DEF l, r, C
<1>6. l = r
  BY <1>3, <1>4, SeqEqual
<1> QED
  BY <1>2, <1>5, <1>6 DEF l, r

-----------------------------------------------------------------------------
\* The inductive invariant: the presses and the releases that are on their way
\* make of what the loop believes what the hands have made of the keyboard.

QueuesOK ==
  /\ \E T : rxInput \in Seq(T) /\ \A e \in T : KeyOK(e)
  /\ \E T : toldEvents \in Seq(T) /\ \A e \in T : ToldOK(e)

KeysDown == {CodeOfKey(k) : k \in down}

OnTheirWay == After(Coded(toldEvents), After(rxInput, pressedKeys))

DeskKeysInv ==
  /\ QueuesOK
  /\ down \subseteq HandKeys /\ pressedKeys \subseteq Keys
  /\ pc # "done" => OnTheirWay = KeysDown
  /\ EmergencyStops

LEMMA KeysInit == InitDesk => DeskKeysInv
<1> SUFFICES ASSUME InitDesk PROVE DeskKeysInv
  OBVIOUS
<1>1. toldEvents = <<>> /\ rxInput = <<>> /\ down = {} /\ pressedKeys = {}
  BY DEF InitDesk, Init
<1>2. QueuesOK
  <2>1. rxInput \in Seq({}) /\ \A e \in {} : KeyOK(e)
    BY <1>1, EmptySeq
  <2>2. toldEvents \in Seq({}) /\ \A e \in {} : ToldOK(e)
    BY <1>1, EmptySeq
  <2>3. \E T : rxInput \in Seq(T) /\ \A e \in T : KeyOK(e)
    BY <2>1
  <2>4. \E T : toldEvents \in Seq(T) /\ \A e \in T : ToldOK(e)
    BY <2>2
  <2> QED
    BY <2>3, <2>4 DEF QueuesOK
<1>3. Coded(<<>>) = <<>>
  BY CodedType, EmptySeq
<1>4. OnTheirWay = KeysDown
  BY <1>1, <1>3, AfterEmpty DEF OnTheirWay, KeysDown
<1>5. EmergencyStops
  BY <1>1, ControllerAssumption DEF EmergencyStops
<1> QED
  BY <1>1, <1>2, <1>4, <1>5 DEF DeskKeysInv

\* What one more event does to a queue, and one less.
LEMMA MoreCaptured ==
  ASSUME QueuesOK, NEW e, KeyOK(e), NEW S \in SUBSET Keys
  PROVE  /\ \E T : Append(rxInput, e) \in Seq(T) /\ \A d \in T : KeyOK(d)
         /\ After(Append(rxInput, e), S) = Applied(e, After(rxInput, S))
<1> PICK T : rxInput \in Seq(T) /\ \A d \in T : KeyOK(d)
  BY DEF QueuesOK
<1> DEFINE U == T \cup {e}
<1>1. rxInput \in Seq(U) /\ e \in U /\ \A d \in U : KeyOK(d)
  BY SeqMonotonic
<1> HIDE DEF U
<1>2. Append(rxInput, e) \in Seq(U)
  BY <1>1, AppendProperties
<1> QED
  BY <1>1, <1>2, AfterAppend

LEMMA LessCaptured ==
  ASSUME QueuesOK, rxInput # <<>>, NEW S \in SUBSET Keys
  PROVE  /\ KeyOK(Head(rxInput))
         /\ \E T : Tail(rxInput) \in Seq(T) /\ \A d \in T : KeyOK(d)
         /\ After(rxInput, S) = After(Tail(rxInput), Applied(Head(rxInput), S))
<1> PICK T : rxInput \in Seq(T) /\ \A d \in T : KeyOK(d)
  BY DEF QueuesOK
<1> QED
  BY HeadTailProperties, AfterTail

LEMMA MoreTold ==
  ASSUME QueuesOK, NEW e, ToldOK(e), NEW S \in SUBSET Keys
  PROVE  /\ \E T : Append(toldEvents, e) \in Seq(T) /\ \A d \in T : ToldOK(d)
         /\ After(Coded(Append(toldEvents, e)), S)
              = Applied(CodeOfTold(e), After(Coded(toldEvents), S))
<1> PICK T : toldEvents \in Seq(T) /\ \A d \in T : ToldOK(d)
  BY DEF QueuesOK
<1> DEFINE U == T \cup {e}
           C == {CodeOfTold(d) : d \in U}
<1>1. toldEvents \in Seq(U) /\ e \in U /\ \A d \in U : ToldOK(d)
  BY SeqMonotonic
<1>2. Coded(toldEvents) \in Seq(C) /\ CodeOfTold(e) \in C
  BY <1>1, CodedType
<1>3. Coded(Append(toldEvents, e)) = Append(Coded(toldEvents), CodeOfTold(e))
  BY <1>1, CodedAppend
<1>4. KeyOK(CodeOfTold(e))
  BY CodedEvent
<1> HIDE DEF U, C
<1>5. Append(toldEvents, e) \in Seq(U)
  BY <1>1, AppendProperties
<1> QED
  BY <1>1, <1>2, <1>3, <1>4, <1>5, AfterAppend

LEMMA LessTold ==
  ASSUME QueuesOK, toldEvents # <<>>, NEW S \in SUBSET Keys
  PROVE  /\ ToldOK(Head(toldEvents))
         /\ \E T : Tail(toldEvents) \in Seq(T) /\ \A d \in T : ToldOK(d)
         /\ After(Coded(toldEvents), S)
              = After(Coded(Tail(toldEvents)), Applied(CodeOfTold(Head(toldEvents)), S))
<1> PICK T : toldEvents \in Seq(T) /\ \A d \in T : ToldOK(d)
  BY DEF QueuesOK
<1> DEFINE C == {CodeOfTold(d) : d \in T}
<1>1. Head(toldEvents) \in T /\ Tail(toldEvents) \in Seq(T)
  BY HeadTailProperties
<1>2. Coded(toldEvents) \in Seq(C)
  BY CodedType
<1>3. /\ Coded(toldEvents) # <<>> /\ Head(Coded(toldEvents)) = CodeOfTold(Head(toldEvents))
      /\ Coded(Tail(toldEvents)) = Tail(Coded(toldEvents))
  BY CodedTail
<1>4. KeyOK(CodeOfTold(Head(toldEvents)))
  BY <1>1, CodedEvent
<1> HIDE DEF C
<1> QED
  BY <1>1, <1>2, <1>3, <1>4, AfterTail

LEMMA AfterType == \A q, S : After(q, S) \in SUBSET Keys
BY DEF After

-----------------------------------------------------------------------------
\* The hands and the capture thread.

\* A movement that is told of, taken or captured says nothing of the keys.
LEMMA MoveTold ==
  ASSUME QueuesOK, NEW q, NEW S \in SUBSET Keys,
         \E at, own : q = Append(toldEvents, MovedTo(at, own))
  PROVE  /\ \E T : q \in Seq(T) /\ \A e \in T : ToldOK(e)
         /\ After(Coded(q), S) = After(Coded(toldEvents), S)
<1> PICK at, own : q = Append(toldEvents, MovedTo(at, own))
  OBVIOUS
<1> DEFINE e == MovedTo(at, own)
<1>1. ToldOK(e) /\ e.type # "Key"
  BY DEF MovedTo, ToldOK
<1>2. Applied(CodeOfTold(e), After(Coded(toldEvents), S)) = After(Coded(toldEvents), S)
  BY <1>1, CodedEvent
<1> QED
  BY <1>1, <1>2, MoreTold

LEMMA HandMovesKeys == \A d : DeskKeysInv /\ HandMoves(d) => DeskKeysInv'
<1> SUFFICES ASSUME NEW d, DeskKeysInv, HandMoves(d) PROVE DeskKeysInv'
  OBVIOUS
<1>1. /\ UNCHANGED <<rxInput, pressedKeys, pc, down>>
      /\ \/ UNCHANGED toldEvents
         \/ \E at : toldEvents' = Append(toldEvents, MovedTo(at, FALSE))
  BY DEF HandMoves, vars, inputVars, parkVars
<1>2. /\ \E T : toldEvents' \in Seq(T) /\ \A e \in T : ToldOK(e)
      /\ After(Coded(toldEvents'), After(rxInput, pressedKeys))
           = After(Coded(toldEvents), After(rxInput, pressedKeys))
  <2>1. CASE UNCHANGED toldEvents
    BY <2>1 DEF DeskKeysInv, QueuesOK
  <2>2. CASE \E at : toldEvents' = Append(toldEvents, MovedTo(at, FALSE))
    <3>1. QueuesOK /\ After(rxInput, pressedKeys) \in SUBSET Keys
      BY AfterType DEF DeskKeysInv
    <3>2. \E at, own : toldEvents' = Append(toldEvents, MovedTo(at, own))
      BY <2>2
    <3>3. PICK q, S : q = toldEvents' /\ S = After(rxInput, pressedKeys)
      OBVIOUS
    <3>4. /\ \E T : q \in Seq(T) /\ \A e \in T : ToldOK(e)
          /\ After(Coded(q), S) = After(Coded(toldEvents), S)
      BY <3>1, <3>2, <3>3, MoveTold
    <3> QED
      BY <3>3, <3>4
  <2> QED
    BY <1>1, <2>1, <2>2
<1> QED
  BY <1>1, <1>2 DEF DeskKeysInv, QueuesOK, OnTheirWay, KeysDown, EmergencyStops

LEMMA HandTypesKeys ==
  ASSUME HandKeys \subseteq TableKeys,
         NEW k \in HandKeys, NEW pressed \in BOOLEAN, DeskKeysInv, HandTypes(k, pressed)
  PROVE  DeskKeysInv'
<1> DEFINE e == KeyMoved(k, pressed)
           S == After(rxInput, pressedKeys)
<1>1. /\ UNCHANGED <<rxInput, pressedKeys, pc>>
      /\ toldEvents' = Append(toldEvents, e)
      /\ down' = IF pressed THEN down \cup {k} ELSE down \ {k}
  BY DEF HandTypes, vars, inputVars, parkVars
<1>2. e.type = "Key" /\ e.key = k /\ e.pressed = pressed
  BY DEF KeyMoved
<1>3. /\ \E T : toldEvents' \in Seq(T) /\ \A d \in T : ToldOK(d)
      /\ After(Coded(toldEvents'), S) = Applied(CodeOfTold(e), After(Coded(toldEvents), S))
  BY <1>1, <1>2, MoreTold, AfterType DEF DeskKeysInv, ToldOK
<1>4. KeysDown' = Applied(CodeOfTold(e), KeysDown)
  <2>1. \A j \in down : CodeOfKey(j) = CodeOfKey(k) => j = k
    BY KeysRoundTrip DEF DeskKeysInv
  <2>2. CodeOfTold(e) = KeyEvent(CodeOfKey(k), pressed)
    BY <1>2, CodedEvent
  <2> QED
    BY <1>1, <2>1, <2>2 DEF KeysDown, Applied, KeyEvent
<1> QED
  BY <1>1, <1>3, <1>4 DEF DeskKeysInv, QueuesOK, OnTheirWay, EmergencyStops

\* CaptureKey moves a press or a release from one queue to the next.
LEMMA CaptureKeys == DeskKeysInv /\ (SuppressMove \/ CaptureMove \/ CaptureKey) => DeskKeysInv'
<1> SUFFICES ASSUME DeskKeysInv, SuppressMove \/ CaptureMove \/ CaptureKey PROVE DeskKeysInv'
  OBVIOUS
<1> DEFINE h == Head(toldEvents)
           S == After(rxInput, pressedKeys)
<1>1. /\ toldEvents # <<>> /\ toldEvents' = Tail(toldEvents)
      /\ UNCHANGED <<pressedKeys, pc, down>>
  BY DEF SuppressMove, CaptureMove, CaptureKey, Told, handVars, vars, parkVars, Capture
<1>2. /\ ToldOK(h)
      /\ \E T : toldEvents' \in Seq(T) /\ \A d \in T : ToldOK(d)
      /\ After(Coded(toldEvents), S) = After(Coded(toldEvents'), Applied(CodeOfTold(h), S))
  BY <1>1, LessTold, AfterType DEF DeskKeysInv
<1>3. /\ \E T : rxInput' \in Seq(T) /\ \A d \in T : KeyOK(d)
      /\ After(rxInput', pressedKeys) = Applied(CodeOfTold(h), S)
  <2>1. CASE SuppressMove
    BY <2>1, CodedEvent DEF SuppressMove, Told, vars, inputVars, DeskKeysInv, QueuesOK
  <2>2. CASE CaptureMove
    <3>1. PICK d : rxInput' = Append(rxInput, Move(d)) /\ h.type # "Key"
      BY <2>2 DEF CaptureMove, Capture, Told
    <3>2. KeyOK(Move(d)) /\ Applied(Move(d), S) = S
      BY DEF KeyOK, Move, Applied
    <3> QED
      BY <3>1, <3>2, CodedEvent, MoreCaptured DEF DeskKeysInv
  <2>3. CASE CaptureKey
    <3>1. h.type = "Key" /\ rxInput' = Append(rxInput, KeyEvent(CodeOfKey(h.key), h.pressed))
      BY <2>3 DEF CaptureKey, Capture, Told
    <3>2. KeyOK(CodeOfTold(h)) /\ CodeOfTold(h) = KeyEvent(CodeOfKey(h.key), h.pressed)
      BY <1>2, <3>1, CodedEvent
    <3> QED
      BY <3>1, <3>2, MoreCaptured DEF DeskKeysInv
  <2> QED
    BY <2>1, <2>2, <2>3
<1> QED
  BY <1>1, <1>2, <1>3 DEF DeskKeysInv, QueuesOK, OnTheirWay, KeysDown, EmergencyStops

-----------------------------------------------------------------------------
\* The loop.

\* A movement that is handled, with or without a park.
LEMMA MoveHandledKeys ==
  ASSUME DeskKeysInv, TakeInput("Move"), UNCHANGED <<pressedKeys, down>>,
         \/ UNCHANGED toldEvents
         \/ \E at, own : toldEvents' = Append(toldEvents, MovedTo(at, own))
  PROVE  DeskKeysInv'
<1> DEFINE S == After(rxInput, pressedKeys)
<1>1. pc = "select" /\ rxInput # <<>> /\ rxInput' = Tail(rxInput) /\ Head(rxInput).type # "Key"
  BY DEF TakeInput
<1>2. /\ \E T : rxInput' \in Seq(T) /\ \A e \in T : KeyOK(e)
      /\ After(rxInput', pressedKeys) = S
  <2>1. Applied(Head(rxInput), pressedKeys) = pressedKeys
    BY <1>1 DEF Applied
  <2> QED
    BY <1>1, <2>1, LessCaptured DEF DeskKeysInv
<1>3. /\ \E T : toldEvents' \in Seq(T) /\ \A e \in T : ToldOK(e)
      /\ After(Coded(toldEvents'), S) = After(Coded(toldEvents), S)
  <2>1. CASE UNCHANGED toldEvents
    BY <2>1 DEF DeskKeysInv, QueuesOK
  <2>2. CASE \E at, own : toldEvents' = Append(toldEvents, MovedTo(at, own))
    <3>1. QueuesOK /\ S \in SUBSET Keys
      BY AfterType DEF DeskKeysInv
    <3>2. \E at, own : toldEvents' = Append(toldEvents, MovedTo(at, own))
      BY <2>2
    <3>3. PICK q, R : q = toldEvents' /\ R = S
      OBVIOUS
    <3>4. /\ \E T : q \in Seq(T) /\ \A e \in T : ToldOK(e)
          /\ After(Coded(q), R) = After(Coded(toldEvents), R)
      BY <3>1, <3>2, <3>3, MoveTold
    <3> QED
      BY <3>3, <3>4
  <2> QED
    BY <2>1, <2>2
<1>4. OnTheirWay' = KeysDown'
  BY <1>1, <1>2, <1>3 DEF DeskKeysInv, OnTheirWay, KeysDown
<1>5. EmergencyStops'
  BY <1>1 DEF DeskKeysInv, EmergencyStops
<1> QED
  BY <1>2, <1>3, <1>4, <1>5 DEF DeskKeysInv, QueuesOK

LEMMA HandleMoveKeys ==
  DeskKeysInv /\ (StayLocal \/ GoRemote \/ ComeBack \/ (RemainRemote /\ UNCHANGED deskVars)) => DeskKeysInv'
<1> SUFFICES ASSUME DeskKeysInv,
                    StayLocal \/ GoRemote \/ ComeBack \/ (RemainRemote /\ UNCHANGED deskVars)
             PROVE  DeskKeysInv'
  OBVIOUS
<1>1. CASE StayLocal \/ (RemainRemote /\ UNCHANGED deskVars)
  <2>1. TakeInput("Move") /\ UNCHANGED <<pressedKeys, down, toldEvents>>
    BY <1>1 DEF StayLocal, RemainLocal, RemainRemote, deskVars, handVars
  <2> QED
    BY <2>1, MoveHandledKeys
<1>2. CASE GoRemote \/ ComeBack
  <2>1. TakeInput("Move") /\ UNCHANGED <<pressedKeys, down>>
    BY <1>2 DEF GoRemote, ComeBack, EnterRemote, ExitRemote, SetPosition
  <2>2. UNCHANGED toldEvents \/ toldEvents' = Append(toldEvents, MovedTo(pointer', TRUE))
    BY <1>2 DEF GoRemote, ComeBack, SetPosition
  <2>3. UNCHANGED toldEvents \/ \E at, own : toldEvents' = Append(toldEvents, MovedTo(at, own))
    BY <2>2
  <2> QED
    BY <2>1, <2>3, MoveHandledKeys
<1> QED
  BY <1>1, <1>2

\* The loop takes a press or a release into pressedKeys.
LEMMA HandleKeyKeys == DeskKeysInv /\ HandleKey /\ UNCHANGED deskVars => DeskKeysInv'
<1> SUFFICES ASSUME DeskKeysInv, HandleKey, UNCHANGED deskVars PROVE DeskKeysInv'
  OBVIOUS
<1> DEFINE e == Head(rxInput)
<1>1. /\ pc = "select" /\ pc' = "select" /\ UNCHANGED <<down, toldEvents>>
      /\ rxInput # <<>> /\ rxInput' = Tail(rxInput) /\ e.type = "Key"
      /\ ~StopsOn(e) /\ pressedKeys' = PressedAfter(e)
  BY DEF HandleKey, TakeInput, parkVars, deskVars, handVars
<1>2. pressedKeys' = Applied(e, pressedKeys)
  BY <1>1 DEF PressedAfter, Applied
<1>3. /\ KeyOK(e)
      /\ \E T : rxInput' \in Seq(T) /\ \A d \in T : KeyOK(d)
      /\ After(rxInput, pressedKeys) = After(rxInput', pressedKeys')
  BY <1>1, <1>2, LessCaptured DEF DeskKeysInv
<1>4. pressedKeys' \subseteq Keys
  BY <1>1, <1>3 DEF DeskKeysInv, PressedAfter, KeyOK
<1>5. EmergencyStops'
  BY <1>1, <1>3 DEF DeskKeysInv, EmergencyStops, StopsOn, PressedAfter, KeyOK
<1>6. OnTheirWay' = KeysDown'
  BY <1>1, <1>3 DEF DeskKeysInv, OnTheirWay, KeysDown
<1> QED
  BY <1>1, <1>3, <1>4, <1>5, <1>6 DEF DeskKeysInv, QueuesOK

LEMMA EmergencyStopKeys == DeskKeysInv /\ EmergencyStop /\ UNCHANGED deskVars => DeskKeysInv'
<1> SUFFICES ASSUME DeskKeysInv, EmergencyStop, UNCHANGED deskVars PROVE DeskKeysInv'
  OBVIOUS
<1> DEFINE e == Head(rxInput)
<1>1. /\ pc' = "done" /\ UNCHANGED <<down, toldEvents>>
      /\ rxInput # <<>> /\ rxInput' = Tail(rxInput) /\ e.type = "Key"
      /\ pressedKeys' = PressedAfter(e)
  BY DEF EmergencyStop, TakeInput, deskVars, handVars
<1>2. KeyOK(e) /\ \E T : rxInput' \in Seq(T) /\ \A d \in T : KeyOK(d)
  BY <1>1, LessCaptured DEF DeskKeysInv
<1>3. pressedKeys' \subseteq Keys
  BY <1>1, <1>2 DEF DeskKeysInv, PressedAfter, KeyOK
<1> QED
  BY <1>1, <1>2, <1>3 DEF DeskKeysInv, QueuesOK, EmergencyStops

\* Whatever takes no input and says nothing of the keys.
LEMMA OtherKeys ==
  DeskKeysInv /\ (\/ EventsEnded /\ UNCHANGED deskVars
              \/ Unpark \/ HearClosed \/ SessionSteps \/ UNCHANGED allVars) => DeskKeysInv'
<1> SUFFICES ASSUME DeskKeysInv, \/ EventsEnded /\ UNCHANGED deskVars
                             \/ Unpark \/ HearClosed \/ SessionSteps \/ UNCHANGED allVars
             PROVE  DeskKeysInv'
  OBVIOUS
<1>1. UNCHANGED <<rxInput, pressedKeys, down, toldEvents>>
  BY DEF EventsEnded, Unpark, ParkEnds, HearClosed, HandleClosed, SessionSteps, WriterTakes,
         SessionCloses, TakeEvent, inputVars, deskVars, handVars, allVars, vars
<1>2. pc' # "done" => pc # "done"
  BY DEF EventsEnded, Unpark, ParkEnds, HearClosed, HandleClosed, SessionSteps, WriterTakes,
         SessionCloses, TakeEvent, parkVars, allVars, vars
<1> QED
  BY <1>1, <1>2 DEF DeskKeysInv, QueuesOK, OnTheirWay, KeysDown, EmergencyStops

LEMMA DeskKeysStep ==
  ASSUME HandKeys \subseteq TableKeys
  PROVE  DeskKeysInv /\ [NextDesk]_allVars => DeskKeysInv'
<1> SUFFICES ASSUME DeskKeysInv, [NextDesk]_allVars PROVE DeskKeysInv'
  OBVIOUS
<1>1. CASE \E d \in HandSteps : HandMoves(d)
  BY <1>1, HandMovesKeys
<1>2. CASE \E k \in HandKeys, pressed \in BOOLEAN : HandTypes(k, pressed)
  BY <1>2, HandTypesKeys
<1>3. CASE SuppressMove \/ CaptureMove \/ CaptureKey
  BY <1>3, CaptureKeys
<1>4. CASE StayLocal \/ GoRemote \/ ComeBack
  BY <1>4, HandleMoveKeys
<1>5. CASE OtherLoopStep
  BY <1>5, HandleMoveKeys, HandleKeyKeys, EmergencyStopKeys, OtherKeys DEF OtherLoopStep
<1>6. CASE Unpark \/ HearClosed \/ SessionSteps \/ UNCHANGED allVars
  BY <1>6, OtherKeys
<1> QED
  BY <1>1, <1>2, <1>3, <1>4, <1>5, <1>6 DEF NextDesk

LEMMA KeysInvariant ==
  ASSUME HandKeys \subseteq TableKeys PROVE SpecDesk => []DeskKeysInv
<1>1. DeskKeysInv /\ [NextDesk]_allVars => DeskKeysInv'
  BY DeskKeysStep
<1> QED
  BY KeysInit, <1>1, PTL DEF SpecDesk

\* Once everything is captured and handled, what the loop holds for pressed is
\* what is down: nothing is left on the way.
LEMMA KeysWhenDrained == DeskKeysInv => PressedKeysAreDown
<1> SUFFICES ASSUME DeskKeysInv, Drained PROVE pressedKeys = KeysDown
  BY DEF PressedKeysAreDown, KeysDown
<1>1. toldEvents = <<>> /\ rxInput = <<>> /\ pc = "select"
  BY DEF Drained
<1>2. Coded(<<>>) = <<>>
  BY CodedType, EmptySeq
<1> QED
  BY <1>1, <1>2, AfterEmpty DEF DeskKeysInv, OnTheirWay

\* PressedKeysAreDown: spawn_capture, rdev_key_to_canon and the loop lose no
\* press and no release, whatever the hands, the pointer, the OS and the peer
\* do, for any set of keys of the tables.
THEOREM DeskPressedKeysAreDown ==
  ASSUME HandKeys \subseteq TableKeys PROVE SpecDesk => []PressedKeysAreDown
<1>1. SpecDesk => []DeskKeysInv
  BY KeysInvariant
<1> QED
  BY <1>1, KeysWhenDrained, PTL

\* CombinationStops: with the keys of emergency_stop down, and everything the
\* OS told handled, the loop of run_controller does not go on, for every
\* combination and whatever else is typed before or between.
THEOREM DeskCombinationStops ==
  ASSUME HandKeys \subseteq TableKeys PROVE SpecDesk => []CombinationStops
<1>1. SpecDesk => []DeskKeysInv
  BY KeysInvariant
<1>2. DeskKeysInv => CombinationStops
  BY KeysWhenDrained
     DEF DeskKeysInv, EmergencyStops, CombinationStops, PressedKeysAreDown, Drained
<1> QED
  BY <1>1, <1>2, PTL

-----------------------------------------------------------------------------

\* The longest of the steps of the hand is as long as any.
LEMMA LongestIs ==
  \A axis \in {1, 2} : /\ Longest(axis) \in Nat
                       /\ \A d \in HandSteps : Abs(d[axis]) <= Longest(axis)
<1> TAKE axis \in {1, 2}
<1> DEFINE f == [d \in HandSteps |-> Abs(d[axis])]
           S == {Abs(d[axis]) : d \in HandSteps}
<1>1. \A d \in HandSteps : d[axis] \in Int
  BY DeskAssumption
<1>2. \A d \in HandSteps : f[d] = Abs(d[axis]) /\ f[d] \in Nat
  BY <1>1 DEF Abs
<1>3. f \in [HandSteps -> Int]
  BY <1>2
<1>4. IsFiniteSet(HandSteps) /\ HandSteps # {}
  BY DeskAssumption
<1>5. PICK s \in HandSteps : \A t \in HandSteps : f[t] <= f[s]
  <2> HIDE DEF f
  <2> QED
    BY <1>3, <1>4, GreatestExists
<1>6. f[s] \in S /\ \A y \in S : f[s] >= y
  BY <1>2, <1>5
<1>7. Max(S) \in S /\ \A y \in S : Max(S) >= y
  <2> HIDE DEF S, f
  <2> QED
    BY <1>6 DEF Max
<1>8. Longest(axis) = Max(S)
  BY DEF Longest
<1>9. S \subseteq Nat
  BY <1>2
<1> QED
  BY <1>1, <1>7, <1>8, <1>9

-----------------------------------------------------------------------------
\* What the OS has told, as a trail of the pointer.

Places == Int \X Int
Known  == Places \cup {Unknown}
Guesses == SUBSET Known

ToldKeys   == {KeyMoved(k, p) : k \in HandKeys, p \in BOOLEAN}
HandTells  == {MovedTo(at, FALSE) : at \in Places} \cup ToldKeys
AllTells   == HandTells \cup {MovedTo(at, TRUE) : at \in Places}

\* Is b where the hand may have pushed the mouse from a? r: does the OS report
\* positions out of the screen?
Span(r, axis) == IF r THEN 2 * Longest(axis) ELSE Longest(axis)
Close(r, a, b) == Abs(b[1] - a[1]) <= Span(r, 1) /\ Abs(b[2] - a[2]) <= Span(r, 2)

\* Where the capture thread may have been told that the pointer is, if it
\* was in A: nowhere, once a movement the hand has not made is told for its.
Followed(r, A, e) ==
  IF e.type = "Key" THEN A
  ELSE IF \E l \in A : e.own \/ l = Unknown \/ Close(r, l, e.at) THEN {e.at}
  ELSE {}

Follow(r) == [p \in Guesses \X AllTells |-> Followed(r, p[1], p[2])]
Trail(r, A, q) == Walk(Guesses, Follow(r), A, q)

\* What the OS tells of: a key the hand has, or a position of the pointer.
LEMMA TellShapes ==
  ASSUME NEW e \in AllTells
  PROVE  \/ /\ e.type = "Key" /\ e.key \in HandKeys /\ e.pressed \in BOOLEAN
            /\ e \in HandTells
         \/ /\ e.type = "MouseMove" /\ e.at \in Places /\ e.own \in BOOLEAN
            /\ ~e.own => e \in HandTells
<1>1. CASE e \in ToldKeys
  <2>1. PICK k \in HandKeys, p \in BOOLEAN : e = KeyMoved(k, p)
    BY <1>1 DEF ToldKeys
  <2> QED
    BY <1>1, <2>1 DEF KeyMoved, HandTells
<1>2. CASE e \notin ToldKeys
  <2>1. PICK at \in Places, own \in BOOLEAN : e = MovedTo(at, own)
    BY <1>2 DEF AllTells, HandTells
  <2>2. e.type = "MouseMove" /\ e.at = at /\ e.own = own
    BY <2>1 DEF MovedTo
  <2>3. ~own => e \in HandTells
    <3> SUFFICES ASSUME ~own PROVE e \in HandTells
      OBVIOUS
    <3>1. own = FALSE
      OBVIOUS
    <3> QED
      BY <2>1, <3>1 DEF HandTells
  <2> QED
    BY <2>2, <2>3
<1> QED
  BY <1>1, <1>2

\* Following a trail leads from guesses to guesses.
LEMMA FollowedType ==
  ASSUME NEW r, NEW A \in Guesses, NEW e \in AllTells
  PROVE  Followed(r, A, e) \in Guesses
BY TellShapes DEF Followed, Known, Guesses

LEMMA FollowType == \A r : Follow(r) \in Ways(Guesses, AllTells)
<1> HIDE DEF Guesses, AllTells
<1> QED
  BY FollowedType DEF Follow, Ways

LEMMA TrailType ==
  ASSUME NEW r, NEW A \in Guesses, NEW q \in Seq(AllTells)
  PROVE  Trail(r, A, q) \in Guesses
BY FollowType, WalkType DEF Trail

\* Nothing told leads nowhere.
LEMMA TrailStart ==
  ASSUME NEW r, NEW A \in Guesses
  PROVE  Trail(r, A, <<>>) = A
BY FollowType, WalkNowhere DEF Trail

\* One thing more is told: the trail goes on from its end.
LEMMA TrailMore ==
  ASSUME NEW r, NEW A \in Guesses, NEW q \in Seq(AllTells), NEW e \in AllTells
  PROVE  Trail(r, A, Append(q, e)) = Followed(r, Trail(r, A, q), e)
<1>1. PICK B \in Guesses : B = Walk(Guesses, Follow(r), A, q)
  BY TrailType DEF Trail
<1>2. PICK w : w = Append(q, e)
  OBVIOUS
<1>3. Walk(Guesses, Follow(r), A, w) = Follow(r)[<<B, e>>]
  BY <1>1, <1>2, FollowType, WalkAppend
<1>4. Follow(r)[<<B, e>>] = Followed(r, B, e)
  BY DEF Follow
<1> QED
  BY <1>1, <1>2, <1>3, <1>4 DEF Trail

\* The first thing told is taken: the trail begins after it.
LEMMA TrailLess ==
  ASSUME NEW r, NEW A \in Guesses, NEW q \in Seq(AllTells), q # <<>>
  PROVE  Trail(r, A, q) = Trail(r, Followed(r, A, Head(q)), Tail(q))
<1>1. PICK e \in AllTells : e = Head(q)
  BY Queue
<1>2. PICK t : t = Tail(q)
  OBVIOUS
<1>3. Follow(r)[<<A, e>>] = Followed(r, A, e)
  BY DEF Follow
<1>4. Walk(Guesses, Follow(r), A, q) = Walk(Guesses, Follow(r), Follow(r)[<<A, e>>], t)
  BY <1>1, <1>2, FollowType, WalkHead
<1> QED
  BY <1>1, <1>2, <1>3, <1>4 DEF Trail

\* A trail that is lost stays lost.
LEMMA TrailLost ==
  ASSUME NEW r, NEW q \in Seq(AllTells)
  PROVE  Trail(r, {}, q) = {}
<1>n. PICK n \in Nat : n = Len(q)
  BY LenProperties
<1>1. PICK A \in Guesses : A = {}
  BY DEF Guesses
<1>2. PICK h : /\ IsWalk(Guesses, Follow(r), A, q, h)
               /\ Walk(Guesses, Follow(r), A, q) = h[Len(q)]
  BY FollowType, WalkExists
<1> DEFINE P == {i \in 0 .. n : h[i] = {}}
<1>3. 0 \in P
  BY <1>1, <1>2 DEF IsWalk
<1>4. ASSUME NEW i \in 1 .. n, i - 1 \in P PROVE i \in P
  <2>1. h[i - 1] = {}
    BY <1>4
  <2>2. h[i] = Follow(r)[<<h[i - 1], q[i]>>]
    BY <1>n, <1>2 DEF IsWalk
  <2>3. PICK e \in AllTells : e = q[i]
    BY <1>n, ElementOfSeq
  <2>4. Follow(r)[<<A, e>>] = Followed(r, A, e)
    BY DEF Follow
  <2>5. Followed(r, A, e) = {}
    BY <1>1 DEF Followed
  <2> QED
    BY <1>1, <2>1, <2>2, <2>3, <2>4, <2>5
<1>5. \A i \in 1 .. n : i - 1 \in P => i \in P
  BY <1>4
<1> HIDE DEF P
<1>6. \A i \in 0 .. n : i \in P
  BY <1>3, <1>5, InductionTo
<1>7. n \in P
  BY <1>6
<1> QED
  BY <1>n, <1>1, <1>2, <1>7 DEF P, Trail

-----------------------------------------------------------------------------

\* The sum of the movements in a queue, as a walk over the plane.
Plus == [p \in Places \X InputEvents |-> PlusMove(p[1], p[2])]
Still == <<0, 0>>
SumOf(q) == Walk(Places, Plus, Still, q)

\* The sum of no movement is a place of the plane.
LEMMA StillIsPlace == Still \in Places
BY DEF Still, Places

LEMMA PlusMoveType ==
  ASSUME NEW at \in Places, NEW e \in InputEvents
  PROVE  PlusMove(at, e) \in Places
BY EventShapes DEF PlusMove, Places

LEMMA PlusType == Plus \in Ways(Places, InputEvents)
<1> HIDE DEF Places, InputEvents
<1> QED
  BY PlusMoveType DEF Plus, Ways

\* The fold of the source is the walk.
LEMMA FoldOfMoves ==
  ASSUME NEW s \in Seq(InputEvents)
  PROVE  FoldLeft(PlusMove, Still, s) = SumOf(s)
<1> USE StillIsPlace
<1> HIDE DEF Places, Still, InputEvents
<1>n. PICK n \in Nat : n = Len(s)
  BY LenProperties
<1>h. PICK h : IsWalk(Places, Plus, Still, s, h) /\ Walk(Places, Plus, Still, s) = h[Len(s)]
  BY PlusType, WalkExists
<1>1. (\A i \in 1 .. n : s[i] \in InputEvents) /\ DOMAIN s = 1 .. n
  BY <1>n, LenProperties, ElementOfSeq
<1> DEFINE G == [p \in Places \X (1 .. n) |-> PlusMove(p[1], s[p[2]])]
           IsIt(it) == it = [d \in SUBSET (1 .. n) |->
                         IF d = {} THEN Still ELSE PlusMove(it[d \ {Max(d)}], s[Max(d)])]
           chosen == CHOOSE it : IsIt(it)
<1>2. G \in Steps(Places, n)
  BY <1>1, PlusMoveType DEF Steps
<1>4. FoldLeft(PlusMove, Still, s) = chosen[1 .. n]
  <2>1. FoldLeft(PlusMove, Still, s) = (CHOOSE it : it = [d \in SUBSET DOMAIN s |->
              IF d = {} THEN Still ELSE PlusMove(it[d \ {Max(d)}], s[Max(d)])])[DOMAIN s]
    BY DEF FoldLeft, MapThenFoldSet
  <2> QED
    BY <1>1, <2>1
<1>5. \E it : IsIt(it)
  <2> HIDE DEF G
  <2>1. PICK it : IsFold(Places, n, Still, G, it)
    BY <1>2, FoldDefined
  <2>2. ASSUME NEW d \in SUBSET (1 .. n)
        PROVE  it[d] = IF d = {} THEN Still ELSE PlusMove(it[d \ {Max(d)}], s[Max(d)])
    <3>1. CASE d = {}
      BY <2>1, <3>1 DEF IsFold
    <3>2. CASE d # {}
      <4>1. Max(d) \in 1 .. n
        BY <3>2, MaxOfPlaces
      <4>2. it[d \ {Max(d)}] \in Places /\ it[d] = G[<<it[d \ {Max(d)}], Max(d)>>]
        BY <2>1, <3>2 DEF IsFold
      <4> QED
        BY <3>2, <4>1, <4>2 DEF G
    <3> QED
      BY <3>1, <3>2
  <2>3. it = [d \in SUBSET (1 .. n) |-> it[d]]
    BY <2>1 DEF IsFold
  <2> QED
    BY <2>2, <2>3
<1>6. \A d \in SUBSET (1 .. n) : chosen[d] =
        IF d = {} THEN Still ELSE PlusMove(chosen[d \ {Max(d)}], s[Max(d)])
  <2>1. IsIt(chosen)
    BY <1>5
  <2> HIDE DEF chosen
  <2> QED
    BY <2>1
<1>7. \A i \in 1 .. n : h[i] = PlusMove(h[i - 1], s[i])
  <2> TAKE i \in 1 .. n
  <2>1. i - 1 \in 0 .. Len(s)
    BY <1>n
  <2>2. h[i - 1] \in Places /\ s[i] \in InputEvents /\ h[i] = Plus[<<h[i - 1], s[i]>>]
    BY <1>n, <1>1, <1>h, <2>1 DEF IsWalk
  <2> QED
    BY <2>2 DEF Plus
<1> HIDE DEF chosen
<1>8. chosen[{}] = h[0]
  BY <1>6, <1>h DEF IsWalk
<1>9. ASSUME NEW i \in 1 .. n, chosen[1 .. (i - 1)] = h[i - 1] PROVE chosen[1 .. i] = h[i]
  <2>1. /\ 1 .. i \in SUBSET (1 .. n) /\ 1 .. i # {}
        /\ Max(1 .. i) = i /\ (1 .. i) \ {i} = 1 .. (i - 1)
    BY MaxOfPrefix
  <2>2. chosen[1 .. i] = PlusMove(chosen[1 .. (i - 1)], s[i])
    BY <1>6, <2>1
  <2> QED
    BY <1>7, <1>9, <2>2
<1>10. chosen[1 .. n] = h[n]
  BY <1>8, <1>9, FoldAlong
<1> QED
  BY <1>n, <1>4, <1>h, <1>10 DEF SumOf

LEMMA SumType ==
  ASSUME NEW q \in Seq(InputEvents)
  PROVE  SumOf(q) \in Places
BY PlusType, StillIsPlace, WalkType DEF SumOf

\* A movement is captured: the sum goes on from its end.
LEMMA SumMore ==
  ASSUME NEW q \in Seq(InputEvents), NEW e \in InputEvents
  PROVE  SumOf(Append(q, e)) = PlusMove(SumOf(q), e)
<1>1. PICK mid \in Places : mid = Walk(Places, Plus, Still, q)
  BY SumType DEF SumOf
<1>2. PICK w : w = Append(q, e)
  OBVIOUS
<1>3. Walk(Places, Plus, Still, w) = Plus[<<mid, e>>]
  BY <1>1, <1>2, PlusType, StillIsPlace, WalkAppend
<1>4. Plus[<<mid, e>>] = PlusMove(mid, e)
  BY DEF Plus
<1> QED
  BY <1>1, <1>2, <1>3, <1>4 DEF SumOf

\* Wherever the walk starts, it goes as far.
LEMMA SumFrom ==
  ASSUME NEW at \in Places, NEW q \in Seq(InputEvents)
  PROVE  Walk(Places, Plus, at, q) = <<at[1] + SumOf(q)[1], at[2] + SumOf(q)[2]>>
<1>n. PICK n \in Nat : n = Len(q)
  BY LenProperties
<1>1. PICK h : IsWalk(Places, Plus, Still, q, h) /\ Walk(Places, Plus, Still, q) = h[Len(q)]
  BY PlusType, StillIsPlace, WalkExists
<1>2. /\ h \in [0 .. n -> Places] /\ h[0] = Still
      /\ \A i \in 1 .. n : h[i] = Plus[<<h[i - 1], q[i]>>]
  BY <1>n, <1>1 DEF IsWalk
<1> DEFINE k == [i \in 0 .. n |-> <<at[1] + h[i][1], at[2] + h[i][2]>>]
<1>3. \A i \in 0 .. n : h[i] \in Places
  BY <1>2
<1>4. k \in [0 .. n -> Places]
  BY <1>3 DEF Places
<1>5. k[0] = at
  BY <1>2 DEF Still, Places
<1>6. ASSUME NEW i \in 1 .. n PROVE k[i] = Plus[<<k[i - 1], q[i]>>]
  <2>1. PICK e \in InputEvents : e = q[i]
    BY <1>n, ElementOfSeq
  <2>2. i - 1 \in 0 .. n /\ i \in 0 .. n
    OBVIOUS
  <2>3. PICK u \in Places : u = h[i - 1]
    BY <1>3, <2>2
  <2>4. PICK v \in Places : v = k[i - 1]
    BY <1>4, <2>2
  <2>5. h[i] = PlusMove(u, e)
    BY <1>2, <2>1, <2>3 DEF Plus
  <2>6. Plus[<<v, e>>] = PlusMove(v, e)
    BY DEF Plus
  <2>7. v = <<at[1] + u[1], at[2] + u[2]>>
    BY <2>2, <2>3, <2>4
  <2>8. k[i] = <<at[1] + h[i][1], at[2] + h[i][2]>>
    BY <2>2
  <2>9. PlusMove(v, e) = <<at[1] + PlusMove(u, e)[1], at[2] + PlusMove(u, e)[2]>>
    <3>1. CASE e.type = "Move"
      <4>1. e.dx \in Int /\ e.dy \in Int
        BY <3>1, EventShapes
      <4> QED
        BY <2>7, <3>1, <4>1, SMTT(40) DEF PlusMove, Places
    <3>2. CASE e.type # "Move"
      BY <2>7, <3>2 DEF PlusMove
    <3> QED
      BY <3>1, <3>2
  <2> QED
    BY <2>1, <2>4, <2>5, <2>6, <2>8, <2>9
<1>7. IsWalk(Places, Plus, at, q, k)
  BY <1>n, <1>4, <1>5, <1>6 DEF IsWalk
<1>8. n \in 0 .. n
  OBVIOUS
<1>9. k[n] = <<at[1] + h[n][1], at[2] + h[n][2]>>
  BY <1>8
<1> HIDE DEF k
<1>10. Walk(Places, Plus, at, q) = k[Len(q)]
  BY <1>7, PlusType, WalkIs
<1> QED
  BY <1>n, <1>1, <1>9, <1>10 DEF SumOf

\* The first movement is taken: the sum is the rest, and that one.
LEMMA SumLess ==
  ASSUME NEW q \in Seq(InputEvents), q # <<>>
  PROVE  LET by == PlusMove(Still, Head(q))
         IN SumOf(q) = <<by[1] + SumOf(Tail(q))[1], by[2] + SumOf(Tail(q))[2]>>
<1>1. PICK e \in InputEvents : e = Head(q)
  BY Queue
<1>2. PICK t \in Seq(InputEvents) : t = Tail(q)
  BY Queue
<1>3. PICK by \in Places : by = PlusMove(Still, e)
  BY PlusMoveType, StillIsPlace
<1>4. Plus[<<Still, e>>] = by
  BY <1>3, StillIsPlace DEF Plus
<1>5. Walk(Places, Plus, Still, q) = Walk(Places, Plus, Plus[<<Still, e>>], t)
  BY <1>1, <1>2, PlusType, StillIsPlace, WalkHead
<1>6. Walk(Places, Plus, by, t) = <<by[1] + SumOf(t)[1], by[2] + SumOf(t)[2]>>
  BY SumFrom
<1> QED
  BY <1>1, <1>2, <1>3, <1>4, <1>5, <1>6 DEF SumOf

-----------------------------------------------------------------------------

\* The inductive invariant of the pointer. What is captured is what the hand
\* can do, and there is nothing to capture before a position is known.
Captured(r, l) ==
  {e \in InputEvents : e.type = "Move" =>
     l # Unknown /\ Abs(e.dx) <= Span(r, 1) /\ Abs(e.dy) <= Span(r, 2)}

\* set_position is told of only while the capture ignores it.
Tells(suppressed) == IF suppressed THEN AllTells ELSE HandTells

\* Is the pointer at b where it is told to be at a?
Nearby(r, a, b) ==
  \/ a = Unknown
  \/ IF r THEN Abs(b[1] - a[1]) <= Longest(1) /\ Abs(b[2] - a[2]) <= Longest(2) ELSE a = b

OnTrail(r, l, q, at) ==
  /\ Trail(r, {l}, q) # {}
  /\ \A a \in Trail(r, {l}, q) : Nearby(r, a, at)

HandInv ==
  /\ raw \in BOOLEAN /\ pointer \in Positions /\ down \subseteq HandKeys
  /\ last \in Known /\ pushed \in Int

PointerInv ==
  /\ HandInv
  /\ toldEvents \in Seq(Tells(suppress))
  /\ rxInput \in Seq(Captured(raw, last))
  /\ OnTrail(raw, last, toldEvents, pointer)
  /\ IsRemote => last # Unknown

DeskInv == IInv /\ PointerInv

\* Where the places, the positions and the guesses lie.
LEMMA SomePlaces ==
  /\ Unknown \notin Places /\ Positions \subseteq Places /\ {Unknown} \in Guesses
  /\ \A l \in Known : {l} \in Guesses
  /\ HandTells \subseteq AllTells /\ \A s : Tells(s) \subseteq AllTells
<1>1. Unknown \notin Places
  BY DeskAssumption DEF Places
<1>2. Positions \subseteq Places
  BY DEF Positions, Pixels, Places
<1>3. \A l \in Known : {l} \in Guesses
  BY DEF Guesses
<1>4. HandTells \subseteq AllTells /\ \A s : Tells(s) \subseteq AllTells
  BY DEF AllTells, Tells
<1> QED
  BY <1>1, <1>2, <1>3, <1>4 DEF Known

\* One axis of a movement of the hand: from c by d, on a screen of n + 1 pixels.
LEMMA HandReach ==
  ASSUME NEW n \in Nat, NEW c \in 0 .. n, NEW d \in Int, NEW far \in Nat, Abs(d) <= far,
         NEW on, on = IF c + d < 0 THEN 0 ELSE IF c + d > n THEN n ELSE c + d
  PROVE  /\ on \in 0 .. n /\ Abs(on - c) <= far /\ Abs(on - (c + d)) <= far
         /\ \A a \in Int : Abs(c - a) <= far => Abs(c + d - a) <= 2 * far
BY DEF Abs

\* A key that is told of leaves the trail alone, a movement goes on with it.
LEMMA KeyTold ==
  ASSUME NEW r, NEW l \in Known, NEW q \in Seq(AllTells), NEW at, OnTrail(r, l, q, at),
         NEW e \in AllTells, e.type = "Key"
  PROVE  OnTrail(r, l, Append(q, e), at)
<1>1. {l} \in Guesses
  BY SomePlaces
<1>2. Trail(r, {l}, Append(q, e)) = Followed(r, Trail(r, {l}, q), e)
  BY <1>1, TrailMore
<1>3. Followed(r, Trail(r, {l}, q), e) = Trail(r, {l}, q)
  BY DEF Followed
<1> QED
  BY <1>2, <1>3 DEF OnTrail

\* A position is told of that is near the trail, or is the loop's own.
LEMMA PlaceTold ==
  ASSUME NEW r, NEW l \in Known, NEW q \in Seq(AllTells), NEW at, OnTrail(r, l, q, at),
         NEW e \in AllTells, e.type = "MouseMove",
         e.own \/ \A a \in Known : Nearby(r, a, at) => a = Unknown \/ Close(r, a, e.at),
         NEW to, Nearby(r, e.at, to)
  PROVE  OnTrail(r, l, Append(q, e), to)
<1>1. {l} \in Guesses
  BY SomePlaces
<1>2. PICK A \in Guesses : A = Trail(r, {l}, q)
  BY <1>1, TrailType
<1>3. Trail(r, {l}, Append(q, e)) = Followed(r, A, e)
  BY <1>1, <1>2, TrailMore
<1>4. PICK a \in A : Nearby(r, a, at)
  BY <1>2 DEF OnTrail
<1>5. a \in Known
  BY DEF Guesses
<1>6. Followed(r, A, e) = {e.at}
  BY <1>4, <1>5 DEF Followed
<1> QED
  BY <1>3, <1>6 DEF OnTrail

\* The capture thread takes what it was told.
LEMMA TrailTaken ==
  ASSUME NEW r, NEW l \in Known, NEW q \in Seq(AllTells), q # <<>>, NEW at,
         OnTrail(r, l, q, at)
  PROVE  /\ Head(q).type = "Key" => OnTrail(r, l, Tail(q), at)
         /\ Head(q).type = "MouseMove" =>
              /\ Head(q).own \/ l = Unknown \/ Close(r, l, Head(q).at)
              /\ OnTrail(r, Head(q).at, Tail(q), at)
<1>1. PICK e \in AllTells : e = Head(q)
  BY Queue
<1>2. PICK t \in Seq(AllTells) : t = Tail(q)
  BY Queue
<1>3. {l} \in Guesses
  BY SomePlaces
<1>4. PICK A \in Guesses : A = Followed(r, {l}, e)
  BY <1>3, FollowedType
<1>5. Trail(r, {l}, q) = Trail(r, A, t)
  BY <1>1, <1>2, <1>3, <1>4, TrailLess
<1>6. CASE e.type = "Key"
  <2>1. A = {l}
    BY <1>4, <1>6 DEF Followed
  <2> QED
    BY <1>1, <1>2, <1>5, <1>6, <2>1 DEF OnTrail
<1>7. CASE e.type = "MouseMove"
  <2>1. A # {}
    BY <1>2, <1>5, TrailLost DEF OnTrail
  <2>2. A = {e.at} /\ (e.own \/ l = Unknown \/ Close(r, l, e.at))
    BY <1>4, <1>7, <2>1 DEF Followed
  <2> QED
    BY <1>1, <1>2, <1>5, <1>7, <2>2 DEF OnTrail
<1> QED
  BY <1>1, <1>6, <1>7

\* What is captured stays so when the position becomes known.
LEMMA CapturedMore ==
  ASSUME NEW r, NEW l, NEW k, k # Unknown
  PROVE  Seq(Captured(r, l)) \subseteq Seq(Captured(r, k))
<1>1. Captured(r, l) \subseteq Captured(r, k)
  BY DEF Captured
<1> QED
  BY <1>1, SeqMonotonic

\* Nothing is known of the pointer at the start.
LEMMA PointerInit == InitDesk => PointerInv
<1> SUFFICES ASSUME InitDesk PROVE PointerInv
  OBVIOUS
<1>1. HandInv
  BY DEF InitDesk, HandInv, Known
<1>2. toldEvents \in Seq(Tells(suppress)) /\ rxInput \in Seq(Captured(raw, last))
  BY EmptySeq DEF InitDesk, Init
<1>3. Trail(raw, {last}, toldEvents) = {Unknown}
  BY SomePlaces, TrailStart DEF InitDesk
<1>4. ~IsRemote
  BY DEF InitDesk, Init, IsRemote
<1> QED
  BY <1>1, <1>2, <1>3, <1>4 DEF PointerInv, OnTrail, Nearby

\* The screen has pixels.
LEMMA LocalScreen ==
  LastIndex(geom.local.width) \in Nat /\ LastIndex(geom.local.height) \in Nat
<1>1. geom.local.width \in Dim /\ geom.local.height \in Dim
  BY ControllerAssumption DEF Geometries, ScreenSize
<1> QED
  BY <1>1, LastIndexOfDim

\* The hand moves the mouse: the OS tells of a position near the pointer.
LEMMA HandMovesPointer ==
  ASSUME PointerInv, NEW d \in HandSteps, HandMoves(d)
  PROVE  PointerInv'
<1> DEFINE to == <<pointer[1] + d[1], pointer[2] + d[2]>>
<1>1. /\ UNCHANGED <<raw, down, last, suppress, rxInput, mode>>
      /\ pointer' = OnScreen(to) /\ pushed' \in Int
  BY ControllerAssumption DEF HandMoves, vars, parkVars, inputVars, coreVars, focusVars
<1>2. toldEvents' = IF raw THEN Append(toldEvents, MovedTo(to, FALSE))
                    ELSE IF pointer' = pointer THEN toldEvents
                    ELSE Append(toldEvents, MovedTo(pointer', FALSE))
  BY DEF HandMoves
<1>3. PICK w \in Nat : w = LastIndex(geom.local.width)
  BY LocalScreen
<1>4. PICK l \in Nat : l = LastIndex(geom.local.height)
  BY LocalScreen
<1>5. pointer = <<pointer[1], pointer[2]>> /\ pointer[1] \in 0 .. w /\ pointer[2] \in 0 .. l
  BY <1>3, <1>4 DEF PointerInv, HandInv, Positions, Pixels
<1>6. d[1] \in Int /\ d[2] \in Int
  BY DeskAssumption
<1>7. PICK far1 \in Nat : far1 = Longest(1) /\ Abs(d[1]) <= far1
  BY LongestIs
<1>8. PICK far2 \in Nat : far2 = Longest(2) /\ Abs(d[2]) <= far2
  BY LongestIs
<1>9. PICK x : x = Within(to[1], geom.local.width)
  OBVIOUS
<1>10. PICK y : y = Within(to[2], geom.local.height)
  OBVIOUS
<1>11. pointer' = <<x, y>>
  BY <1>1, <1>9, <1>10 DEF OnScreen
<1>12. /\ x \in 0 .. w /\ Abs(x - pointer[1]) <= far1 /\ Abs(x - to[1]) <= far1
       /\ \A a \in Int : Abs(pointer[1] - a) <= far1 => Abs(to[1] - a) <= 2 * far1
  <2>1. PICK c \in 0 .. w : c = pointer[1]
    BY <1>5
  <2>2. PICK e \in Int : e = d[1]
    BY <1>6
  <2>3. x = IF c + e < 0 THEN 0 ELSE IF c + e > w THEN w ELSE c + e
    BY <1>3, <1>9, <2>1, <2>2 DEF Within
  <2>4. Abs(e) <= far1
    BY <1>7, <2>2
  <2>5. /\ x \in 0 .. w /\ Abs(x - c) <= far1 /\ Abs(x - (c + e)) <= far1
        /\ \A a \in Int : Abs(c - a) <= far1 => Abs(c + e - a) <= 2 * far1
    BY <2>3, <2>4, HandReach
  <2>6. to[1] = c + e
    BY <2>1, <2>2
  <2> QED
    BY <2>1, <2>5, <2>6
<1>13. /\ y \in 0 .. l /\ Abs(y - pointer[2]) <= far2 /\ Abs(y - to[2]) <= far2
       /\ \A a \in Int : Abs(pointer[2] - a) <= far2 => Abs(to[2] - a) <= 2 * far2
  <2>1. PICK c \in 0 .. l : c = pointer[2]
    BY <1>5
  <2>2. PICK e \in Int : e = d[2]
    BY <1>6
  <2>3. y = IF c + e < 0 THEN 0 ELSE IF c + e > l THEN l ELSE c + e
    BY <1>4, <1>10, <2>1, <2>2 DEF Within
  <2>4. Abs(e) <= far2
    BY <1>8, <2>2
  <2>5. /\ y \in 0 .. l /\ Abs(y - c) <= far2 /\ Abs(y - (c + e)) <= far2
        /\ \A a \in Int : Abs(c - a) <= far2 => Abs(c + e - a) <= 2 * far2
    BY <2>3, <2>4, HandReach
  <2>6. to[2] = c + e
    BY <2>1, <2>2
  <2> QED
    BY <2>1, <2>5, <2>6
<1>14. to \in Places /\ pointer' \in Positions /\ pointer' \in Places
  BY <1>3, <1>4, <1>5, <1>6, <1>11, <1>12, <1>13 DEF Places, Positions, Pixels
<1>15. PICK q \in Seq(AllTells) : q = toldEvents
  BY SomePlaces, SeqMonotonic DEF PointerInv
<1>16. raw \in BOOLEAN /\ last \in Known /\ OnTrail(raw, last, q, pointer)
  BY <1>15 DEF PointerInv, HandInv
<1>17. \A at \in Places : /\ MovedTo(at, FALSE) \in AllTells
                          /\ MovedTo(at, FALSE) \in Tells(suppress)
                          /\ MovedTo(at, FALSE).type = "MouseMove"
                          /\ MovedTo(at, FALSE).at = at
  BY DEF MovedTo, HandTells, AllTells, Tells
<1>t. ASSUME NEW at \in Places, toldEvents' = Append(toldEvents, MovedTo(at, FALSE))
      PROVE  toldEvents' \in Seq(Tells(suppress))
  BY <1>t, <1>17, Queue DEF PointerInv
<1>18. /\ toldEvents' \in Seq(Tells(suppress))
       /\ OnTrail(raw, last, toldEvents', pointer')
  <2>1. CASE raw
    <3>1. PICK e \in AllTells : e = MovedTo(to, FALSE)
      BY <1>14, <1>17
    <3>2. e.type = "MouseMove" /\ e.at = to
      BY <1>14, <1>17, <3>1
    <3>3. toldEvents' = Append(q, e)
      BY <1>2, <1>15, <2>1, <3>1
    <3>4. ASSUME NEW a \in Known, Nearby(raw, a, pointer), a # Unknown
          PROVE  Close(raw, a, to)
      <4>1. a[1] \in Int /\ a[2] \in Int
        BY <3>4 DEF Known, Places
      <4>2. Abs(pointer[1] - a[1]) <= far1 /\ Abs(pointer[2] - a[2]) <= far2
        BY <1>7, <1>8, <2>1, <3>4 DEF Nearby
      <4>3. Abs(to[1] - a[1]) <= 2 * far1
        BY <1>12, <4>1, <4>2
      <4>4. Abs(to[2] - a[2]) <= 2 * far2
        BY <1>13, <4>1, <4>2
      <4> QED
        BY <1>7, <1>8, <2>1, <4>3, <4>4 DEF Close, Span
    <3>5. Nearby(raw, to, pointer')
      <4>1. pointer'[1] = x /\ pointer'[2] = y
        BY <1>11
      <4> QED
        BY <1>7, <1>8, <1>12, <1>13, <2>1, <4>1 DEF Nearby
    <3>6. OnTrail(raw, last, Append(q, e), pointer')
      <4>1. PICK at : at = pointer'
        OBVIOUS
      <4>2. Nearby(raw, e.at, at)
        BY <3>2, <3>5, <4>1
      <4>3. \A a \in Known : Nearby(raw, a, pointer) => a = Unknown \/ Close(raw, a, e.at)
        BY <3>2, <3>4
      <4>4. OnTrail(raw, last, Append(q, e), at)
        BY <1>16, <3>2, <4>2, <4>3, PlaceTold
      <4> QED
        BY <4>1, <4>4
    <3>7. toldEvents' \in Seq(Tells(suppress))
      BY <1>t, <1>2, <1>14, <2>1
    <3> QED
      BY <3>3, <3>6, <3>7
  <2>2. CASE ~raw /\ pointer' = pointer
    <3>1. toldEvents' = q
      BY <1>2, <1>15, <2>2
    <3> QED
      BY <1>15, <1>16, <2>2, <3>1 DEF PointerInv
  <2>3. CASE ~raw /\ pointer' # pointer
    <3>0. PICK at \in Places : at = pointer'
      BY <1>14
    <3>1. PICK e \in AllTells : e = MovedTo(at, FALSE)
      BY <1>17
    <3>2. e.type = "MouseMove" /\ e.at = at
      BY <1>17, <3>1
    <3>3. toldEvents' = Append(q, e)
      BY <1>2, <1>15, <2>3, <3>0, <3>1
    <3>4. ASSUME NEW a \in Known, Nearby(raw, a, pointer), a # Unknown
          PROVE  Close(raw, a, at)
      <4>1. a = pointer
        BY <2>3, <3>4 DEF Nearby
      <4>2. at[1] = x /\ at[2] = y
        BY <1>11, <3>0
      <4> QED
        BY <1>7, <1>8, <1>12, <1>13, <2>3, <4>1, <4>2 DEF Close, Span
    <3>5. Nearby(raw, e.at, at)
      BY <2>3, <3>2 DEF Nearby
    <3>6. \A a \in Known : Nearby(raw, a, pointer) => a = Unknown \/ Close(raw, a, e.at)
      BY <3>2, <3>4
    <3>7. OnTrail(raw, last, Append(q, e), at)
      BY <1>16, <3>2, <3>5, <3>6, PlaceTold
    <3>8. toldEvents' \in Seq(Tells(suppress))
      BY <1>t, <1>2, <2>3, <3>0
    <3> QED
      BY <3>0, <3>3, <3>7, <3>8
  <2> QED
    BY <2>1, <2>2, <2>3
<1> QED
  BY <1>1, <1>14, <1>18 DEF PointerInv, HandInv, IsRemote

\* The hand types: the pointer stays.
LEMMA HandTypesPointer ==
  ASSUME PointerInv, NEW k \in HandKeys, NEW pressed \in BOOLEAN, HandTypes(k, pressed)
  PROVE  PointerInv'
<1>1. UNCHANGED <<raw, last, suppress, rxInput, mode, pointer, pushed>> /\ down' \subseteq HandKeys
  BY DEF HandTypes, vars, parkVars, inputVars, coreVars, focusVars, PointerInv, HandInv
<1>0. KeyMoved(k, pressed) \in ToldKeys
  BY DEF ToldKeys
<1>2. PICK e \in HandTells : e = KeyMoved(k, pressed)
  BY <1>0 DEF HandTells
<1>3. e \in AllTells /\ e \in Tells(suppress) /\ e.type = "Key"
  BY <1>2 DEF AllTells, Tells, KeyMoved
<1>4. toldEvents' = Append(toldEvents, e)
  BY <1>2 DEF HandTypes
<1>5. PICK q \in Seq(AllTells) : q = toldEvents
  BY SomePlaces, SeqMonotonic DEF PointerInv
<1>6. OnTrail(raw, last, Append(q, e), pointer)
  <2>1. OnTrail(raw, last, q, pointer) /\ last \in Known
    BY <1>5 DEF PointerInv, HandInv
  <2> QED
    BY <1>3, <2>1, KeyTold
<1>7. toldEvents' \in Seq(Tells(suppress))
  BY <1>3, <1>4, Queue DEF PointerInv
<1> QED
  BY <1>1, <1>4, <1>5, <1>6, <1>7 DEF PointerInv, HandInv, IsRemote

\* What the capture thread sends for a movement is what the hand can do.
LEMMA DeltaIsReach ==
  ASSUME NEW r \in BOOLEAN, NEW a \in Places, NEW b \in Places, Close(r, a, b)
  PROVE  /\ <<b[1] - a[1], b[2] - a[2]>> \in Deltas
         /\ Abs(b[1] - a[1]) <= Span(r, 1) /\ Abs(b[2] - a[2]) <= Span(r, 2)
<1>1. PICK x \in Int : x = b[1] - a[1]
  BY DEF Places
<1>2. PICK y \in Int : y = b[2] - a[2]
  BY DEF Places
<1>3. PICK far1 \in Nat : far1 = Longest(1)
  BY LongestIs
<1>4. PICK far2 \in Nat : far2 = Longest(2)
  BY LongestIs
<1>5. Abs(x) <= Span(r, 1) /\ Abs(y) <= Span(r, 2)
  BY <1>1, <1>2 DEF Close
<1>6. x \in -2 * far1 .. 2 * far1 /\ y \in -2 * far2 .. 2 * far2
  BY <1>3, <1>4, <1>5 DEF Abs, Span
<1>7. (-2 * far1 .. 2 * far1) \X (-2 * far2 .. 2 * far2) \subseteq Deltas
  BY <1>3, <1>4, DeskAssumption
<1>8. <<x, y>> \in Deltas
  BY <1>6, <1>7
<1> QED
  BY <1>1, <1>2, <1>5, <1>8

\* The first position told is sent as no movement.
LEMMA NoDelta ==
  ASSUME NEW r \in BOOLEAN
  PROVE  /\ <<0, 0>> \in Deltas /\ Abs(0) <= Span(r, 1) /\ Abs(0) <= Span(r, 2)
<1>1. PICK a \in Places : a = Still
  BY StillIsPlace
<1>2. Longest(1) \in Nat /\ Longest(2) \in Nat
  BY LongestIs
<1>3. Span(r, 1) >= 0 /\ Span(r, 2) >= 0
  BY <1>2 DEF Span
<1>4. a[1] = 0 /\ a[2] = 0
  BY <1>1 DEF Still
<1>5. Close(r, a, a)
  BY <1>3, <1>4 DEF Close, Abs
<1>6. PICK b \in Places : b = a
  OBVIOUS
<1>7. Close(r, a, b)
  BY <1>5, <1>6
<1>8. <<b[1] - a[1], b[2] - a[2]>> \in Deltas
  BY <1>7, DeltaIsReach
<1>9. b[1] - a[1] = 0 /\ b[2] - a[2] = 0
  BY <1>4, <1>6
<1> QED
  BY <1>3, <1>8, <1>9 DEF Abs

\* The movement CaptureMove sends, and where it leaves the trail.
LEMMA MoveCaptured ==
  ASSUME PointerInv, CaptureMove
  PROVE  /\ last' \in Places /\ last' = Head(toldEvents).at
         /\ \E d \in Deltas : /\ d = Delta(Head(toldEvents).at)
                              /\ Move(d) \in Captured(raw, last')
                              /\ rxInput' = Append(rxInput, Move(d))
         /\ OnTrail(raw, last', toldEvents', pointer)
<1>1. /\ toldEvents # <<>> /\ toldEvents' = Tail(toldEvents) /\ ~suppress
      /\ Head(toldEvents).type = "MouseMove" /\ last' = Head(toldEvents).at
      /\ rxInput' = Append(rxInput, Move(Delta(Head(toldEvents).at)))
  BY DEF CaptureMove, Told, Capture, Move
<1>2. PICK q \in Seq(HandTells) : q = toldEvents
  BY <1>1 DEF PointerInv, Tells
<1>3. PICK e \in HandTells : e = Head(q)
  BY <1>1, <1>2, Queue
<1>4. e.type = "MouseMove" /\ e.at \in Places /\ ~e.own
  <2>0. e.type = "MouseMove"
    BY <1>1, <1>2, <1>3
  <2>1. CASE e \in ToldKeys
    <3>1. \A m \in ToldKeys : m.type = "Key"
      BY DEF ToldKeys, KeyMoved
    <3> QED
      BY <2>0, <2>1, <3>1
  <2>2. CASE \E at \in Places : e = MovedTo(at, FALSE)
    <3>1. PICK at \in Places : e = MovedTo(at, FALSE)
      BY <2>2
    <3> QED
      BY <3>1 DEF MovedTo
  <2> QED
    BY <1>3, <2>1, <2>2 DEF HandTells
<1>5. /\ last = Unknown \/ Close(raw, last, e.at)
      /\ OnTrail(raw, e.at, Tail(q), pointer)
  <2>1. q \in Seq(AllTells)
    BY <1>2, SomePlaces, SeqMonotonic
  <2>2. last \in Known /\ OnTrail(raw, last, q, pointer)
    BY <1>2 DEF PointerInv, HandInv
  <2> QED
    BY <1>1, <1>2, <1>3, <1>4, <2>1, <2>2, TrailTaken
<1>6. raw \in BOOLEAN
  BY DEF PointerInv, HandInv
<1>7. PICK d : d = Delta(e.at)
  OBVIOUS
<1>8. d \in Deltas /\ Abs(d[1]) <= Span(raw, 1) /\ Abs(d[2]) <= Span(raw, 2)
  <2>1. CASE last = Unknown
    BY <1>6, <1>7, <2>1, NoDelta DEF Delta
  <2>2. CASE last # Unknown
    <3>1. PICK a \in Places : a = last
      BY <2>2 DEF PointerInv, HandInv, Known
    <3>2. d = <<e.at[1] - a[1], e.at[2] - a[2]>>
      BY <1>7, <2>2, <3>1 DEF Delta
    <3>3. Close(raw, a, e.at)
      BY <1>5, <2>2, <3>1
    <3> QED
      BY <1>4, <1>6, <3>2, <3>3, DeltaIsReach
  <2> QED
    BY <2>1, <2>2
<1>9. Move(d) \in Captured(raw, last')
  <2>1. Move(d) \in InputEvents
    BY <1>8 DEF InputEvents, MoveEvents
  <2>2. Move(d).dx = d[1] /\ Move(d).dy = d[2]
    BY DEF Move
  <2>3. last' # Unknown
    BY <1>1, <1>2, <1>3, <1>4, SomePlaces
  <2> QED
    BY <1>8, <2>1, <2>2, <2>3 DEF Captured
<1> QED
  BY <1>1, <1>2, <1>3, <1>4, <1>5, <1>7, <1>8, <1>9

\* CaptureMove keeps the trail.
LEMMA CaptureMovePointer ==
  ASSUME PointerInv, CaptureMove
  PROVE  PointerInv'
<1>1. UNCHANGED <<raw, pointer, down, pushed, suppress, mode>>
  BY DEF CaptureMove, Told, Capture, handVars, parkVars, coreVars, focusVars
<1>2. last' \in Places /\ last' # Unknown /\ OnTrail(raw, last', toldEvents', pointer)
  BY MoveCaptured, SomePlaces
<1>3. toldEvents' \in Seq(Tells(suppress))
  BY Queue DEF CaptureMove, Told, PointerInv
<1>4. rxInput' \in Seq(Captured(raw, last'))
  <2>1. PICK m \in Captured(raw, last') : rxInput' = Append(rxInput, m)
    BY MoveCaptured
  <2>2. rxInput \in Seq(Captured(raw, last'))
    BY <1>2, CapturedMore DEF PointerInv
  <2> QED
    BY <2>1, <2>2, Queue
<1> QED
  BY <1>1, <1>2, <1>3, <1>4 DEF PointerInv, HandInv, Known, IsRemote

\* A position ignored is still where the trail goes on from.
LEMMA SuppressMovePointer ==
  ASSUME PointerInv, SuppressMove
  PROVE  PointerInv'
<1>1. /\ UNCHANGED <<raw, pointer, down, pushed, suppress, mode, rxInput>>
      /\ toldEvents # <<>> /\ toldEvents' = Tail(toldEvents)
      /\ Head(toldEvents).type = "MouseMove" /\ last' = Head(toldEvents).at
  BY DEF SuppressMove, Told, handVars, vars, parkVars, coreVars, focusVars, inputVars
<1>2. PICK q \in Seq(AllTells) : q = toldEvents
  BY SomePlaces, SeqMonotonic DEF PointerInv
<1>3. PICK e \in AllTells : e = Head(q)
  BY <1>1, <1>2, Queue
<1>4. e.at \in Places /\ OnTrail(raw, e.at, Tail(q), pointer)
  <2>1. last \in Known /\ OnTrail(raw, last, q, pointer)
    BY <1>2 DEF PointerInv, HandInv
  <2> QED
    BY <1>1, <1>2, <1>3, <2>1, TrailTaken, TellShapes
<1>5. last' \in Places /\ last' # Unknown
  BY <1>1, <1>2, <1>3, <1>4, SomePlaces
<1>6. toldEvents' \in Seq(Tells(suppress))
  BY <1>1, Queue DEF PointerInv
<1>7. rxInput \in Seq(Captured(raw, last'))
  BY <1>5, CapturedMore DEF PointerInv
<1> QED
  BY <1>1, <1>2, <1>3, <1>4, <1>5, <1>6, <1>7 DEF PointerInv, HandInv, Known, IsRemote

\* A key that is captured leaves the trail alone.
LEMMA CaptureKeyPointer ==
  ASSUME PointerInv, CaptureKey
  PROVE  /\ PointerInv'
         /\ \E e \in InputEvents : Capture(e) /\ e.type = "Key" /\ rxInput' = Append(rxInput, e)
<1>1. /\ UNCHANGED <<raw, pointer, down, pushed, suppress, mode, last>>
      /\ toldEvents # <<>> /\ toldEvents' = Tail(toldEvents)
      /\ Head(toldEvents).type = "Key"
  BY DEF CaptureKey, Told, Capture, handVars, parkVars, coreVars, focusVars
<1>2. PICK q \in Seq(AllTells) : q = toldEvents
  BY SomePlaces, SeqMonotonic DEF PointerInv
<1>3. PICK e \in AllTells : e = Head(q)
  BY <1>1, <1>2, Queue
<1>4. e.key \in HandKeys /\ e.pressed \in BOOLEAN
  BY <1>1, <1>2, <1>3, TellShapes
<1>5. OnTrail(raw, last, Tail(q), pointer)
  <2>1. last \in Known /\ OnTrail(raw, last, q, pointer)
    BY <1>2 DEF PointerInv, HandInv
  <2> QED
    BY <1>1, <1>2, <1>3, <2>1, TrailTaken
<1>6. PICK m : m = KeyEvent(CodeOfKey(e.key), e.pressed)
  OBVIOUS
<1>7. m \in InputEvents /\ m.type = "Key"
  <2>1. CodeOfKey(e.key) \in Keys
    BY <1>4, DeskAssumption
  <2> QED
    BY <1>4, <1>6, <2>1 DEF InputEvents, KeyEvents, KeyEvent
<1>8. Capture(m) /\ rxInput' = Append(rxInput, m)
  BY <1>2, <1>3, <1>6 DEF CaptureKey, Capture
<1>9. m \in Captured(raw, last)
  BY <1>7 DEF Captured
<1>10. rxInput' \in Seq(Captured(raw, last))
  BY <1>8, <1>9, Queue DEF PointerInv
<1>11. toldEvents' \in Seq(Tells(suppress))
  BY <1>1, Queue DEF PointerInv
<1> QED
  BY <1>1, <1>2, <1>5, <1>7, <1>8, <1>10, <1>11 DEF PointerInv, HandInv, IsRemote

\* The loop sets the pointer, and the OS tells of it.
LEMMA SetPositionPointer ==
  ASSUME PointerInv, SetPosition, suppress', parkAt' \in Positions,
         rxInput' \in Seq(Captured(raw, last)), pushed' \in Int,
         mode' = "Remote" => last # Unknown
  PROVE  PointerInv'
<1>1. UNCHANGED <<raw, down, last>> /\ pointer' = parkAt'
  BY DEF SetPosition
<1>2. PICK q \in Seq(AllTells) : q = toldEvents
  BY SomePlaces, SeqMonotonic DEF PointerInv
<1>3. OnTrail(raw, last, q, pointer) /\ last \in Known
  BY <1>2 DEF PointerInv, HandInv
<1>4. PICK at \in Places : at = pointer'
  BY <1>1, SomePlaces
<1>5. toldEvents' \in Seq(AllTells) /\ OnTrail(raw, last, toldEvents', pointer')
  <2>1. CASE pointer' = pointer
    BY <1>2, <1>3, <2>1 DEF SetPosition
  <2>2. CASE pointer' # pointer
    <3>1. PICK e \in AllTells : e = MovedTo(at, TRUE)
      BY DEF AllTells
    <3>2. e.type = "MouseMove" /\ e.at = at /\ e.own
      BY <3>1 DEF MovedTo
    <3>3. toldEvents' = Append(q, e)
      BY <1>2, <1>4, <2>2, <3>1 DEF SetPosition
    <3>4. Nearby(raw, e.at, at)
      <4>1. at[1] \in Int /\ at[2] \in Int
        BY DEF Places
      <4>2. Longest(1) \in Nat /\ Longest(2) \in Nat
        BY LongestIs
      <4> QED
        BY <3>2, <4>1, <4>2 DEF Nearby, Abs
    <3>5. OnTrail(raw, last, Append(q, e), at)
      BY <1>3, <3>2, <3>4, PlaceTold
    <3> QED
      BY <1>4, <3>3, <3>5, Queue
  <2> QED
    BY <2>1, <2>2
<1> QED
  BY <1>1, <1>5 DEF PointerInv, HandInv, Tells, IsRemote

\* A movement that is taken has been captured.
LEMMA TakenMove ==
  ASSUME PointerInv, NEW type, TakeInput(type)
  PROVE  /\ rxInput' \in Seq(Captured(raw, last))
         /\ Head(rxInput) \in InputEvents
         /\ type = "Move" => last # Unknown
<1>1. PICK q \in Seq(Captured(raw, last)) : q = rxInput
  BY DEF PointerInv
<1>2. Head(q) \in Captured(raw, last) /\ Tail(q) \in Seq(Captured(raw, last))
  BY <1>1, Queue DEF TakeInput
<1> QED
  BY <1>1, <1>2 DEF TakeInput, Captured

\* The steps of the desk are steps of the loop and its environment.
LEMMA DeskStepsLoop == PointerInv /\ [NextDesk]_allVars => [Next]_vars
<1> SUFFICES ASSUME PointerInv, [NextDesk]_allVars PROVE [Next]_vars
  OBVIOUS
<1>1. CASE (\E d \in HandSteps : HandMoves(d)) \/ UNCHANGED allVars
  BY <1>1 DEF HandMoves, allVars
<1>2. CASE \E k \in HandKeys, pressed \in BOOLEAN : HandTypes(k, pressed)
  BY <1>2 DEF HandTypes
<1>3. CASE SuppressMove
  BY <1>3 DEF SuppressMove
<1>4. CASE CaptureMove
  <2>1. PICK d \in Deltas : d = Delta(Head(toldEvents).at)
    BY <1>4, MoveCaptured
  <2>2. Capture(Move(d)) /\ Move(d) \in InputEvents
    BY <1>4, <2>1 DEF CaptureMove, InputEvents, MoveEvents
  <2> QED
    BY <2>2 DEF Next, Environment
<1>5. CASE CaptureKey
  BY <1>5, CaptureKeyPointer DEF Next, Environment
<1>6. CASE \/ StayLocal \/ GoRemote \/ ComeBack \/ Unpark \/ OtherLoopStep \/ HearClosed
           \/ SessionSteps
  BY <1>6 DEF StayLocal, GoRemote, ComeBack, Unpark, OtherLoopStep, HearClosed, SessionSteps,
     Next, Loop, Environment, HandleInput, HandleConnEvent
<1> QED
  BY <1>1, <1>2, <1>3, <1>4, <1>5, <1>6 DEF NextDesk

\* Every step of the desk keeps the trail.
LEMMA PointerStep == DeskInv /\ IInv' /\ [NextDesk]_allVars => PointerInv'
<1> SUFFICES ASSUME DeskInv, IInv', [NextDesk]_allVars PROVE PointerInv'
  OBVIOUS
<1> USE DEF DeskInv
<1>1. CASE \E d \in HandSteps : HandMoves(d)
  BY <1>1, HandMovesPointer
<1>2. CASE \E k \in HandKeys, pressed \in BOOLEAN : HandTypes(k, pressed)
  BY <1>2, HandTypesPointer
<1>3. CASE SuppressMove \/ CaptureMove \/ CaptureKey
  BY <1>3, SuppressMovePointer, CaptureMovePointer, CaptureKeyPointer
<1>4. CASE GoRemote \/ ComeBack
  <2>1. /\ TakeInput("Move") /\ SetPosition /\ suppress' = TRUE /\ pushed' = 0
        /\ parkAt' # NoPark
    <3>1. TakeInput("Move") /\ SetPosition /\ suppress' = TRUE /\ pushed' = 0 /\ pc' = "parking"
      BY <1>4 DEF GoRemote, ComeBack, EnterRemote, ExitRemote, StartPark
    <3> QED
      BY <3>1 DEF IInv, ParkInv, SuppressedOnlyToPark
  <2>2. parkAt' \in Positions
    BY <2>1 DEF IInv, ParkInv
  <2>3. rxInput' \in Seq(Captured(raw, last)) /\ last # Unknown
    BY <2>1, TakenMove
  <2> QED
    BY <2>1, <2>2, <2>3, SetPositionPointer
<1>5. CASE StayLocal \/ OtherLoopStep \/ HearClosed \/ SessionSteps
  <2>1. /\ UNCHANGED <<raw, pointer, down, toldEvents, last, suppress>>
        /\ pushed' = pushed \/ pushed' = 0
        /\ mode' = mode \/ mode' = "Local"
    BY <1>5 DEF StayLocal, RemainLocal, OtherLoopStep, RemainRemote, HandleKey, EmergencyStop,
       EventsEnded, HearClosed, HandleClosed, ForceLocal, SessionSteps, WriterTakes,
       SessionCloses, deskVars, handVars, coreVars, focusVars, parkVars
  <2>2. rxInput' = rxInput \/ \E type : TakeInput(type)
    BY <1>5 DEF StayLocal, RemainLocal, OtherLoopStep, RemainRemote, HandleKey, EmergencyStop,
       EventsEnded, HearClosed, HandleClosed, SessionSteps, WriterTakes,
       SessionCloses, inputVars
  <2>3. rxInput' \in Seq(Captured(raw, last))
    BY <2>2, TakenMove DEF PointerInv
  <2> QED
    BY <2>1, <2>3 DEF PointerInv, HandInv, IsRemote
<1>6. CASE Unpark
  <2>1. /\ UNCHANGED <<raw, pointer, down, toldEvents, last, rxInput, mode, pushed>>
        /\ suppress' = FALSE
        /\ \A i \in DOMAIN toldEvents : toldEvents[i].type = "MouseMove" => ~toldEvents[i].own
    BY <1>6 DEF Unpark, ParkEnds, deskVars, handVars, coreVars, focusVars, inputVars
  <2>2. PICK q \in Seq(AllTells) : q = toldEvents
    BY SomePlaces, SeqMonotonic DEF PointerInv
  <2>3. \A i \in 1 .. Len(q) : q[i] \in HandTells
    <3> TAKE i \in 1 .. Len(q)
    <3>1. PICK e \in AllTells : e = q[i]
      BY ElementOfSeq
    <3>2. e.type = "MouseMove" => ~e.own
      BY <2>1, <2>2, <3>1, LenProperties
    <3> QED
      BY <3>1, <3>2, TellShapes
  <2>4. q \in Seq(HandTells)
    BY <2>3, LenProperties
  <2> QED
    BY <2>1, <2>2, <2>4 DEF PointerInv, HandInv, IsRemote, Tells
<1>7. CASE UNCHANGED allVars
  BY <1>7 DEF allVars, deskVars, handVars, vars, coreVars, focusVars, parkVars, inputVars,
     PointerInv, HandInv, IsRemote
<1> QED
  BY <1>1, <1>2, <1>3, <1>4, <1>5, <1>6, <1>7 DEF NextDesk

-----------------------------------------------------------------------------

\* The inductive invariant of the loop and the invariant of the pointer
\* hold together: the loop parks the pointer only while the capture ignores it.
LEMMA DeskInvariant == SpecDesk => []DeskInv
<1>1. InitDesk => DeskInv
  <2>1. InitDesk => Init
    BY DEF InitDesk
  <2> QED
    BY <2>1, IInvInit, PointerInit DEF DeskInv
<1>2. DeskInv /\ [NextDesk]_allVars => DeskInv'
  <2> SUFFICES ASSUME DeskInv, [NextDesk]_allVars PROVE DeskInv'
    OBVIOUS
  <2>1. IInv'
    BY DeskStepsLoop, IInvStep DEF DeskInv
  <2> QED
    BY <2>1, PointerStep DEF DeskInv
<1> QED
  BY <1>1, <1>2, PTL DEF SpecDesk

\* The desk drives the loop of Controller: whatever the hands, the OS and the
\* capture thread do, it behaves as specified there, for events of the capture
\* that are no longer than the steps of the hand allow.
THEOREM DeskDrivesController == SpecDesk => Spec
<1>1. InitDesk => Init
  BY DEF InitDesk
<1>2. DeskInv /\ [NextDesk]_allVars => [Next]_vars
  BY DeskStepsLoop DEF DeskInv
<1> QED
  BY <1>1, <1>2, DeskInvariant, PTL DEF SpecDesk, Spec

\* Type correctness of the desk: the pointer stays on the screen, and what the
\* OS tells and the capture thread sends is what Controller expects.
THEOREM DeskTypeOK == SpecDesk => []TypeOKDesk
<1>1. DeskInv => TypeOKDesk
  <2> SUFFICES ASSUME DeskInv PROVE TypeOKDesk
    OBVIOUS
  <2>1. TypeOK
    BY InvIsTyped DEF DeskInv
  <2>2. PICK q \in Seq(AllTells) : q = toldEvents
    BY SomePlaces, SeqMonotonic DEF DeskInv, PointerInv
  <2>3. \A i \in DOMAIN q :
          \/ q[i].type = "MouseMove" /\ q[i].at \in Int \X Int
          \/ q[i].type = "Key" /\ q[i].key \in HandKeys
    <3> TAKE i \in DOMAIN q
    <3>1. PICK e \in AllTells : e = q[i]
      BY LenProperties, ElementOfSeq
    <3> QED
      BY <3>1, TellShapes DEF Places
  <2> QED
    BY <2>1, <2>2, <2>3 DEF DeskInv, PointerInv, HandInv, Known, Places, TypeOKDesk
<1> QED
  BY <1>1, DeskInvariant, PTL

\* park, the suppress flag and spawn_capture: setting the pointer back to the
\* edge is never taken for a movement of the hand, for any steps of the hand,
\* on screens of any size, whether or not the OS reports positions out of the
\* screen, and whenever the park begins and ends.
THEOREM DeskParkIsNotAMovement == SpecDesk => []ParkIsNotAMovement
<1>1. DeskInv => ParkIsNotAMovement
  <2> SUFFICES ASSUME DeskInv, NEW i \in DOMAIN rxInput, rxInput[i].type = "Move"
               PROVE  Abs(rxInput[i].dx) <= Reach(1) /\ Abs(rxInput[i].dy) <= Reach(2)
    BY DEF ParkIsNotAMovement
  <2>1. PICK e \in Captured(raw, last) : e = rxInput[i]
    BY LenProperties, ElementOfSeq DEF DeskInv, PointerInv
  <2> QED
    BY <2>1 DEF Captured, Span, Reach
<1> QED
  BY <1>1, DeskInvariant, PTL

\* A step that the movements of a visit survive.
LEMMA VisitStep ==
  ASSUME DeskInv, [NextDesk]_allVars, IsRemote, IsRemote', pc # "parking"
  PROVE  Carried' = Carried
<1>0. ~suppress /\ last # Unknown
  BY DEF DeskInv, IInv, ParkInv, SuppressedOnlyToPark, PointerInv
<1>i. rxInput \in Seq(InputEvents)
  BY DEF DeskInv, IInv, InputInv
<1>w. \A q \in Seq(InputEvents) : FoldLeft(PlusMove, <<0, 0>>, q) = SumOf(q)
  BY FoldOfMoves DEF Still
<1>s. PICK sum \in Places : sum = SumOf(rxInput)
  BY <1>i, SumType
<1>c. coalescer.x \in Int /\ coalescer.y \in Int
  BY DEF DeskInv, IInv, FocusInv, FocusTypeOK
<1>l. last \in Places
  BY <1>0 DEF DeskInv, PointerInv, HandInv, Known
<1>1. Waiting = sum
  BY <1>i, <1>w, <1>s DEF Waiting
<1>2. CASE CaptureMove
  <2>1. PICK d \in Deltas : /\ d = Delta(Head(toldEvents).at)
                            /\ rxInput' = Append(rxInput, Move(d))
                            /\ last' = Head(toldEvents).at /\ last' \in Places
    BY <1>2, MoveCaptured DEF DeskInv
  <2>2. PICK m \in InputEvents : m = Move(d)
    BY DEF InputEvents, MoveEvents
  <2>3. m.type = "Move" /\ m.dx = d[1] /\ m.dy = d[2]
    BY <2>2 DEF Move
  <2>4. PICK q \in Seq(InputEvents) : q = Append(rxInput, m)
    BY <1>i, Queue
  <2>5. Waiting' = PlusMove(sum, m)
    <3>1. SumOf(q) = PlusMove(sum, m)
      BY <1>i, <1>s, <2>4, SumMore
    <3>2. rxInput' = q
      BY <2>1, <2>2, <2>4
    <3> QED
      BY <1>w, <3>1, <3>2 DEF Waiting
  <2>6. Waiting' = <<sum[1] + d[1], sum[2] + d[2]>>
    BY <2>3, <2>5 DEF PlusMove
  <2>7. PICK to \in Places : to = last'
    BY <2>1
  <2>8. d = <<to[1] - last[1], to[2] - last[2]>>
    BY <1>0, <2>1, <2>7 DEF Delta
  <2>9. UNCHANGED coalescer
    BY <1>2 DEF CaptureMove, Capture, coreVars
  <2>10. /\ coalescer.x + (sum[1] + d[1]) - to[1] = coalescer.x + sum[1] - last[1]
         /\ coalescer.y + (sum[2] + d[2]) - to[2] = coalescer.y + sum[2] - last[2]
    BY <1>c, <1>l, <2>8 DEF Places
  <2> QED
    BY <1>1, <2>6, <2>7, <2>9, <2>10 DEF Carried
<1>3. CASE RemainRemote /\ UNCHANGED deskVars
  <2>1. PICK m \in InputEvents : m = Head(rxInput)
    BY <1>3, <1>i, Queue DEF RemainRemote, TakeInput
  <2>2. /\ m.type = "Move" /\ rxInput # <<>> /\ rxInput' = Tail(rxInput) /\ UNCHANGED last
        /\ coalescer' = Push(coalescer, m.dx, m.dy)
    BY <1>3, <2>1 DEF RemainRemote, TakeInput, deskVars
  <2>3. m.dx \in Int /\ m.dy \in Int
    BY <2>2, EventShapes
  <2>4. PICK t \in Seq(InputEvents) : t = Tail(rxInput)
    BY <1>i, <2>2, Queue
  <2>5. PICK rest \in Places : rest = SumOf(t)
    BY SumType
  <2>6. sum = <<m.dx + rest[1], m.dy + rest[2]>>
    <3>1. PICK by \in Places : by = PlusMove(Still, m)
      BY StillIsPlace, PlusMoveType
    <3>2. sum = <<by[1] + rest[1], by[2] + rest[2]>>
      BY <1>i, <1>s, <2>1, <2>2, <2>4, <2>5, <3>1, SumLess
    <3>3. by[1] = m.dx /\ by[2] = m.dy
      BY <2>2, <2>3, <3>1 DEF PlusMove, Still
    <3> QED
      BY <3>2, <3>3
  <2>7. Waiting' = rest
    BY <1>w, <2>2, <2>4, <2>5 DEF Waiting
  <2>8. coalescer'.x = coalescer.x + m.dx /\ coalescer'.y = coalescer.y + m.dy
    BY <2>2 DEF Push
  <2>9. /\ coalescer.x + m.dx + rest[1] - last[1] = coalescer.x + sum[1] - last[1]
        /\ coalescer.y + m.dy + rest[2] - last[2] = coalescer.y + sum[2] - last[2]
    <3>1. sum[1] = m.dx + rest[1] /\ sum[2] = m.dy + rest[2]
      BY <2>6
    <3>2. rest[1] \in Int /\ rest[2] \in Int /\ last[1] \in Int /\ last[2] \in Int
      BY <1>l, <2>5 DEF Places
    <3>3. \A c, d, r, l \in Int : c + d + r - l = c + ((d + r) - l)
      OBVIOUS
    <3>4. coalescer.x + m.dx + rest[1] - last[1] = coalescer.x + ((m.dx + rest[1]) - last[1])
      BY <1>c, <2>3, <3>2, <3>3, SMTT(40)
    <3>5. coalescer.y + m.dy + rest[2] - last[2] = coalescer.y + ((m.dy + rest[2]) - last[2])
      BY <1>c, <2>3, <3>2, <3>3, SMTT(40)
    <3> QED
      BY <3>1, <3>4, <3>5, Zenon
  <2>10. Carried' = <<coalescer'.x + rest[1] - last[1], coalescer'.y + rest[2] - last[2]>>
    BY <2>2, <2>7 DEF Carried
  <2>11. Carried' = <<coalescer.x + sum[1] - last[1], coalescer.y + sum[2] - last[2]>>
    BY <2>8, <2>9, <2>10
  <2> QED
    BY <1>1, <2>11 DEF Carried
<1>4. CASE CaptureKey \/ (HandleKey /\ UNCHANGED deskVars)
  <2>1. UNCHANGED <<coalescer, last>>
    BY <1>4 DEF CaptureKey, Capture, HandleKey, deskVars, coreVars
  <2>2. Waiting' = sum
    <3>1. CASE CaptureKey
      <4>1. PICK m \in InputEvents : m.type = "Key" /\ rxInput' = Append(rxInput, m)
        BY <3>1, CaptureKeyPointer DEF DeskInv
      <4>3. PICK q \in Seq(InputEvents) : q = Append(rxInput, m)
        BY <1>i, Queue
      <4>4. SumOf(q) = PlusMove(sum, m)
        BY <1>i, <1>s, <4>3, SumMore
      <4>5. PlusMove(sum, m) = sum
        BY <4>1 DEF PlusMove
      <4>6. rxInput' = q
        BY <4>1, <4>3
      <4>7. Waiting' = SumOf(q)
        BY <1>w, <4>6 DEF Waiting
      <4> QED
        BY <4>4, <4>5, <4>7
    <3>2. CASE HandleKey
      <4>1. /\ rxInput # <<>> /\ rxInput' = Tail(rxInput) /\ Head(rxInput).type = "Key"
        BY <3>2 DEF HandleKey, TakeInput
      <4>2. PICK m \in InputEvents : m = Head(rxInput)
        BY <1>i, <4>1, Queue
      <4>3. PICK t \in Seq(InputEvents) : t = Tail(rxInput)
        BY <1>i, <4>1, Queue
      <4>4. PICK rest \in Places : rest = SumOf(t)
        BY SumType
      <4>5. PlusMove(Still, m) = Still
        BY <4>1, <4>2 DEF PlusMove
      <4>6. sum = <<Still[1] + rest[1], Still[2] + rest[2]>>
        BY <1>i, <1>s, <4>1, <4>2, <4>3, <4>4, <4>5, SumLess
      <4>7. sum = rest
        BY <4>6 DEF Still, Places
      <4> QED
        BY <1>w, <4>1, <4>3, <4>4, <4>7 DEF Waiting
    <3> QED
      BY <1>4, <3>1, <3>2
  <2> QED
    BY <1>1, <2>1, <2>2 DEF Carried
<1>5. CASE \/ (\E d \in HandSteps : HandMoves(d))
           \/ (\E k \in HandKeys, pressed \in BOOLEAN : HandTypes(k, pressed))
           \/ (EventsEnded /\ UNCHANGED deskVars) \/ SessionSteps \/ UNCHANGED allVars
  <2>1. UNCHANGED <<coalescer, rxInput, last>>
    BY <1>5 DEF HandMoves, HandTypes, EventsEnded, SessionSteps, WriterTakes, SessionCloses,
       deskVars, allVars, vars, coreVars, inputVars
  <2> QED
    BY <2>1 DEF Carried, Waiting
<1>6. CASE \/ SuppressMove \/ StayLocal \/ GoRemote \/ ComeBack \/ Unpark \/ HearClosed
           \/ EmergencyStop
  BY <1>0, <1>6 DEF SuppressMove, StayLocal, RemainLocal, GoRemote, EnterRemote, ComeBack,
     ExitRemote, Unpark, ParkEnds, HearClosed, HandleClosed, EmergencyStop, ForceLocal, IsRemote
<1> QED
  BY <1>2, <1>3, <1>4, <1>5, <1>6 DEF NextDesk, OtherLoopStep

\* spawn_capture and handle_move: between two parks of a visit every movement
\* the capture thread was told is in the virtual pointer or on its way there,
\* once, whatever else is typed and whenever the loop runs.
THEOREM DeskVisitCarriesTheMouse == SpecDesk => VisitCarriesTheMouse
<1>1. DeskInv /\ [NextDesk]_allVars =>
        [IsRemote /\ IsRemote' /\ pc # "parking" => Carried' = Carried]_allVars
  BY VisitStep
<1> QED
  BY <1>1, DeskInvariant, PTL DEF SpecDesk, VisitCarriesTheMouse

=============================================================================
