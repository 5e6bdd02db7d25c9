------------------------------- MODULE Keymap -------------------------------
(***************************************************************************)
(* The tables of src/keymap.rs: rdev keys and buttons (what the OS of a    *)
(* machine speaks of), canonical keys, the codes that travel, and the      *)
(* emergency combination.                                                  *)
(*                                                                         *)
(* An rdev key is its name.  A canonical key has a name too, or is         *)
(* Other { code }.                                                         *)
(***************************************************************************)
EXTENDS Integers, Sequences

\* ALL_CANON.  CanonKey::code numbers it from 1, in this order.
CanonNames == <<
  "KeyA", "KeyB", "KeyC", "KeyD", "KeyE", "KeyF", "KeyG", "KeyH", "KeyI", "KeyJ",
  "KeyK", "KeyL", "KeyM", "KeyN", "KeyO", "KeyP", "KeyQ", "KeyR", "KeyS", "KeyT",
  "KeyU", "KeyV", "KeyW", "KeyX", "KeyY", "KeyZ", "D0", "D1", "D2", "D3", "D4",
  "D5", "D6", "D7", "D8", "D9", "Enter", "Tab", "Space", "Backspace", "Escape",
  "ShiftL", "ShiftR", "CtrlL", "CtrlR", "AltL", "AltR", "MetaL", "MetaR", "F1",
  "F2", "F3", "F4", "F5", "F6", "F7", "F8", "F9", "F10", "F11", "F12", "Home",
  "End", "PageUp", "PageDown", "Insert", "Delete", "ArrowUp", "ArrowDown",
  "ArrowLeft", "ArrowRight", "Comma", "Period", "Slash", "Backslash", "Semicolon",
  "Quote", "BracketL", "BracketR", "Minus", "Equal", "CapsLock", "NumLock",
  "ScrollLock", "PrintScreen", "Pause">>

\* The rdev key of each of them: the arms of rdev_key_to_canon, and of
\* canon_to_rdev, which is written as a table of its own.
RdevNames == <<
  "KeyA", "KeyB", "KeyC", "KeyD", "KeyE", "KeyF", "KeyG", "KeyH", "KeyI", "KeyJ",
  "KeyK", "KeyL", "KeyM", "KeyN", "KeyO", "KeyP", "KeyQ", "KeyR", "KeyS", "KeyT",
  "KeyU", "KeyV", "KeyW", "KeyX", "KeyY", "KeyZ", "Num0", "Num1", "Num2", "Num3",
  "Num4", "Num5", "Num6", "Num7", "Num8", "Num9", "Return", "Tab", "Space",
  "Backspace", "Escape", "ShiftLeft", "ShiftRight", "ControlLeft", "ControlRight",
  "Alt", "AltGr", "MetaLeft", "MetaRight", "F1", "F2", "F3", "F4", "F5", "F6",
  "F7", "F8", "F9", "F10", "F11", "F12", "Home", "End", "PageUp", "PageDown",
  "Insert", "Delete", "UpArrow", "DownArrow", "LeftArrow", "RightArrow", "Comma",
  "Dot", "Slash", "BackSlash", "SemiColon", "Quote", "LeftBracket", "RightBracket",
  "Minus", "Equal", "CapsLock", "NumLock", "ScrollLock", "PrintScreen", "Pause">>

Codes == 1 .. Len(CanonNames)

\* No arm of a table hides another, and the two have the same arms.
ASSUME TablesAssumption ==
  /\ Len(CanonNames) = Len(RdevNames)
  /\ \A i, j \in Codes : i # j =>
       CanonNames[i] # CanonNames[j] /\ RdevNames[i] # RdevNames[j]
  /\ \A i \in Codes : CanonNames[i] # "Other" /\ RdevNames[i] # "BackQuote"

TableKeys == {RdevNames[i] : i \in Codes}

-----------------------------------------------------------------------------
\* Canonical keys and their codes (u16).

Named(name) == [name |-> name, code |-> 0]
Other(code) == [name |-> "Other", code |-> code]

CodeAt(name) == CHOOSE i \in Codes : CanonNames[i] = name

\* CanonKey::code
Code(c) == IF c.name = "Other" THEN c.code ELSE CodeAt(c.name)

\* CanonKey::from_code
FromCode(code) == IF code \in Codes THEN Named(CanonNames[code]) ELSE Other(code)

-----------------------------------------------------------------------------
\* Between rdev keys and canonical keys.

RowOf(k) == CHOOSE i \in Codes : RdevNames[i] = k

\* mutant: the left and the right modifier are one
RdevKeyToCanonSideless(k) ==
  IF k = "ControlRight" THEN Named("CtrlL")
  ELSE IF k \in TableKeys THEN Named(CanonNames[RowOf(k)]) ELSE Other(65535)

\* Two keys out of the tables have a code of their own, all the others share
\* u16::MAX.
RdevKeyToCanon(k) ==
  IF k \in TableKeys THEN Named(CanonNames[RowOf(k)])
  ELSE IF k = "BackQuote" THEN Other(CodeAt("Equal") + 100)
  ELSE IF k = "IntlBackslash" THEN Other(CodeAt("Equal") + 101)
  ELSE Other(65535)

\* Whatever is out of the table is injected as Escape.
CanonToRdev(c) == IF c.name = "Other" THEN "Escape" ELSE RdevNames[CodeAt(c.name)]

\* What the capture thread sends for a key, and what the injector presses.
CodeOfKey(k) == Code(RdevKeyToCanon(k))
KeyOfCode(code) == CanonToRdev(FromCode(code))

-----------------------------------------------------------------------------
\* Buttons and their numbers (u8).

LeftButton   == [name |-> "Left", n |-> 0]
RightButton  == [name |-> "Right", n |-> 0]
MiddleButton == [name |-> "Middle", n |-> 0]
UnknownButton(n) == [name |-> "Unknown", n |-> n]
NoButton == [name |-> "None", n |-> 0]

ButtonToId(b) ==
  CASE b = LeftButton -> 1 [] b = RightButton -> 2 [] b = MiddleButton -> 3
    [] OTHER -> b.n

IdToButton(id) ==
  CASE id = 0 -> NoButton [] id = 1 -> LeftButton [] id = 2 -> RightButton
    [] id = 3 -> MiddleButton [] OTHER -> UnknownButton(id)

-----------------------------------------------------------------------------
\* parse_emergency_combo.  A token is a word, a function key, a letter (from
\* 1) or a digit; a word that is none of those below is an error, and so is a
\* function key out of 1 .. 12.

Word(w)     == [kind |-> "word", word |-> w, n |-> 0]
Function(n) == [kind |-> "function", word |-> "", n |-> n]
Letter(n)   == [kind |-> "letter", word |-> "", n |-> n]
Digit(n)    == [kind |-> "digit", word |-> "", n |-> n]

CtrlWords  == {"ctrl", "control", "ctrlleft", "ctrlright"}
AltWords   == {"alt", "altleft", "altright"}
ShiftWords == {"shift", "shiftleft", "shiftright"}
MetaWords  == {"meta", "win", "super"}

Words == CtrlWords \cup AltWords \cup ShiftWords \cup MetaWords
           \cup {"space", "enter", "tab", "escape", "esc"}

\* A modifier always stands for the one on the left.
KeyOfWord(w) ==
  CASE w \in CtrlWords -> Named("CtrlL")
    [] w \in AltWords -> Named("AltL")
    [] w \in ShiftWords -> Named("ShiftL")
    [] w \in MetaWords -> Named("MetaL")
    [] w = "space" -> Named("Space")
    [] w = "enter" -> Named("Enter")
    [] w = "tab" -> Named("Tab")
    [] w \in {"escape", "esc"} -> Named("Escape")

Understood(t) ==
  CASE t.kind = "word" -> t.word \in Words
    [] t.kind = "function" -> t.n \in 1 .. 12
    [] t.kind = "letter" -> t.n \in 1 .. 26
    [] t.kind = "digit" -> t.n \in 0 .. 9
    [] OTHER -> FALSE

KeyOfToken(t) ==
  CASE t.kind = "word" -> KeyOfWord(t.word)
    [] t.kind = "function" -> FromCode(49 + t.n)
    [] t.kind = "letter" -> FromCode(t.n)
    [] t.kind = "digit" -> FromCode(IF t.n = 0 THEN 27 ELSE 27 + t.n)

\* The text of a combination has at least one token, if an empty one.
Parses(tokens) == \A i \in DOMAIN tokens : Understood(tokens[i])

ParseEmergencyCombo(tokens) == {KeyOfToken(tokens[i]) : i \in DOMAIN tokens}
=============================================================================
