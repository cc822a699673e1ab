------------------------------ MODULE Keyboard ------------------------------
(***************************************************************************)
(* kbd.c: from the codes that a keyboard sends to characters.  A key sends *)
(* a code when it is pressed, and again while it is held, and the same one *)
(* with 0x80 when it is released; some keys send 0xE0 before each.         *)
(***************************************************************************)
EXTENDS Integers, FiniteSets, Sequences

CONSTANTS
    Keys,       \* the keys of the keyboard: code, and whether 0xE0 is sent
    Normal, Shifted, Control,   \* the maps from codes to characters
    Letters,    \* the characters that CAPSLOCK changes, and to what
    BUFFER,     \* codes that wait in the controller
    FINGERS     \* keys that are held together

VARIABLES
    down,       \* the keys that are held
    modifiers,       \* the modifiers whose last key to move went down
    caps,       \* CAPSLOCK has been pressed an odd number of times
    codes,      \* what the controller holds
    wanted,     \* and what each code should yield
    shift,      \* the modifiers of the driver
    got         \* the last character: as it came, and as it should have come

keyvars == <<down, modifiers, caps, codes, wanted, shift, got>>

Release == 128
Escape == 224
NoChar == 0

shiftcode(data) ==
    CASE data \in {29, 157} -> {"CTL"}
      [] data \in {42, 54}  -> {"SHIFT"}
      [] data \in {56, 184} -> {"ALT"}
      [] OTHER              -> {}

togglecode(data) ==
    CASE data = 58 -> {"CAPSLOCK"}
      [] data = 69 -> {"NUMLOCK"}
      [] data = 70 -> {"SCROLLLOCK"}
      [] OTHER     -> {}

Flip(s, t) == (s \cup t) \ (s \cap t)

charcode(s) ==
    IF "CTL" \in s THEN Control ELSE IF "SHIFT" \in s THEN Shifted ELSE Normal

Char(map, data) == IF data \in DOMAIN map THEN map[data] ELSE NoChar
Capital(c) == IF c \in DOMAIN Letters THEN Letters[c] ELSE c

KeyInit ==
    /\ down = {} /\ modifiers = {} /\ caps = FALSE
    /\ codes = <<>> /\ wanted = <<>> /\ shift = {}
    /\ got = [char |-> NoChar, wanted |-> NoChar]

-----------------------------------------------------------------------------
(* The keyboard.  Which modifiers a key is and which character it should   *)
(* give is read off the key, not off its codes.                            *)

Modifier(key) ==
    IF key.code = 29 THEN {"CTL"} ELSE IF key.code = 56 THEN {"ALT"}
    ELSE IF key.code \in {42, 54} /\ ~key.escaped THEN {"SHIFT"} ELSE {}

Meant(key) ==
    LET at == IF key.escaped THEN key.code + Release ELSE key.code
        c == Char(charcode(modifiers), at)
    IN  IF caps THEN Capital(c) ELSE c

Send(key, code, char) ==
    LET more == IF key.escaped THEN <<Escape, code>> ELSE <<code>>
    IN  /\ Len(codes) + Len(more) <= BUFFER
        /\ codes' = codes \o more
        /\ wanted' = wanted \o IF key.escaped THEN <<NoChar, char>> ELSE <<char>>

\* A key goes down, or is held for so long that it repeats.
Press(key) ==
    /\ down' = down \cup {key} /\ Cardinality(down') <= FINGERS
    /\ modifiers' = modifiers \cup Modifier(key)
    /\ caps' = (caps # (key.code = 58 /\ ~key.escaped))
    /\ Send(key, key.code, Meant(key))
    /\ UNCHANGED <<shift, got>>

LetGo(key) ==
    /\ key \in down
    /\ down' = down \ {key} /\ modifiers' = modifiers \ Modifier(key)
    /\ Send(key, key.code + Release, NoChar)
    /\ UNCHANGED <<caps, shift, got>>

-----------------------------------------------------------------------------
(* kbdgetc()                                                               *)

Yield(s, c) == [shift |-> s, char |-> c]

\* Mutant: a release does not end the escape.
ReleasedEscaped(data) ==
    LET code == IF "E0ESC" \in shift THEN data ELSE data - Release
    IN  Yield(shift \ shiftcode(code), NoChar)

Released(data) ==
    LET code == IF "E0ESC" \in shift THEN data ELSE data - Release
    IN  Yield(shift \ (shiftcode(code) \cup {"E0ESC"}), NoChar)

Pressed(data) ==
    LET code == IF "E0ESC" \in shift THEN data + Release ELSE data
        s == Flip((shift \ {"E0ESC"}) \cup shiftcode(code), togglecode(code))
        c == Char(charcode(s), code)
    IN  Yield(s, IF "CAPSLOCK" \in s THEN Capital(c) ELSE c)

kbdgetc(data) ==
    IF data = Escape THEN Yield(shift \cup {"E0ESC"}, NoChar)
    ELSE IF data >= Release THEN Released(data)
    ELSE Pressed(data)

Kbdintr ==
    /\ codes # <<>>
    /\ LET r == kbdgetc(Head(codes))
       IN  /\ shift' = r.shift
           /\ got' = [char |-> r.char, wanted |-> Head(wanted)]
    /\ codes' = Tail(codes) /\ wanted' = Tail(wanted)
    /\ UNCHANGED <<down, modifiers, caps>>

KeyNext == Kbdintr \/ \E key \in Keys : Press(key) \/ LetGo(key)

KeySpec == KeyInit /\ [][KeyNext]_keyvars

-----------------------------------------------------------------------------
\* Whatever is pressed together and however late the codes are read, every key
\* gives the character that is on it, and when all codes are read no modifier
\* sticks that no key of holds.
KeysSound ==
    /\ got.char = got.wanted
    /\ codes = <<>> =>
           /\ shift \cap {"CTL", "SHIFT", "ALT"} = modifiers
           /\ "E0ESC" \notin shift
           /\ modifiers \subseteq UNION {Modifier(key) : key \in down}
=============================================================================
