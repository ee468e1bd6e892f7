------------------------------ MODULE Widgets ------------------------------
(***************************************************************************)
(* tui.py: the lists, the checkboxes and the text field of the menu, with  *)
(* the keys that a terminal sends byte by byte, and the typed prompts that *)
(* stand in for them where there is no terminal. A key can arrive in two   *)
(* parts, and what follows an escape byte is only waited for so long.      *)
(***************************************************************************)
EXTENDS Integers, FiniteSets, SequencesExt

CONSTANTS
    Counts,     \* numbers of options
    Room,       \* options that fit on the screen
    MaxKeys     \* bound: keys that are pressed

VARIABLES
    widget, count,
    anything,   \* an empty choice is allowed; no text is refused
    typing,     \* supported() is false
    wire,       \* bytes that have arrived
    rest,       \* those of the last key that have not
    taken,      \* bytes of the key that _read_posix has taken
    keys,       \* the number of keys pressed
    pressed,    \* those of them that read_key has a name for
    heard,      \* what read_key made of them
    cut,        \* it did not wait for the rest of a key
    cursor, marked, typed,
    status, answer

vars == <<widget, count, anything, typing, wire, rest, taken, keys, pressed, heard, cut, cursor, marked, typed, status, answer>>
keyVars == <<wire, rest, taken, keys, pressed, heard, cut>>

\* What terminals send. The accent is two bytes, neither of which decodes.
Bytes ==
    [UP |-> <<"esc", "[", "A">>, DOWN |-> <<"esc", "[", "B">>, LEFT |-> <<"esc", "[", "D">>,
     END |-> <<"esc", "O", "F">>, PGUP |-> <<"esc", "[", "5", "~">>, PGDN |-> <<"esc", "[", "6", "~">>,
     CTRL_UP |-> <<"esc", "[", "1", "semicolon", "5", "A">>, ESC |-> <<"esc">>, ENTER |-> <<"cr">>,
     BACKSPACE |-> <<"del">>, CTRL_U |-> <<"nak">>, CTRL_C |-> <<"etx">>, SPACE |-> <<" ">>,
     a |-> <<"a">>, q |-> <<"q">>, two |-> <<"2">>, accent |-> <<"c3", "a9">>]
Keys == DOMAIN Bytes
Understood == Keys \ {"CTRL_UP", "accent"}

Init ==
    /\ widget \in {"select", "multi", "text"} /\ count \in Counts
    /\ anything \in BOOLEAN /\ typing \in BOOLEAN
    /\ (widget = "select" => anything) /\ (widget = "text" => count = Room)   \* which it does not look at
    /\ wire = <<>> /\ rest = <<>> /\ taken = <<>>
    /\ keys = 0 /\ pressed = <<>> /\ heard = <<>> /\ cut = FALSE
    /\ cursor = 0 /\ typed = <<>>
    /\ marked \in IF widget = "multi" /\ ~anything THEN {{}, 0 .. count - 1} ELSE {{}}   \* the default
    /\ status = "asking" /\ answer = <<>>

-----------------------------------------------------------------------------
(* The terminal.                                                           *)

\* All of it, all but the last byte, or only the first.
Press ==
    /\ status = "asking" /\ ~typing /\ rest = <<>> /\ keys < MaxKeys
    /\ \E k \in Keys : \E n \in {1, Len(Bytes[k]) - 1, Len(Bytes[k])} \ {0} :
          /\ pressed' = IF k \in Understood THEN Append(pressed, k) ELSE pressed
          /\ wire' = wire \o SubSeq(Bytes[k], 1, n)
          /\ rest' = SubSeq(Bytes[k], n + 1, Len(Bytes[k]))
    /\ keys' = keys + 1
    /\ UNCHANGED <<widget, count, anything, typing, taken, heard, cut, cursor, marked, typed, status, answer>>

Arrive ==
    /\ rest # <<>>
    /\ wire' = wire \o rest /\ rest' = <<>>
    /\ UNCHANGED <<widget, count, anything, typing, taken, keys, pressed, heard, cut, cursor, marked, typed, status, answer>>

-----------------------------------------------------------------------------
(* The widgets, given the name of a key.                                   *)

Runs(k) == cursor + 1
Wraps(k) == (cursor + (IF k = "UP" THEN -1 ELSE 1)) % count
Stepped(k) == Wraps(k)

Navigation == {"UP", "DOWN", "END", "PGUP", "PGDN", "two"}
Move(k) ==
    CASE k \in {"UP", "DOWN"} -> Stepped(k)
      [] k = "END" -> count - 1
      [] k = "PGUP" -> IF cursor > 10 THEN cursor - 10 ELSE 0
      [] k = "PGDN" -> IF cursor + 10 < count THEN cursor + 10 ELSE count - 1
      [] OTHER -> IF count >= 2 THEN 1 ELSE cursor

\* The slice of the options that is shown.
Window ==
    LET start == IF cursor - Room \div 2 < count - Room THEN cursor - Room \div 2 ELSE count - Room
        top == IF start < 0 THEN 0 ELSE start
    IN  IF count <= Room THEN 0 .. count - 1 ELSE top .. top + Room - 1

Ends(s, a) == status' = s /\ answer' = a /\ UNCHANGED <<cursor, marked, typed>>
Stays == UNCHANGED <<cursor, marked, typed, status, answer>>

Leaves(k) == CASE k \in {"ESC", "LEFT"} -> Ends("back", <<>>) [] k \in {"q", "CTRL_C"} -> Ends("quit", <<>>) [] OTHER -> Stays

SelectKeys(k) ==
    CASE k \in Navigation -> cursor' = Move(k) /\ UNCHANGED <<marked, typed, status, answer>>
      [] k \in {"ENTER", "SPACE"} -> Ends("answered", <<cursor>>)
      [] OTHER -> Leaves(k)

\* The numbers of a set, least first.
Ordered(set) == [n \in 1 .. Cardinality(set) |-> CHOOSE i \in set : Cardinality({j \in set : j < i}) = n - 1]

Options == [i \in 1 .. count |-> i - 1]
Ticked == Ordered(marked)
Toggled == IF cursor \in marked THEN marked \ {cursor} ELSE marked \cup {cursor}
Everything == IF marked = 0 .. count - 1 THEN {} ELSE 0 .. count - 1
MultiKeys(k) ==
    CASE k \in Navigation -> cursor' = Move(k) /\ UNCHANGED <<marked, typed, status, answer>>
      [] k = "SPACE" -> marked' = Toggled /\ UNCHANGED <<cursor, typed, status, answer>>
      [] k = "a" -> marked' = Everything /\ UNCHANGED <<cursor, typed, status, answer>>
      [] k = "ENTER" -> IF marked # {} \/ anything THEN Ends("answered", Ticked) ELSE Stays
      [] OTHER -> Leaves(k)

\* A number is asked for; it has a default where anything will do.
Default == <<"two">>
Valid(v) == v # <<>> /\ \A i \in DOMAIN v : v[i] = "two"
Characters == {"a", "q", "two", "SPACE", "[", "A", "B", "D", "F", "~", "semicolon", "5", "6", "1"}
TextKeys(k) ==
    CASE k = "ENTER" ->
           LET value == IF typed = <<>> /\ anything THEN Default ELSE typed
           IN  IF anything \/ Valid(value) THEN Ends("answered", value)
               ELSE typed' = <<>> /\ UNCHANGED <<cursor, marked, status, answer>>
      [] k = "BACKSPACE" ->
           typed' = (IF typed = <<>> THEN <<>> ELSE Front(typed)) /\ UNCHANGED <<cursor, marked, status, answer>>
      [] k = "CTRL_U" -> typed' = <<>> /\ UNCHANGED <<cursor, marked, status, answer>>
      [] k = "ESC" -> Ends("back", <<>>)
      [] k = "CTRL_C" -> Ends("quit", <<>>)
      [] k \in Characters -> typed' = Append(typed, k) /\ UNCHANGED <<cursor, marked, status, answer>>
      [] OTHER -> Stays

React(k) == CASE widget = "select" -> SelectKeys(k) [] widget = "multi" -> MultiKeys(k) [] OTHER -> TextKeys(k)

-----------------------------------------------------------------------------
(* _read_posix: bytes to the name of a key, if any.                        *)

Names == [A |-> "UP", B |-> "DOWN", D |-> "LEFT", F |-> "END"]
Named(t) ==
    CASE t \in {<<x>> : x \in DOMAIN Names} -> Names[t[1]]
      [] t = <<"5", "~">> -> "PGUP" [] t = <<"6", "~">> -> "PGDN" [] OTHER -> "none"
Single(b) ==
    CASE b = "cr" -> "ENTER" [] b = "del" -> "BACKSPACE" [] b = "nak" -> "CTRL_U" [] b = "etx" -> "CTRL_C"
      [] b = " " -> "SPACE" [] b = "2" -> "two" [] b \in {"c3", "a9"} -> "none" [] OTHER -> b

Key(t) ==
    IF Len(t) = 1 THEN IF t[1] = "esc" THEN "ESC" ELSE Single(t[1])
    ELSE IF t[2] \notin {"[", "O"} THEN "ESC" ELSE Named(SubSeq(t, 3, Len(t)))
Complete(t) ==
    CASE Len(t) = 1 -> t[1] # "esc"
      [] Len(t) = 2 -> t[2] \notin {"[", "O"}
      [] OTHER -> Last(t) \in {"A", "B", "D", "F", "~"} \/ Len(t) = 10

Hear(t) ==
    /\ taken' = <<>>
    /\ heard' = IF Key(t) = "none" THEN heard ELSE Append(heard, Key(t))
    /\ React(Key(t))

Read ==
    /\ status = "asking" /\ wire # <<>>
    /\ wire' = Tail(wire)
    /\ LET t == Append(taken, Head(wire))
       IN  IF Complete(t) THEN Hear(t)
           ELSE taken' = t /\ UNCHANGED <<heard, cursor, marked, typed, status, answer>>
    /\ UNCHANGED <<widget, count, anything, typing, rest, keys, pressed, cut>>

\* 50 ms after the last byte.
Expire ==
    /\ status = "asking" /\ taken # <<>> /\ wire = <<>>
    /\ cut' = (cut \/ rest # <<>>)
    /\ Hear(taken)
    /\ UNCHANGED <<widget, count, anything, typing, wire, rest, keys, pressed>>

-----------------------------------------------------------------------------
(* Typed prompts. A token is a number or a range; a word that is neither   *)
(* is a range of nothing.                                                  *)

Tokens == {[lo |-> 1, hi |-> 1], [lo |-> 2, hi |-> 3], [lo |-> 3, hi |-> count + 1], [lo |-> 0, hi |-> 0], [lo |-> 1, hi |-> 0]}
Lines == {<<>>} \cup {<<t>> : t \in Tokens} \cup {<<t, u>> : t, u \in Tokens}

InRange(t) == 1 <= t.lo /\ t.lo <= t.hi /\ t.hi <= count
From(t) == [i \in 1 .. t.hi - t.lo + 1 |-> t.lo + i - 2]
Indexes(line) ==
    CASE Len(line) = 0 -> <<>> [] Len(line) = 1 -> From(line[1]) [] OTHER -> From(line[1]) \o From(line[2])
\* Each where it is first named.
parse_selection(line) ==
    LET named == Indexes(line)
        firsts == Ordered({i \in DOMAIN named : \A j \in DOMAIN named : j < i => named[j] # named[i]})
    IN  [n \in DOMAIN firsts |-> named[firsts[n]]]

SelectTyped(line) ==
    IF Len(line) = 1 /\ line[1].lo = line[1].hi /\ InRange(line[1]) THEN Ends("answered", <<line[1].lo - 1>>) ELSE Stays
\* Nothing typed is the default.
MultiTyped(line) ==
    LET chosen == IF line = <<>> THEN Ticked ELSE parse_selection(line)
    IN  IF (\A i \in DOMAIN line : InRange(line[i])) /\ (chosen # <<>> \/ anything)
        THEN Ends("answered", chosen) ELSE Stays
TextTyped(line) ==
    LET value == IF line = <<>> THEN IF anything THEN Default ELSE <<>> ELSE IF InRange(line[1]) THEN <<"two">> ELSE <<"a">>
    IN  IF anything \/ Valid(value) THEN Ends("answered", value) ELSE Stays

Type ==
    /\ status = "asking" /\ typing
    /\ \/ \E line \in Lines :
             CASE widget = "select" -> SelectTyped(line) [] widget = "multi" -> MultiTyped(line) [] OTHER -> TextTyped(line)
       \/ widget = "multi" /\ Ends("answered", Options)   \* "all"
       \/ Ends("back", <<>>)
       \/ Ends("quit", <<>>)          \* or the end of the input
    /\ UNCHANGED <<widget, count, anything, typing, keyVars>>

\* isdigit() holds of a superscript, of which int() makes no number.
Superscript ==
    /\ status = "asking" /\ typing /\ widget = "select"
    /\ Ends("raised", <<>>)
    /\ UNCHANGED <<widget, count, anything, typing, keyVars>>

\* The user has gone on, or presses nothing more.
Idle == (status # "asking" \/ keys = MaxKeys) /\ UNCHANGED vars

Next == Press \/ Arrive \/ Read \/ Expire \/ Type \/ Superscript \/ Idle

-----------------------------------------------------------------------------
\* An answer that the question allows.
Allowed ==
    CASE widget = "select" -> Len(answer) = 1 /\ answer[1] \in 0 .. count - 1
      [] widget = "multi" ->
           /\ ToSet(answer) \subseteq 0 .. count - 1 /\ IsInjective(answer)
           /\ anything \/ answer # <<>>
      [] OTHER -> anything \/ Valid(answer)

(* What a screen returns is what its user chose (tui.py 126-155, 244-516): *)
(* the answer is one the question allows, the option it is chosen by is on *)
(* the screen, keys are heard as they were pressed, and a screen is only   *)
(* left on a key that says so, even where keys arrive in pieces.           *)
AnswersAreTheUsers ==
    /\ status = "answered" => Allowed
    /\ cursor \in Window
    /\ ~cut => IsPrefix(heard, pressed)
    /\ status = "quit" /\ ~typing => {"q", "CTRL_C"} \cap ToSet(pressed) # {}
    /\ status = "back" /\ ~typing => cut \/ {"ESC", "LEFT"} \cap ToSet(pressed) # {}

-----------------------------------------------------------------------------
(* Back is a key of its own (tui.py 62, 138): not so over a slow line,     *)
(* where the first byte of an arrow is taken for Esc.                      *)
BackIsAKey == status = "back" /\ ~typing => {"ESC", "LEFT"} \cap ToSet(pressed) # {}
=============================================================================
