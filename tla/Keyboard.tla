------------------------------ MODULE Keyboard ------------------------------
(***************************************************************************)
(* From the keys of a PC keyboard to what the console is told: the keyboard*)
(* sends a byte or, for the keys with a prefix, two bytes when a key goes  *)
(* down, again while it is held, and when it is let go; the handler        *)
(* (kernel/keyboard.c) takes one byte per interrupt, keeps the state of    *)
(* modifiers, locks and prefix, and calls function (kernel/console.c) with *)
(* a copy.  The tables are those of kernel/keyboard.h, kernel/scan_codes.h *)
(* and kernel/chars.h, characters as their ASCII numbers.                  *)
(*                                                                         *)
(* The keyboard is not code of the kernel.  It keeps bytes until they are  *)
(* read and drops the bytes of a key that finds no room.                   *)
(*                                                                         *)
(* A definition whose name has an underscore and a few words after that of *)
(* another definition is that definition with a plausible mistake: the     *)
(* properties below must reject it.                                        *)
(***************************************************************************)
EXTENDS Integers, Sequences, FiniteSets, SequencesExt

CONSTANTS
    Keys,       \* keys that are used: [code |-> scan code, e0 |-> prefix]
    MaxHeld,    \* bound: keys held at the same time
    Buffer      \* bytes the keyboard keeps

Key(c, e) == [code |-> c, e0 |-> e]
None == Key(0, FALSE)

ASSUME KeyboardAssumption ==
    /\ Keys \subseteq [code : 1 .. 88, e0 : BOOLEAN]
    /\ MaxHeld \in Nat /\ Buffer \in Nat

VARIABLES
    held,       \* keys that are down
    recent,     \* the key that repeats while it is held, or None
    wire,       \* bytes on their way, with their key and the Shift of then
    lost,       \* modifier keys whose last bytes were dropped
    keyState,   \* what the handler keeps (key, Pressed: only in a call)
    owner,      \* history: the key whose prefix the handler keeps, or None
    event       \* the call of function that was just made, or NoEvent

hands == <<held, recent, lost>>
keyboardVars ==
    <<held, recent, wire, lost, keyState, owner, event>>

-----------------------------------------------------------------------------
(***************************************************************************)
(* The tables.                                                             *)
(***************************************************************************)
KEY_LSHIFT == 42
KEY_RSHIFT == 84
KEY_LCTRL == 29
KEY_LALT == 56
KEY_CAPSLOCK == 58
KEY_KP_NUMLOCK == 69
KEY_SCROLLLOCK == 16400
KEY_KP_ENTER == 28
KEY_BACKSPACE == 8
KEY_C == 99
KEY_ESCAPE == 4097
KEY_RALT == 16392
KEY_UNKNOWN == 16402
PREFIX == 224
E0 == PREFIX * 256
KEY_UP == E0 + 72
KEY_DOWN == E0 + 80
KEY_LEFT == E0 + 75
KEY_RIGHT == E0 + 77
KEY_DELETE == E0 + 83

Digits == <<49, 50, 51, 52, 53, 54, 55, 56, 57, 48>>
Qwerty == <<113, 119, 101, 114, 116, 121, 117, 105, 111, 112>>
Asdf == <<97, 115, 100, 102, 103, 104, 106, 107, 108>>
Zxcv == <<122, 120, 99, 118, 98, 110, 109>>
Upper(row) == [i \in DOMAIN row |-> row[i] - 32]

(* The function keys have the numbers of characters.                       *)
FunctionKeys == <<59, 60, 61, 62, 63, 64, 65, 66, 67, 68>>
Keypad == <<55, 56, 57, 45, 52, 53, 54, 43, 49, 50, 51, 48, 46>>

(* scancode[i] is the element i + 1.                                       *)
scancode ==
    <<KEY_UNKNOWN, KEY_ESCAPE>> \o Digits \o <<45, 61, KEY_BACKSPACE, 15>>
    \o Qwerty \o <<91, 93, 13, KEY_LCTRL>>
    \o Asdf \o <<59, 39, 96, KEY_LSHIFT, 92>>
    \o Zxcv \o <<44, 46, 47, KEY_RSHIFT, 42, KEY_RALT, 32, KEY_CAPSLOCK>>
    \o FunctionKeys
    \o <<KEY_KP_NUMLOCK, KEY_SCROLLLOCK>>
    \o Keypad
    \o <<KEY_UNKNOWN, KEY_UNKNOWN, KEY_UNKNOWN, 87, 88>>

unshifted ==
    <<96>> \o Digits \o <<45, 61>> \o Qwerty \o <<91, 93, 92>>
    \o Asdf \o <<59, 39>> \o Zxcv \o <<44, 46, 47, 32>>

(* The compiler reads \Q as Q.                                             *)
shifted ==
    <<126, 33, 64, 35, 36, 37, 94, 38, 42, 40, 41, 95, 43>>
    \o Upper(Qwerty) \o <<123, 125, 124>>
    \o Upper(Asdf) \o <<58, 124>> \o Upper(Zxcv) \o <<60, 62, 63, 32>>

Letters == ToSet(Qwerty) \cup ToSet(Asdf) \cup ToSet(Zxcv)
toLower(c) == IF c \in 65 .. 90 THEN c + 32 ELSE c

-----------------------------------------------------------------------------
LSHIFT == Key(KEY_LSHIFT, FALSE)
LCTRL == Key(KEY_LCTRL, FALSE)
RCTRL == Key(KEY_LCTRL, TRUE)

(* The codes that stand for a modifier, with or without a prefix, and the  *)
(* keys that have them.  (The code 54 of the right Shift is none.)         *)
Modifiers == {"Shift", "Ctrl", "Alt"}
SetBy(f) == CASE f = "Shift" -> {KEY_LSHIFT, KEY_RSHIFT}
              [] f = "Ctrl"  -> {KEY_LCTRL}
              [] f = "Alt"   -> {KEY_LALT}
KeysOf(f) == {k \in Keys : k.code \in SetBy(f)}
ModifierKeys == UNION {KeysOf(f) : f \in Modifiers}

NoEvent == [key |-> 0, does |-> <<"nothing", 0>>, of |-> None,
            shift |-> FALSE, sure |-> FALSE, caps |-> FALSE, prefix |-> None]

KeyStatus ==
    [NumLock : BOOLEAN, ScrollLock : BOOLEAN, CapsLock : BOOLEAN,
     Shift : BOOLEAN, Ctrl : BOOLEAN, Alt : BOOLEAN, e0_received : BOOLEAN]

(* The function leaves e0_received alone, and nothing clears the memory    *)
(* behind the file of the kernel.                                          *)
KeyboardInit ==
    /\ held = {} /\ recent = None
    /\ wire = <<>> /\ lost = {}
    /\ keyState \in KeyStatus
    /\ ~keyState.NumLock /\ ~keyState.ScrollLock /\ ~keyState.CapsLock
    /\ ~keyState.Shift /\ ~keyState.Ctrl /\ ~keyState.Alt
    /\ owner = None
    /\ event = NoEvent

-----------------------------------------------------------------------------
(***************************************************************************)
(* The keyboard.                                                           *)
(***************************************************************************)
Send(k, release, down) ==
    LET types == ~release /\ ~k.e0 /\ scancode[k.code + 1] \in Letters
        entry(b) == [byte |-> b, key |-> k,
                     shift |-> types /\ KeysOf("Shift") \cap down # {},
                     sure |-> /\ types /\ KeysOf("Shift") \cap lost = {}
                              /\ \A i, j \in KeysOf("Shift") : i = j]
        bytes == (IF k.e0 THEN <<entry(PREFIX)>> ELSE <<>>)
                   \o <<entry(k.code + (IF release THEN 128 ELSE 0))>>
    IN  /\ IF Len(wire \o bytes) <= Buffer
           THEN /\ wire' = wire \o bytes
                /\ lost' = lost \ {k}
           ELSE /\ lost' = lost \cup ({k} \cap ModifierKeys)
                /\ UNCHANGED wire
        /\ held' = down
        /\ event' = NoEvent
        /\ UNCHANGED <<keyState, owner>>

Press(k) ==
    /\ k \notin held /\ Cardinality(held) < MaxHeld
    /\ recent' = k
    /\ Send(k, FALSE, held \cup {k})

Repeat ==
    /\ recent # None
    /\ Send(recent, FALSE, held)
    /\ UNCHANGED recent

Release(k) ==
    /\ k \in held
    /\ recent' = IF recent = k THEN None ELSE recent
    /\ Send(k, TRUE, held \ {k})

-----------------------------------------------------------------------------
(***************************************************************************)
(* What function does with a key while a command is waited for.  A code    *)
(* behind the end of scancode reads what happens to be there.              *)
(***************************************************************************)
Cursor == [k \in {KEY_UP, KEY_DOWN, KEY_LEFT, KEY_RIGHT, KEY_DELETE,
                  KEY_KP_ENTER} |->
             CASE k = KEY_UP    -> "Up"   [] k = KEY_DOWN   -> "Down"
               [] k = KEY_LEFT  -> "Left" [] k = KEY_RIGHT  -> "Right"
               [] k = KEY_DELETE -> "Delete" [] OTHER -> "Enter"]

findChar(str, c) == {i \in DOMAIN str : str[i] = c % 256}

Function(k) ==
    LET code == scancode[k.key + 1]
        pos  == findChar(unshifted, code)
        i    == CHOOSE p \in pos : TRUE
        key  == IF ~k.Shift THEN unshifted[i]
                ELSE IF k.CapsLock THEN toLower(shifted[i])
                ELSE shifted[i]
    IN  CASE ~k.Pressed -> <<"nothing", 0>>
          [] k.key \in DOMAIN Cursor -> <<Cursor[k.key], 0>>
          [] k.key >= Len(scancode) -> <<"outside", 0>>
          [] code = KEY_BACKSPACE -> <<"BackSpace", 0>>
          [] code = KEY_C /\ k.Ctrl -> <<"Ctrl-C", 0>>
          [] pos = {} -> <<"nothing", 0>>
          [] OTHER -> <<"char", key>>

-----------------------------------------------------------------------------
(***************************************************************************)
(* KeyboardInterruptHandler, a byte at a time.                             *)
(***************************************************************************)
ToggledBy(f) == CASE f = "NumLock"    -> KEY_KP_NUMLOCK
                  [] f = "ScrollLock" -> KEY_SCROLLLOCK
                  [] f = "CapsLock"   -> KEY_CAPSLOCK
Locks == {"NumLock", "ScrollLock", "CapsLock"}

(* status & 0x01: there is a byte.                                         *)
Takes(b) == wire # <<>> /\ Head(wire).byte = b /\ wire' = Tail(wire)

LockByte ==
    /\ \E f \in Locks : /\ Takes(ToggledBy(f))
                        /\ keyState' = [keyState EXCEPT ![f] = ~@]
    /\ event' = NoEvent
    /\ UNCHANGED <<hands, owner>>

ModifierByte_Toggles ==
    /\ \E f \in Modifiers : \E c \in SetBy(f) : \E r \in {0, 128} :
          /\ Takes(c + r)
          /\ keyState' = [keyState EXCEPT ![f] = ~@]
    /\ event' = NoEvent
    /\ UNCHANGED <<hands, owner>>

ModifierByte ==
    /\ \E f \in Modifiers : \E c \in SetBy(f) : \E r \in {0, 128} :
          /\ Takes(c + r)
          /\ keyState' = [keyState EXCEPT ![f] = (r = 0)]
    /\ event' = NoEvent
    /\ UNCHANGED <<hands, owner>>

PrefixByte ==
    /\ Takes(PREFIX)
    /\ keyState' = [keyState EXCEPT !.e0_received = TRUE]
    /\ owner' = Head(wire).key
    /\ event' = NoEvent
    /\ UNCHANGED hands

Named == {ToggledBy(f) : f \in Locks} \cup {PREFIX}
           \cup UNION {SetBy(f) \cup {c + 128 : c \in SetBy(f)} : f \in Modifiers}

(* What function reads of the copy that it gets; key and Pressed are       *)
(* written for one call and not read again.                                *)
Call(b) ==
    [key |-> (IF keyState.e0_received THEN E0 ELSE 0) + (b % 128),
     Pressed |-> b < 128, Shift |-> keyState.Shift,
     Ctrl |-> keyState.Ctrl, CapsLock |-> keyState.CapsLock]

Deliver(copyState) ==
    LET by == Head(wire)
    IN  /\ owner' = IF keyState'.e0_received THEN owner ELSE None
        /\ event' = [key |-> copyState.key, does |-> Function(copyState),
                     of |-> by.key, shift |-> by.shift, sure |-> by.sure,
                     caps |-> copyState.CapsLock,
                     prefix |-> IF keyState.e0_received THEN owner ELSE by.key]
        /\ UNCHANGED hands

KeyByte_PrefixStays ==
    /\ wire # <<>> /\ Head(wire).byte \notin Named /\ wire' = Tail(wire)
    /\ UNCHANGED keyState
    /\ Deliver(Call(Head(wire).byte))

KeyByte ==
    /\ wire # <<>> /\ Head(wire).byte \notin Named /\ wire' = Tail(wire)
    /\ keyState' = [keyState EXCEPT !.e0_received = FALSE]
    /\ Deliver(Call(Head(wire).byte))

KeyboardNext ==
    \/ \E k \in Keys : Press(k) \/ Release(k)
    \/ Repeat
    \/ LockByte \/ ModifierByte \/ PrefixByte \/ KeyByte

KeyboardSpec == KeyboardInit /\ [][KeyboardNext]_keyboardVars

-----------------------------------------------------------------------------
(***************************************************************************)
(* Properties.                                                             *)
(***************************************************************************)
(* Every byte of these keys was kept and has been handled.                 *)
Settled(keys) ==
    /\ keys \cap lost = {}
    /\ \A i \in DOMAIN wire : wire[i].key \notin keys

(* No modifier gets stuck: one that the handler takes for held is held,    *)
(* and if only one key stands for it, also the other way round, whatever   *)
(* was pressed, repeated, dropped and delayed before.  (With two keys held *)
(* the first release ends both.)                                           *)
ModifiersFollowKeys ==
    \A f \in Modifiers : Settled(KeysOf(f)) =>
        /\ keyState[f] => held \cap KeysOf(f) # {}
        /\ \A k \in held : KeysOf(f) = {k} => keyState[f]

(* The keys whose byte after the prefix is handled without it.             *)
KeepPrefix == {k \in Keys : k.e0 /\ k.code \in Named}

(* A key is reported as itself, with its prefix, and a letter is typed in  *)
(* the case that Shift asked for when the key went down, however late its  *)
(* byte is handled.  CapsLock does not change that case but undoes Shift.  *)
(* The exception is a prefix that was kept from before: that comes from a  *)
(* modifier, such as the right Ctrl or Alt, or is what memory held at the  *)
(* start.                                                                  *)
KeyIsReported ==
    event # NoEvent =>
        \/ event.prefix \in KeepPrefix \cup {None}
        \/ /\ event.prefix = event.of
           /\ event.key = event.of.code + (IF event.of.e0 THEN E0 ELSE 0)
           /\ event.does[1] = "outside" => event.of.e0
           /\ event.sure /\ event.does[2] + 32 \in Letters =>
                event.shift /\ ~event.caps
           /\ event.sure /\ event.does[2] \in Letters =>
                ~event.shift \/ event.caps
=============================================================================
