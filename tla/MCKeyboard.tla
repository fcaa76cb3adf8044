----------------------------- MODULE MCKeyboard -----------------------------
EXTENDS Keyboard

C == Key(46, FALSE)
LEFT == Key(75, TRUE)
CAPSLOCK == Key(KEY_CAPSLOCK, FALSE)

MCKeys == {LSHIFT, LCTRL, RCTRL, CAPSLOCK, C, LEFT}
=============================================================================
