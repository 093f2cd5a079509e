----------------------------- MODULE MCKeyboard -----------------------------
(* Model checking of Keyboard: a letter, a shift key pressed and let go, a  *)
(* lock key, half of the pause key (the other half has the same form) and   *)
(* an arrow key, in any order.                                              *)
EXTENDS Keyboard
MCKeystrokes ==
    {<<30>>, <<42>>, <<170>>, <<CapsLock>>, <<Pause, 29, 69>>, <<Extended, 72>>}
=============================================================================
