--------------------------- MODULE MCPageSessions ---------------------------
(* Two wrbpods and one with a slot out of range, one app slot, one string. *)
EXTENDS PageSessions, TLC

CONSTANTS a, b, c, h, t, u

MCAddr == {a, b}
MCBigAddr == {c}
MCHandle == {h}
MCText == {t, u}
Symmetry == Permutations({a, b})
=============================================================================
