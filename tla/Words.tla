-------------------------------- MODULE Words --------------------------------
(* Unsigned arithmetic of the w-bit words of hyaline (type_t of the macros). *)
EXTENDS Integers

CONSTANT Mod      \* 2^w

Word == 0 .. Mod - 1

\* Mutant of AddW: a counter twice as wide as the shares are computed for.
AddWide(x, v) == (x + v) % (Mod * Mod)

AddW(x, v) == IF x + v >= Mod THEN x + v - Mod ELSE x + v
NegW(v) == IF v = 0 THEN 0 ELSE Mod - v
MinusOne == Mod - 1
=============================================================================
