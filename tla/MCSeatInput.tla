----------------------------- MODULE MCSeatInput -----------------------------
(* Instances of SeatInput for TLC: a key that types a character, one that does *)
(* so without repeating, one whose character depends on the modifiers (as the  *)
(* German sharp s / question mark key), and Escape and Return.              *)
EXTENDS SeatInput, TLC

CONSTANTS a, n, q, esc, ret, base, upper

Always(kind) == [l \in {base, upper} |-> kind]

AllKeySym ==
  (a :> Always("ascii")) @@ (n :> Always("ascii")) @@ (q :> (base :> "other" @@ upper :> "ascii"))
    @@ (esc :> Always("Escape")) @@ (ret :> Always("Return"))

MCKeySym == [k \in Keys |-> AllKeySym[k]]
MCKeyRepeats == Keys \ {n}
=============================================================================
