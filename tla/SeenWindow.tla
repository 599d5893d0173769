----------------------------- MODULE SeenWindow -----------------------------
(***************************************************************************)
(* What the storage SPI asks of markFamilySeen: the check and the update   *)
(* of a family are one step, over every pod (storage-provider.ts: "The     *)
(* check-and-update MUST be atomic").                                      *)
(***************************************************************************)
EXTENDS Integers

CONSTANTS Calls, Times, Window, NoClaim

VARIABLES
  last,   \* when the family was last seen
  claim   \* the call that last found it new

Init == last = 0 /\ claim = NoClaim

(* The family was never seen, or a window ago: c's sighting is new.        *)
New(c, t) ==
  /\ claim = NoClaim \/ t - last >= Window
  /\ last' = t
  /\ claim' = c

(* It is not: the window slides.                                           *)
Seen(t) ==
  /\ claim # NoClaim
  /\ t > last
  /\ last' = t
  /\ claim' = claim

Next == \E c \in Calls, t \in Times : New(c, t) \/ Seen(t)

Spec == Init /\ [][Next]_<<last, claim>>
=============================================================================
