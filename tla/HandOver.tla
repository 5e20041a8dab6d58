------------------------------ MODULE HandOver ------------------------------
(***************************************************************************)
(* What the screen of a client may show, whoever receives and draws: each  *)
(* state that the server sent is shown whole or not at all, and never      *)
(* after a newer one.  The state n has Count[n] players, and all that is   *)
(* told apart of a player is the state it was received with.               *)
(***************************************************************************)
EXTENDS Naturals, Sequences

CONSTANT Count          \* how many players each state has

VARIABLES
    shown,      \* the players on the screen
    slot        \* the players received and not yet shown

handOverVars == <<shown, slot>>

WholeState(n) == [k \in 1..Count[n] |-> n]

IsNewer(n, older) == \A k \in DOMAIN older : older[k] < n

Init == shown = <<>> /\ slot = <<>>

Put(n) ==
    /\ slot = <<>>
    /\ IsNewer(n, shown)
    /\ slot' = WholeState(n)
    /\ UNCHANGED shown

Take ==
    /\ slot # <<>>
    /\ shown' = slot
    /\ slot' = <<>>

Next == Take \/ \E n \in DOMAIN Count : Put(n)

Spec == Init /\ [][Next]_handOverVars
=============================================================================
