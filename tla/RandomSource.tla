--------------------------- MODULE RandomSource ---------------------------
(***************************************************************************)
(* What TracedRng promises its SCRAM caller (session.rs: "for keep the     *)
(* nonce used in scram auth"): a source of random values that, once the    *)
(* drawing is over, can hand the very same values out again, in order and  *)
(* never more of them than were drawn.                                     *)
(***************************************************************************)
EXTENDS Naturals, Sequences

CONSTANT Values

VARIABLES
    drawn,      \* values handed out while drawing
    replayed    \* values handed out again

srcVars == <<drawn, replayed>>

Init ==
    /\ drawn = <<>>
    /\ replayed = <<>>

(* A fresh random value, while nothing has been replayed yet.              *)
Draw ==
    /\ replayed = <<>>
    /\ \E v \in Values : drawn' = Append(drawn, v)
    /\ UNCHANGED replayed

(* The next drawn value is handed out again.                               *)
Replay ==
    /\ Len(replayed) < Len(drawn)
    /\ replayed' = Append(replayed, drawn[Len(replayed) + 1])
    /\ UNCHANGED drawn

Spec == Init /\ [][Draw \/ Replay]_srcVars

=============================================================================
