---------------------------- MODULE CallDelivery -----------------------------
(***************************************************************************)
(* What a client may rely on about the tool calls of a streamed response:  *)
(* a call is settled once, as a whole, and none is left open by a stream   *)
(* that ends.                                                              *)
(***************************************************************************)
CONSTANTS Calls

Fates == {"open", "given", "refused", "reported"}

VARIABLES
    begun,      \* calls the upstream has sent some of
    fate,       \* of each call: given as a whole, refused, or reported as lost
    closed      \* the stream has ended

vars == <<begun, fate, closed>>

Init ==
    /\ begun = {}
    /\ fate = [c \in Calls |-> "open"]
    /\ closed = FALSE

Begin(c) ==
    /\ ~closed
    /\ fate[c] = "open"
    /\ begun' = begun \cup {c}
    /\ UNCHANGED <<fate, closed>>

Settle(c) ==
    /\ ~closed
    /\ fate[c] = "open"
    /\ fate' \in {[fate EXCEPT ![c] = f] : f \in {"given", "refused"}}
    /\ UNCHANGED <<begun, closed>>

\* A call of which nothing came may be counted among the lost, or not.
Close ==
    /\ ~closed
    /\ closed' = TRUE
    /\ fate' \in [Calls -> Fates]
    /\ \A c \in Calls :
          IF fate[c] = "open" /\ c \in begun THEN fate'[c] = "reported"
          ELSE fate'[c] = fate[c] \/ (fate[c] = "open" /\ fate'[c] = "reported")
    /\ UNCHANGED begun

Next == Close \/ \E c \in Calls : Begin(c) \/ Settle(c)

Spec == Init /\ [][Next]_vars
=============================================================================
