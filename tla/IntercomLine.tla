---------------------------- MODULE IntercomLine ----------------------------
(***************************************************************************)
(* What the integration promises of the intercom's line, whatever its      *)
(* handlers do in between: one use at a time, for one call, and only the    *)
(* ways of a telephone from one use to the next.                            *)
(***************************************************************************)
CONSTANTS Calls, None

VARIABLES
    use,   \* what the line is used for
    user   \* the call that uses it

vars == <<use, user>>

Uses == {"idle", "calling", "ringing", "talking"}

Init == use = "idle" /\ user = None

\* A call of ours, or a ring of the panel, takes an idle line.
Taken(c) == /\ use = "idle"
            /\ use' \in {"calling", "ringing"}
            /\ user' = c

\* The same call is picked up, by the panel or by us.
PickedUp == /\ use \in {"calling", "ringing"}
            /\ use' = "talking"
            /\ UNCHANGED user

\* Hung up, declined, cancelled, expired or failed.
Freed == /\ use # "idle"
         /\ use' = "idle"
         /\ user' = None

Next == (\E c \in Calls : Taken(c)) \/ PickedUp \/ Freed

Spec == Init /\ [][Next]_vars

\* A weaker promise.  The line may forget whose call it carries, as long as it does not
\* take it for another's.
Forgotten == /\ use \in {"calling", "talking"}
             /\ user' = None
             /\ UNCHANGED use

ForgetfulSpec == Init /\ [][Next \/ Forgotten]_vars

=============================================================================
