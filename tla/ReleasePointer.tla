--------------------------- MODULE ReleasePointer ---------------------------
(***************************************************************************)
(* What the site relies on when it reads projection.current_release: one   *)
(* pointer that always names a release that went live, whose first-live    *)
(* instant never changes for as long as the release is kept.               *)
(***************************************************************************)
EXTENDS Naturals

CONSTANTS Roots, None

VARIABLES
    current,   \* the live release, or None
    firstLive  \* root -> instant it first went live; 0 if never or forgotten

vars == <<current, firstLive>>

Init ==
    /\ current = None
    /\ firstLive = [c \in Roots |-> 0]

(* A release goes live, keeping the instant of its first time if it has    *)
(* one, and touching no other release.                                     *)
Publish(c) ==
    /\ c # current
    /\ current' = c
    /\ firstLive'[c] # 0
    /\ firstLive[c] # 0 => firstLive'[c] = firstLive[c]
    /\ firstLive' = [firstLive EXCEPT ![c] = firstLive'[c]]

(* Pruning forgets releases, never the live one.                           *)
Forget(gone) ==
    /\ current \notin gone
    /\ firstLive' = [c \in Roots |-> IF c \in gone THEN 0 ELSE firstLive[c]]
    /\ UNCHANGED current

Next ==
    \/ \E c \in Roots : Publish(c)
    \/ Forget({c \in Roots : firstLive[c] # 0 /\ firstLive'[c] = 0})

Spec == Init /\ [][Next]_vars

=============================================================================
