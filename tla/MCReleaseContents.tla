------------------------- MODULE MCReleaseContents -------------------------
(* What a projection release holds: the store of releases, and the Claims  *)
(* that a build binds to Problems.  The two share no state here, so a      *)
(* behaviour is one of them, chosen at the start.                          *)
EXTENDS MCProjectionRelease

CONSTANTS p1, p2, f, g, newer, new, old, other,
          Problems, References, Claims, Named, Corrects, Whole, Changing,
          MaxRoot, MaxReviews

VARIABLES part, records, resolver, reviews, claims, bound

Problem == INSTANCE ProblemBindings WITH release <- bound

ASSUME BindingsAssumption == Problem!ConstantsTyped

(* A chain of two corrections, and a Claim that names f in its own text.   *)
MCClaims   == <<newer, old, new, other>>
MCCorrects == (old :> None) @@ (new :> old) @@ (newer :> new) @@ (other :> None)
MCNamed    == (old :> p1) @@ (new :> None) @@ (newer :> None) @@ (other :> f)

store   == vars
binding == <<records, resolver, reviews, claims, bound>>

OfStore    == part = "store" /\ UNCHANGED <<part, binding>>
OfBindings == part = "bindings" /\ UNCHANGED <<part, store>>

MCInit ==
    /\ part \in {"store", "bindings"}
    /\ Init
    /\ Problem!Init

MCNext ==
    \/ \E r \in Refreshers : OfStore /\ Refresh(r)
    \/ \E c \in Roots : OfStore /\ Select(c)
    \/ OfStore /\ Prune
    \/ \E o \in Changing : OfBindings /\ Problem!Change(o)
    \/ \E p \in Problems : OfBindings /\ Problem!Review(p)
    \/ \E c \in Problem!ClaimSet :
         \/ OfBindings /\ Problem!Propose(c)
         \/ OfBindings /\ Problem!Accept(c)
    \/ OfBindings /\ Problem!Build

MCSpec == MCInit /\ [][MCNext]_<<part, store, binding>>

(* math-source-projection.mjs: the state of the bindings is of its types,  *)
(* and what a release binds is what was reviewed.                          *)
BindingsReviewed == Problem!TypeOK /\ Problem!BoundAsReviewed

OthersStayBound   == Problem!OthersStayBound
ShownOnOwnProblem == Problem!ShownOnOwnProblem
=============================================================================
