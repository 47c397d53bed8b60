--------------------------- MODULE ProblemBindings ---------------------------
(***************************************************************************)
(* How a Claim comes to stand on the page of a Problem.  Sources keep      *)
(* records of Problems and change them; people review which records belong *)
(* to one Problem and write that into the resolver                         *)
(* (problem-resolution.v1.json); the packet of a correction pins what its  *)
(* reviewer saw; a build publishes the records with the Claims bound to    *)
(* them (math-source-projection.mjs, projection-builder.mjs); and a site   *)
(* built from the same main reads the release (index.ts).                  *)
(*                                                                         *)
(* An occurrence is a record that a Source has under one name; the         *)
(* canonical occurrence of a Problem is named by the Problem.  A content   *)
(* root is a number, and 0 is no record.  An entity is the function from   *)
(* its occurrences to the roots that were reviewed.                        *)
(***************************************************************************)
EXTENDS Naturals, FiniteSets, Sequences

CONSTANTS
    Problems,
    References,   \* occurrences beside the canonical ones
    Claims,       \* a sequence, in the order the Core reader lists them
    Named,        \* Claim -> the occurrence that its own text names, or None
    Corrects,     \* Claim -> the Claim it corrects, or None
    Whole,        \* Claims whose packet is of the schema that pins no entity
    Changing,     \* bound: occurrences that their Source changes
    MaxRoot,      \* bound: content roots of an occurrence
    MaxReviews,   \* bound: changes of the resolver
    None

VARIABLES
    records,    \* what the Sources keep, as last acquired
    resolver,   \* the resolver on main, entity by Problem, or None
    reviews,    \* how often it was changed
    claims,     \* the Claims of the Repository, with their packets
    release     \* the rows a reader is given, and the resolver of its site

vars == <<records, resolver, reviews, claims, release>>

Occurrences == Problems \cup References
ClaimSet    == {Claims[n] : n \in DOMAIN Claims}
ContentRoots == 1 .. MaxRoot
Standings   == {"none", "unassessed", "accepted", "superseded"}

IsEntity(p, entity) ==
    \E refs \in SUBSET References \ {{}} :
      entity \in [{p} \cup refs -> ContentRoots]

(* pinned is the entity as it was when the packet was written.             *)
IsPacket(packet) ==
    /\ packet.problem \in Problems
    /\ IsEntity(packet.problem, packet.pinned)
    /\ packet.selected \in SUBSET References \ {{}}

ConstantsTyped ==
    /\ Problems \cap References = {}
    /\ Claims \in Seq(ClaimSet)
    /\ Corrects \in [ClaimSet -> ClaimSet \cup {None}]
    /\ MaxRoot \in Nat \ {0} /\ MaxReviews \in Nat

(* reviewedOccurrences of an entity: all but the canonical one.            *)
Reviewed(p, entity) == DOMAIN entity \ {p}

-----------------------------------------------------------------------------
(* Faulty variant of Valid: the canonical occurrences alone are compared.  *)
ValidCanonical(entities) ==
    \A p, q \in Problems :
      p # q /\ entities[p] # None => q \notin DOMAIN entities[p]

(* parseProblemResolutionConfig: no occurrence in two entities.            *)
Valid(entities) ==
    \A p, q \in Problems :
      p # q /\ entities[p] # None /\ entities[q] # None =>
        DOMAIN entities[p] \cap DOMAIN entities[q] = {}

(* A Source changes a record, or drops it.                                 *)
Change(o) ==
    /\ \E root \in {0, records[o] + 1} \cap 0 .. MaxRoot :
         /\ root # records[o]
         /\ o \in Problems => root # 0
         /\ records' = [records EXCEPT ![o] = root]
    /\ UNCHANGED <<resolver, reviews, claims, release>>

(* A change of the resolver, merged only if it parses: each root is the    *)
(* record's own or the one that was reviewed before.                       *)
Review(p) ==
    /\ reviews < MaxReviews
    /\ \E refs \in SUBSET References \ {{}} :
       \E entity \in [{p} \cup refs -> ContentRoots] :
         /\ entity # resolver[p]
         /\ \A o \in DOMAIN entity :
              \/ entity[o] = records[o]
              \/ resolver[p] # None /\ o \in DOMAIN resolver[p]
                                    /\ entity[o] = resolver[p][o]
         /\ resolver' = [resolver EXCEPT ![p] = entity]
         /\ Valid(resolver')
    /\ reviews' = reviews + 1
    /\ UNCHANGED <<records, claims, release>>

-----------------------------------------------------------------------------
(* Core commands, as the build relies on them.  A correction may bring a   *)
(* packet, of the entity as it is now.                                     *)
PacketsOf(p) ==
    IF resolver[p] = None THEN {}
    ELSE {[problem |-> p, pinned |-> resolver[p], selected |-> selected] :
            selected \in SUBSET Reviewed(p, resolver[p]) \ {{}}}

Propose(c) ==
    /\ Corrects[c] # None
    /\ claims[c].standing = "none"
    /\ claims[Corrects[c]].standing = "accepted"
    /\ \E packet \in {None} \cup UNION {PacketsOf(p) : p \in Problems} :
         claims' = [claims EXCEPT
                      ![c] = [standing |-> "unassessed", packet |-> packet]]
    /\ UNCHANGED <<records, resolver, reviews, release>>

Accept(c) ==
    /\ claims[c].standing = "unassessed"
    /\ claims' = [claims EXCEPT ![c].standing = "accepted",
                                ![Corrects[c]].standing = "superseded"]
    /\ UNCHANGED <<records, resolver, reviews, release>>

-----------------------------------------------------------------------------
HasPacket(c) == claims[c].packet # None

(* Faulty variant of RootPinned: a packet pins the whole resolver, so any  *)
(* entity added since counts against it.                                   *)
RootPinnedWhole(c) ==
    /\ resolver[claims[c].packet.problem] = claims[c].packet.pinned
    /\ \A p \in Problems \ {claims[c].packet.problem} : resolver[p] = None

(* resolver_root of a packet: problemResolutionEntityRoot, or a literal.   *)
RootPinned(c) ==
    c \in Whole \/ resolver[claims[c].packet.problem] = claims[c].packet.pinned

(* reviewedClaimSubjectOccurrences, without the standing of the Claim.     *)
Resolves(c) ==
    LET packet == claims[c].packet
        entity == resolver[packet.problem]
    IN  /\ entity # None
        /\ RootPinned(c)
        /\ entity[packet.problem] = packet.pinned[packet.problem]
        /\ \A o \in packet.selected :
             /\ o \in Reviewed(packet.problem, entity)
             /\ entity[o] = packet.pinned[o]

(* Faulty variant of InSources: the record may have changed since.         *)
InSourcesByName(c) == \A o \in claims[c].packet.selected : records[o] # 0

(* What the packet binds is in the Source observation of this release.     *)
InSources(c) ==
    \A o \in claims[c].packet.selected :
      records[o] = resolver[claims[c].packet.problem][o]

Bindable(c) ==
    /\ claims[c].standing \in {"accepted", "superseded"}
    /\ Resolves(c)
    /\ InSources(c)

Binding  == [claim : ClaimSet, occurrence : Occurrences]
Grouping == [problem : Problems, occurrence : References,
             decidedBy : ClaimSet \cup {None}]

(* A Claim with a packet is bound to what it selects; another to the       *)
(* record that its text names, or to the Source alone if there is none.    *)
Bindings ==
    {b \in Binding :
       IF HasPacket(b.claim)
       THEN b.occurrence \in claims[b.claim].packet.selected
       ELSE /\ claims[b.claim].standing # "none"
            /\ b.occurrence = Named[b.claim]
            /\ records[b.occurrence] # 0}

(* packetBoundOccurrences: of several packets the last one is named.       *)
Binders(p, o) ==
    {n \in DOMAIN Claims : /\ HasPacket(Claims[n])
                           /\ claims[Claims[n]].packet.problem = p
                           /\ o \in claims[Claims[n]].packet.selected}

LastBinder(p, o) ==
    IF Binders(p, o) = {} THEN None
    ELSE Claims[CHOOSE n \in Binders(p, o) : \A m \in Binders(p, o) : m <= n]

(* projectFrontierEdges: the edges named grouped_with.                     *)
Groupings ==
    {g \in Grouping :
       /\ resolver[g.problem] # None
       /\ g.occurrence \in Reviewed(g.problem, resolver[g.problem])
       /\ records[g.occurrence] # 0
       /\ g.decidedBy = LastBinder(g.problem, g.occurrence)}

(* buildProjection, as far as Claims and Problems go.                      *)
Build ==
    /\ \A c \in ClaimSet : HasPacket(c) => Bindable(c)
    /\ release' = [rows      |-> records,
                   standing  |-> [c \in ClaimSet |-> claims[c].standing],
                   bindings  |-> Bindings,
                   groupings |-> Groupings,
                   resolver  |-> resolver]
    /\ UNCHANGED <<records, resolver, reviews, claims>>

-----------------------------------------------------------------------------
(* What a reader is shown.                                                 *)

(* reviewedProblemBindingOccurrences: the canonical record as it is, or    *)
(* what the site's resolver reviewed.                                      *)
BindingOccurrences(p) ==
    IF release.resolver[p] = None
    THEN [o \in {p} |-> release.rows[p]]
    ELSE release.resolver[p]

CanonicalDrifted(p) == BindingOccurrences(p)[p] # release.rows[p]

(* problemDetail: bindings to exactly these records.                       *)
BoundTo(p) ==
    {b \in release.bindings :
       /\ b.occurrence \in DOMAIN BindingOccurrences(p)
       /\ release.rows[b.occurrence] = BindingOccurrences(p)[b.occurrence]}

CurrentClaims(p) ==
    {c \in {b.claim : b \in BoundTo(p)} : release.standing[c] # "superseded"}

(* problemClaimsFromBindingRows: two current Claims are refused.           *)
Page(p) ==
    IF \/ release = None
       \/ CanonicalDrifted(p)
       \/ Cardinality(CurrentClaims(p)) > 1
    THEN None ELSE BoundTo(p)

-----------------------------------------------------------------------------
Init ==
    /\ records = [o \in Occurrences |-> 1]
    /\ resolver = [p \in Problems |-> None]
    /\ reviews = 0
    /\ claims = [c \in ClaimSet |->
                   [standing |-> IF Corrects[c] = None THEN "accepted" ELSE "none",
                    packet   |-> None]]
    /\ release = None

Next ==
    \/ \E o \in Changing : Change(o)
    \/ \E p \in Problems : Review(p)
    \/ \E c \in ClaimSet : Propose(c) \/ Accept(c)
    \/ Build

Spec == Init /\ [][Next]_vars

-----------------------------------------------------------------------------
(* Properties.                                                             *)

(* Every variable is of its type, and the resolver is one that parses.     *)
TypeOK ==
    /\ records \in [Occurrences -> ContentRoots \cup {0}]
    /\ \A p \in Problems : resolver[p] = None \/ IsEntity(p, resolver[p])
    /\ Valid(resolver)
    /\ reviews \in 0 .. MaxReviews
    /\ \A c \in ClaimSet : /\ claims[c].standing \in Standings
                           /\ claims[c].packet = None \/ IsPacket(claims[c].packet)
    /\ release # None =>
         /\ release.rows \in [Occurrences -> ContentRoots \cup {0}]
         /\ release.bindings \subseteq Binding
         /\ release.groupings \subseteq Grouping

AsPinned(c, o) ==
    /\ o \in claims[c].packet.selected
    /\ release.rows[o] = claims[c].packet.pinned[o]

(* projection-builder.mjs:1117-1120: what a release says was bound by a    *)
(* Decision is exactly what the reviewer of that Claim saw, although       *)
(* Sources change, entities are reviewed again and corrections are         *)
(* corrected between the packet and the build.                             *)
BoundAsReviewed ==
    release # None =>
      /\ \A b \in release.bindings :
           HasPacket(b.claim) => AsPinned(b.claim, b.occurrence)
      /\ \A g \in release.groupings : g.decidedBy # None =>
           /\ AsPinned(g.decidedBy, g.occurrence)
           /\ claims[g.decidedBy].packet.problem = g.problem
           /\ release.standing[g.decidedBy] \in {"accepted", "superseded"}

StayBound ==
    \A c \in ClaimSet :
      (/\ HasPacket(c) /\ Resolves(c)
       /\ resolver'[claims[c].packet.problem] = resolver[claims[c].packet.problem])
        => Resolves(c)'

(* problem-resolution.ts:144-145: a change of the entity of another        *)
(* Problem leaves every binding exactly as valid as it was.                *)
OthersStayBound == [][StayBound]_vars

(* index.ts:3166: a site built with the resolver that its release was      *)
(* built with shows a reviewed Claim on the page of the Problem that the   *)
(* packet names, and on no other.                                          *)
ShownOnOwnProblem ==
    release # None =>
      \A p \in Problems : Page(p) # None =>
        \A b \in Page(p) :
          HasPacket(b.claim) => claims[b.claim].packet.problem = p
=============================================================================
