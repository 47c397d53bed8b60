-------------------------- MODULE MCAccountServices --------------------------
(* What the site keeps for its visitors besides workspace rows: server     *)
(* actions and tools, public profiles, pilot telemetry.  The three share   *)
(* no state, so their product shows nothing more than each of them: a      *)
(* behaviour is one of the first, the second or the third, chosen at the   *)
(* start.                                                                  *)
EXTENDS PilotTelemetry, TLC

CONSTANTS ann, bob, s1, s2, i1, i2, d1, d2, b1, b2, lab, v, w, h1, h2, admin,
          Members, Anchors, Slugs, Values, Forms, Plans, Before, Clients, MaxForms,
          Planned, Lifecycle, Reaches, Accounts, Handles, Reserved, Requests, MaxSaves

VARIABLES part,
          served, arows, idem, spaces, follows, firsts, posted, run, tool,
          alog, opened, reported,
          accounts, profiles, handles, linked, pcalls, ppc, req, call, found,
          held, saved

Actions == INSTANCE WorkspaceActions WITH rows <- arows, log <- alog

ASSUME ActionsAssumption == Actions!ConstantsTyped

Profiles == INSTANCE PublicProfiles WITH
    MaxCalls <- MaxSaves, calls <- pcalls, pc <- ppc

ASSUME ProfilesAssumption == Profiles!ConstantsTyped

(* Pilot telemetry: one record at once and late, its identifier with other *)
(* content after the first copy is forgotten, another install, a second    *)
(* record of the first install.                                            *)
Sent(install, id, body, occurred) ==
    [install |-> install, id |-> id, body |-> body, occurred |-> occurred]

MCRecords ==
    {Sent(i1, d1, b1, 1), Sent(i1, d1, b2, 5), Sent(i2, d1, b1, 5), Sent(i1, d2, b1, 5)}

(* Workspace actions: an approach, an attempt and its evidence are there,  *)
(* of the first anchor.  The attempt is moved on, and may then not be      *)
(* moved back.                                                             *)
MCLifecycle == {<<v, w>>}

Blank ==
    [kind |-> "approach", by |-> ann, expected |-> 1, target |-> 0, draft |-> 0,
     version |-> 0, value |-> v, slug |-> lab]

Of(kind, expected, target, version) ==
    [Blank EXCEPT !.kind = kind, !.expected = expected, !.target = target,
                  !.version = version]

StoredBefore(table, of) ==
    [table |-> table, anchor |-> 1, of |-> of, value |-> v, version |-> 1]

MCBefore ==
    <<StoredBefore("approach", 0), StoredBefore("attempt", 1),
      StoredBefore("evidence", 2)>>

MCForms ==
    {Of("fork", 2, 1, 1), [Of("move", 1, 2, 1) EXCEPT !.value = w],
     Of("move", 1, 2, 2), Of("canvas", 2, 0, 0),
     [Of("evidence", 1, 2, 0) EXCEPT !.value = w], Of("draft", 1, 3, 0),
     [Of("draft", 1, 3, 1) EXCEPT !.draft = 4, !.by = bob],
     Of("open", 1, 0, 0), [Of("open", 1, 0, 0) EXCEPT !.value = w],
     Of("follow", 1, 0, 0), Of("follow", 2, 1, 0)}

MCPlans ==
    {<<Of("approach", 1, 0, 0), Of("attempt", 1, 0, 0)>>,
     <<[Of("evidence", 1, 2, 0) EXCEPT !.value = w], Of("note", 1, 2, 0)>>,
     <<Of("draft", 2, 3, 0)>>}

(* Profiles: both accounts want both handles, ann also renames, hides and  *)
(* is deleted.                                                             *)
Saves(account, handle, visibility, expected) ==
    [kind |-> "save", account |-> account, handle |-> handle,
     visibility |-> visibility, expected |-> expected]

MCRequests ==
    {Saves(ann, h1, "public", 0), Saves(ann, h2, "private", 1),
     Saves(ann, h1, "unlisted", 2), Saves(ann, h1, "public", 1),
     Saves(ann, admin, "public", 0),
     Saves(bob, h2, "public", 0), Saves(bob, h1, "private", 0),
     [Saves(ann, h1, "private", 0) EXCEPT !.kind = "delete"]}

telemetry == vars
actions   == <<served, arows, idem, spaces, follows, firsts, posted, run, tool,
               alog, opened, reported>>
profile   == <<accounts, profiles, handles, linked, pcalls, ppc, req, call, found,
               held, saved>>

MCInit ==
    /\ part \in {"actions", "profiles", "telemetry"}
    /\ Init
    /\ Actions!Init
    /\ Profiles!Init

OfActions   == part = "actions"   /\ UNCHANGED <<part, telemetry, profile>>
OfProfiles  == part = "profiles"  /\ UNCHANGED <<part, telemetry, actions>>
OfTelemetry == part = "telemetry" /\ UNCHANGED <<part, actions, profile>>

MCNext ==
    \/ OfActions /\ Actions!Release
    \/ \E c \in Clients :
         \/ OfActions /\ Actions!PostForm(c)
         \/ OfActions /\ Actions!PostAgain(c)
         \/ OfActions /\ Actions!ReadState(c)
         \/ OfActions /\ Actions!CheckActivity(c)
         \/ OfActions /\ Actions!Command(c)
         \/ OfActions /\ Actions!ListWorkspaces(c)
         \/ OfActions /\ Actions!CreateWorkspace(c)
         \/ OfActions /\ Actions!FirstFollow(c)
         \/ OfActions /\ Actions!ReplyToPerson(c)
         \/ OfActions /\ Actions!StartTool(c)
         \/ OfActions /\ Actions!ToolPost(c)
         \/ OfActions /\ Actions!ToolHears(c)
         \/ OfActions /\ Actions!Lose(c)
    \/ \E s \in Sessions :
         \/ OfProfiles /\ Profiles!Call(s)
         \/ OfProfiles /\ Profiles!Enter(s)
         \/ OfProfiles /\ Profiles!FindNone(s)
         \/ OfProfiles /\ Profiles!FindProfile(s)
         \/ OfProfiles /\ Profiles!Claim(s)
         \/ OfProfiles /\ Profiles!InsertProfile(s)
         \/ OfProfiles /\ Profiles!InsertHandle(s)
         \/ OfProfiles /\ Profiles!UpdateProfile(s)
         \/ OfProfiles /\ Profiles!CommitSave(s)
         \/ OfProfiles /\ Profiles!LockAccount(s)
         \/ OfProfiles /\ Profiles!Tombstone(s)
         \/ OfProfiles /\ Profiles!CommitDelete(s)
         \/ OfProfiles /\ Profiles!Lose(s)
    \/ \E i \in 1 .. MaxSaves : OfProfiles /\ Profiles!Link(i)
    \/ OfTelemetry /\ Tick
    \/ \E s \in Sessions :
         \/ OfTelemetry /\ Send(s)
         \/ OfTelemetry /\ Expire(s)
         \/ OfTelemetry /\ Admit(s)
         \/ OfTelemetry /\ Insert(s)
         \/ OfTelemetry /\ Match(s)
         \/ OfTelemetry /\ CommitRow(s)
         \/ OfTelemetry /\ CommitDuplicate(s)
         \/ OfTelemetry /\ Lose(s)

MCSpec == MCInit /\ [][MCNext]_<<part, telemetry, actions, profile>>

Symmetry == Permutations(Sessions)

TypesOK == TypeOK /\ Actions!TypeOK /\ Profiles!TypeOK

(* actions/activity.ts: what is written belongs to the anchor that the     *)
(* page showed, and a draft cites evidence of its own anchor.              *)
AnchorsAgree == Actions!LandsOnPageAnchor /\ Actions!DraftsCiteTheirAnchor

(* actions/activity.ts: a submit sent again is applied once, and whoever   *)
(* is sent to a workspace follows its Problem, unless he asked not to.     *)
SubmitsLand == Actions!OneSubmitOneChange /\ Actions!OpenedFollows

RefusalsLeaveNothing == Actions!RefusalsLeaveNothing

(* public-profiles.sql: a profile has one current handle, and one save is  *)
(* applied to each of its versions.                                        *)
ProfilesConsistent == Profiles!OneCurrentHandle /\ Profiles!SavesInOrder

NeverReassigned  == Profiles!NeverReassigned
DeletionComplete == Profiles!DeletionComplete
=============================================================================
