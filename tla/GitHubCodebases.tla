-------------------------- MODULE GitHubCodebases --------------------------
(***************************************************************************)
(* Connected codebases: the GitHub App's webhooks, the page that claims an *)
(* installation and copies its repository list, and the import of one      *)
(* exact commit, over the tables of schema/github-codebases.sql.           *)
(*                                                                         *)
(* GitHub is outside: it changes an installation and sends a delivery      *)
(* about it.  A delivery may arrive late, out of order, more than once or  *)
(* never; one that a table constraint refuses is rolled back whole, as if  *)
(* it had not arrived.  A webhook is one transaction.  Each statement of a *)
(* saved import sees what is committed when that statement starts.         *)
(***************************************************************************)
EXTENDS Naturals, Sequences

CONSTANTS
    Installations, Repositories, Accounts, Commits,
    Installers,   \* installation -> accounts whose GitHub identity made it
    Requests,     \* page loads and form submissions in flight
    MaxEvents,    \* bound: events at GitHub
    MaxRequests,  \* bound: requests started
    None

ASSUME InstallersAssumption == Installers \in [Installations -> SUBSET Accounts]
ASSUME BoundsAssumption     == MaxEvents \in Nat /\ MaxRequests \in Nat
ASSUME NoneAssumption       ==
    None \notin Installations \cup Accounts \cup Repositories \cup Commits

VARIABLES
    app,         \* installation -> its state at GitHub
    granted,     \* <<installation, repository>> selected at GitHub
    private,     \* repositories that are private at GitHub
    sent,        \* deliveries GitHub has sent, in the order of their numbers
    recorded,    \* github_webhook_deliveries: numbers taken in
    installation,\* github_installations
    selected,    \* github_installation_repositories with removed_at NULL
    codebase,    \* connected_codebases, by <<account, repository, commit>>
    request,     \* request -> what it is doing
    started

github   == <<app, granted, private, sent>>
tables   == <<recorded, installation, selected, codebase>>
serving  == <<request, started>>
vars     == <<app, granted, private, sent, recorded, installation,
              selected, codebase, request, started>>

Events == {"created", "deleted", "suspend", "unsuspend", "permissions", "added",
           "removed", "push"}

Delivery ==
    [event : Events, of : Installations, repository : Repositories \cup {None},
     after : Commits \cup {None}]

(* A row of github_installations; absent until a created delivery.         *)
InstallationRow ==
    [present : BOOLEAN, account : Accounts \cup {None}, suspended : BOOLEAN,
     removed : BOOLEAN]

NoInstallation ==
    [present |-> FALSE, account |-> None, suspended |-> FALSE, removed |-> FALSE]

(* A row of connected_codebases.  receipt is what receipt_root is the root *)
(* of: here, the visibility the last inspection saw.                       *)
CodebaseRow ==
    [present : BOOLEAN, installation : Installations \cup {None},
     visibility : {"public", "private"}, receipt : {"public", "private"},
     accessibility : {"accessible", "revoked"},
     sync : {"pinned", "branch_moved", "unavailable"}]

NoCodebase ==
    [present |-> FALSE, installation |-> None, visibility |-> "public",
     receipt |-> "public", accessibility |-> "accessible", sync |-> "pinned"]

Keys == Accounts \X Repositories \X Commits

Stages ==
    {"idle", "claim", "inventory", "sync", "replace", "inspect", "check", "insert"}

(* installation is None for a manual import of a public URL; inventory is  *)
(* the repository list read from GitHub, visibility and commit what the    *)
(* inspection saw.                                                         *)
Request ==
    [stage : Stages, account : Accounts \cup {None},
     installation : Installations \cup {None},
     repository : Repositories \cup {None}, commit : Commits \cup {None},
     visibility : {"public", "private"}, inventory : SUBSET Repositories]

Idle ==
    [stage |-> "idle", account |-> None, installation |-> None,
     repository |-> None, commit |-> None, visibility |-> "public",
     inventory |-> {}]

VisibilityOf(r) == IF r \in private THEN "private" ELSE "public"

At(q, stage) == request[q].stage = stage
Goto(q, stage) == request' = [request EXCEPT ![q].stage = stage]
Finish(q) == request' = [request EXCEPT ![q] = Idle]

-----------------------------------------------------------------------------
(* GitHub.                                                                 *)

Send(event, i, r, c) ==
    /\ Len(sent) < MaxEvents
    /\ sent' = Append(sent, [event |-> event, of |-> i, repository |-> r, after |-> c])

(* The person installs, suspends, resumes or uninstalls the application.   *)
(* An installation number is never used again.                             *)
ChangeInstallation(i, from, to, event) ==
    /\ app[i] \in from
    /\ app' = [app EXCEPT ![i] = to]
    /\ Send(event, i, None, None)
    /\ UNCHANGED <<granted, private, tables, serving>>

Install(i)   == ChangeInstallation(i, {"none"}, "active", "created")
Suspend(i)   == ChangeInstallation(i, {"active"}, "suspended", "suspend")
Unsuspend(i) == ChangeInstallation(i, {"suspended"}, "active", "unsuspend")
Uninstall(i) == ChangeInstallation(i, {"active", "suspended"}, "deleted", "deleted")

(* Permissions that the application asked for anew.                        *)
AcceptPermissions(i) == ChangeInstallation(i, {"active"}, "active", "permissions")

ChangeSelection(i, r) ==
    /\ app[i] = "active"
    /\ IF <<i, r>> \in granted
       THEN granted' = granted \ {<<i, r>>} /\ Send("removed", i, r, None)
       ELSE granted' = granted \cup {<<i, r>>} /\ Send("added", i, r, None)
    /\ UNCHANGED <<app, private, tables, serving>>

(* The commit becomes the head of the default branch, which an import may  *)
(* ask for like any other.                                                 *)
Push(i, r, c) ==
    /\ <<i, r>> \in granted /\ app[i] = "active"
    /\ Send("push", i, r, c)
    /\ UNCHANGED <<app, granted, private, tables, serving>>

(* The application does not subscribe to changes of visibility.            *)
MakePrivate(r) ==
    /\ r \notin private
    /\ private' = private \cup {r}
    /\ UNCHANGED <<app, granted, sent, tables, serving>>

(* With an installation token, its private repositories and public ones;   *)
(* without one, the public ones.                                           *)
Reachable(i, r) ==
    IF i = None THEN r \notin private
    ELSE app[i] = "active" /\ (r \notin private \/ <<i, r>> \in granted)

-----------------------------------------------------------------------------
(* record_github_webhook                                                   *)

Change(i, f, value) == installation' = [installation EXCEPT ![i][f] = value]

(* Rows of one installation that test(key), as row says they become.       *)
Rewrite(test(_), row(_)) ==
    codebase' = [k \in Keys |-> IF codebase[k].present /\ test(k) THEN row(k)
                                ELSE codebase[k]]

OfPrivate(i, k) == codebase[k].installation = i /\ codebase[k].visibility # "public"

OnCreated(d) ==
    /\ installation' = [installation EXCEPT ![d.of] =
                          [@ EXCEPT !.present = TRUE, !.suspended = FALSE,
                                    !.removed = FALSE]]
    /\ UNCHANGED <<selected, codebase>>

OnDeleted(d) ==
    /\ Rewrite(LAMBDA k : OfPrivate(d.of, k), LAMBDA k : NoCodebase)
    /\ selected' = {s \in selected : s[1] # d.of}
    /\ installation' = [installation EXCEPT ![d.of].removed = @ \/ installation[d.of].present]

OnSuspend(d) ==
    /\ installation' = [installation EXCEPT ![d.of].suspended = @ \/ installation[d.of].present]
    /\ Rewrite(LAMBDA k : codebase[k].installation = d.of,
               LAMBDA k : [codebase[k] EXCEPT !.accessibility = "revoked",
                                              !.sync = "unavailable"])
    /\ UNCHANGED selected

(* Also on new_permissions_accepted, which resumes as well.                *)
OnUnsuspend(d) ==
    Change(d.of, "suspended", FALSE) /\ UNCHANGED <<selected, codebase>>

(* Faulty variant of OnAdded: no foreign key to the installation.          *)
OnAddedUnknown(d) ==
    /\ selected' = selected \cup {<<d.of, d.repository>>}
    /\ UNCHANGED <<installation, codebase>>

(* The foreign key refuses an installation nobody has recorded.            *)
OnAdded(d) ==
    /\ installation[d.of].present
    /\ selected' = selected \cup {<<d.of, d.repository>>}
    /\ UNCHANGED <<installation, codebase>>

OnRemoved(d) ==
    /\ Rewrite(LAMBDA k : OfPrivate(d.of, k) /\ k[2] = d.repository,
               LAMBDA k : NoCodebase)
    /\ selected' = selected \ {<<d.of, d.repository>>}
    /\ UNCHANGED installation

OnPush(d) ==
    /\ Rewrite(LAMBDA k : /\ codebase[k].installation = d.of
                          /\ k[2] = d.repository /\ k[3] # d.after,
               LAMBDA k : [codebase[k] EXCEPT !.sync = "branch_moved"])
    /\ UNCHANGED <<installation, selected>>

(* Faulty variant of Fresh: a repeated delivery is applied again.          *)
FreshAlways(n) == TRUE

(* The insert of the delivery number is the deduplication: a number that   *)
(* is there already changes nothing.                                       *)
Fresh(n) == n \notin recorded

Webhook(n) ==
    LET d == sent[n] IN
    /\ n \in DOMAIN sent /\ Fresh(n)
    /\ recorded' = recorded \cup {n}
    /\ \/ d.event = "created"   /\ OnCreated(d)
       \/ d.event = "deleted"   /\ OnDeleted(d)
       \/ d.event = "suspend"   /\ OnSuspend(d)
       \/ d.event \in {"unsuspend", "permissions"} /\ OnUnsuspend(d)
       \/ d.event = "added"     /\ OnAdded(d)
       \/ d.event = "removed"   /\ OnRemoved(d)
       \/ d.event = "push"      /\ OnPush(d)
    /\ UNCHANGED <<github, serving>>

-----------------------------------------------------------------------------
(* completeGitHubInstallation                                              *)

Begin(q, record) ==
    /\ At(q, "idle")
    /\ started < MaxRequests
    /\ started' = started + 1
    /\ request' = [request EXCEPT ![q] = record]
    /\ UNCHANGED <<github, tables>>

(* GitHub is asked first: the installation must be active there.           *)
Return(q, a, i) ==
    /\ app[i] = "active"
    /\ Begin(q, [Idle EXCEPT !.stage = "claim", !.account = a, !.installation = i])

(* Faulty variant of Claimable: any account of the installer may claim.    *)
ClaimableByInstaller(a, i) ==
    /\ installation[i].present /\ ~installation[i].removed
    /\ a \in Installers[i]

Claimable(a, i) ==
    /\ installation[i].present /\ ~installation[i].removed
    /\ a \in Installers[i]
    /\ installation[i].account \in {None, a}

(* claim_github_installation.  A claim that is refused is tried again,     *)
(* seven times: the created delivery may still be on its way.              *)
Claim(q) ==
    /\ At(q, "claim")
    /\ Claimable(request[q].account, request[q].installation)
    /\ Change(request[q].installation, "account", request[q].account)
    /\ Goto(q, "inventory")
    /\ UNCHANGED <<github, recorded, selected, codebase, started>>

(* listReposAccessibleToInstallation                                       *)
ReadInventory(q) ==
    /\ At(q, "inventory")
    /\ app[request[q].installation] = "active"
    /\ request' = [request EXCEPT
                     ![q].stage = "sync",
                     ![q].inventory = {r \in Repositories :
                                         <<request[q].installation, r>> \in granted}]
    /\ UNCHANGED <<github, tables, started>>

(* Owned by the account, not removed, not suspended.                       *)
Active(a, i) ==
    /\ installation[i].present /\ installation[i].account = a
    /\ ~installation[i].removed /\ ~installation[i].suspended

(* sync_github_repositories, its first statement                           *)
CheckOwner(q) ==
    /\ At(q, "sync")
    /\ IF Active(request[q].account, request[q].installation)
       THEN Goto(q, "replace")
       ELSE Finish(q)
    /\ UNCHANGED <<github, tables, started>>

(* and the others: the list read above replaces what is stored.            *)
Sync(q) ==
    LET i == request[q].installation IN
    /\ At(q, "replace")
    /\ selected' = {s \in selected : s[1] # i}
                     \cup {<<i, r>> : r \in request[q].inventory}
    /\ Finish(q)
    /\ UNCHANGED <<github, recorded, installation, codebase, started>>

-----------------------------------------------------------------------------
(* importCodebase                                                          *)

(* list_github_connections must show the repository.                       *)
Listed(a, i, r) ==
    /\ installation[i].present /\ installation[i].account = a
    /\ ~installation[i].removed
    /\ <<i, r>> \in selected

ImportSelected(q, a, i, r) ==
    /\ Listed(a, i, r)
    /\ Begin(q, [Idle EXCEPT !.stage = "inspect", !.account = a,
                             !.installation = i, !.repository = r])

ImportUrl(q, a, r) ==
    Begin(q, [Idle EXCEPT !.stage = "inspect", !.account = a, !.repository = r])

(* inspectGitHubCodebase: metadata and the commit, the requested one or    *)
(* the head.  A manual import reads without a token, so only what is       *)
(* public, and goes straight to the insert.                                *)
Inspect(q) ==
    LET i == request[q].installation
        r == request[q].repository
    IN  /\ At(q, "inspect")
        /\ Reachable(i, r)
        /\ \E c \in Commits :
             request' = [request EXCEPT
                           ![q].commit = c,
                           ![q].visibility = VisibilityOf(r),
                           ![q].stage = IF i = None THEN "insert" ELSE "check"]
        /\ UNCHANGED <<github, tables, started>>

(* save_connected_codebase, its first statement                            *)
CheckAccess(q) ==
    LET i == request[q].installation IN
    /\ At(q, "check")
    /\ IF /\ Active(request[q].account, i)
          /\ <<i, request[q].repository>> \in selected
       THEN Goto(q, "insert")
       ELSE Finish(q)
    /\ UNCHANGED <<github, tables, started>>

Inspected(q) ==
    [present |-> TRUE, installation |-> request[q].installation,
     visibility |-> request[q].visibility, receipt |-> request[q].visibility,
     accessibility |-> "accessible", sync |-> "pinned"]

(* Faulty variant of Saved: the row keeps the installation it had.         *)
SavedKeepingInstallation(old, q) ==
    IF old.present
    THEN [Inspected(q) EXCEPT !.visibility = old.visibility,
                              !.installation = old.installation]
    ELSE Inspected(q)

(* and its second: the row that is there is overwritten, except for the    *)
(* columns the update does not name; visibility is one of them.            *)
Saved(old, q) ==
    IF old.present
    THEN [Inspected(q) EXCEPT !.visibility = old.visibility]
    ELSE Inspected(q)

KeyOf(q) == <<request[q].account, request[q].repository, request[q].commit>>

Insert(q) ==
    /\ At(q, "insert")
    /\ codebase' = [codebase EXCEPT ![KeyOf(q)] = Saved(@, q)]
    /\ Finish(q)
    /\ UNCHANGED <<github, recorded, installation, selected, started>>

(* A refusal by GitHub or a table, the last claim refused, or a crash.     *)
Fail(q) ==
    /\ ~At(q, "idle")
    /\ Finish(q)
    /\ UNCHANGED <<github, tables, started>>

-----------------------------------------------------------------------------
Init ==
    /\ app = [i \in Installations |-> "none"]
    /\ granted \in SUBSET (Installations \X Repositories)
    /\ private \in SUBSET Repositories
    /\ sent = <<>>
    /\ recorded = {}
    /\ installation = [i \in Installations |-> NoInstallation]
    /\ selected = {}
    /\ codebase = [k \in Keys |-> NoCodebase]
    /\ request = [q \in Requests |-> Idle]
    /\ started = 0

OnGitHub ==
    \/ \E i \in Installations :
         \/ Install(i) \/ Suspend(i) \/ Unsuspend(i) \/ Uninstall(i)
         \/ AcceptPermissions(i)
    \/ \E i \in Installations, r \in Repositories :
         ChangeSelection(i, r) \/ \E c \in Commits : Push(i, r, c)
    \/ \E r \in Repositories : MakePrivate(r)

OnServer(q) ==
    \/ \E a \in Accounts, i \in Installations : Return(q, a, i)
    \/ \E a \in Accounts, i \in Installations, r \in Repositories :
         ImportSelected(q, a, i, r)
    \/ \E a \in Accounts, r \in Repositories : ImportUrl(q, a, r)
    \/ Claim(q) \/ ReadInventory(q) \/ CheckOwner(q) \/ Sync(q)
    \/ Inspect(q) \/ CheckAccess(q) \/ Insert(q) \/ Fail(q)

Next ==
    \/ OnGitHub
    \/ \E n \in 1 .. MaxEvents : Webhook(n)
    \/ \E q \in Requests : OnServer(q)

Spec == Init /\ [][Next]_vars

-----------------------------------------------------------------------------
(* Every row, delivery and request is of its type, and the repositories    *)
(* listed belong to installations that were recorded.                      *)
TypeOK ==
    /\ app \in [Installations -> {"none", "active", "suspended", "deleted"}]
    /\ granted \subseteq Installations \X Repositories
    /\ private \subseteq Repositories
    /\ sent \in Seq(Delivery)
    /\ recorded \subseteq DOMAIN sent
    /\ installation \in [Installations -> InstallationRow]
    /\ selected \subseteq Installations \X Repositories
    /\ \A s \in selected : installation[s[1]].present
    /\ codebase \in [Keys -> CodebaseRow]
    /\ request \in [Requests -> Request]
    /\ started \in 0 .. MaxRequests

(* A codebase imported through an installation belongs to the account that *)
(* owns the installation, however claims, webhooks and imports interleave: *)
(* ownership is checked before the insert and nothing is held in between.  *)
OwnedCodebases ==
    \A k \in Keys :
      codebase[k].present /\ codebase[k].installation # None =>
        installation[codebase[k].installation].account = k[1]

(* An installation that was removed stays removed, although its created    *)
(* delivery may come again: deliveries are taken in once.  The numbers are *)
(* not reused by GitHub, so nothing legitimate revives one.                *)
RemovalFinal ==
    [][\A i \in Installations :
         installation[i].removed => installation'[i].removed]_vars

(* A private repository is only ever kept under an installation: a manual  *)
(* import that overwrites an older row does not detach it from the         *)
(* installation whose removal must delete it.                              *)
PrivateAttached ==
    \A k \in Keys :
      codebase[k].present /\ codebase[k].receipt = "private" =>
        codebase[k].installation # None

(* What the release notes say of an uninstall: once it is recorded nothing *)
(* inspected in a private repository of that installation can be read.     *)
UninstallErases ==
    \A k \in Keys :
      /\ codebase[k].present /\ codebase[k].receipt = "private"
      /\ codebase[k].installation # None
      => ~installation[codebase[k].installation].removed
=============================================================================
