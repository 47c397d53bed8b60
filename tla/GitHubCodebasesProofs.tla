----------------------- MODULE GitHubCodebasesProofs -----------------------
(* Whatever webhooks, claims and imports interleave: a codebase belongs to *)
(* the account that owns its installation, what was inspected in a private *)
(* repository hangs on an installation, and a removal is final.            *)
EXTENDS GitHubCodebases, TLAPS

(* What a request in flight has already been given or found.               *)
Found(q) ==
    LET r == request[q]
        i == r.installation
    IN  /\ r.stage \in {"claim", "inventory", "sync", "replace"} =>
             r.account \in Accounts /\ i \in Installations
        /\ r.stage \in {"inspect", "check", "insert"} =>
             r.account \in Accounts /\ r.repository \in Repositories
        /\ r.stage = "replace" => installation[i].present
        /\ r.stage = "check" => i # None
        /\ r.stage \in {"check", "insert"} => r.commit \in Commits
        /\ r.stage = "insert" =>
             IF i = None THEN r.visibility = "public"
                         ELSE installation[i].account = r.account

(* An installation is created once at GitHub, and is recorded only by that *)
(* delivery.                                                               *)
CreatedAt(n, i) == n \in DOMAIN sent /\ sent[n].event = "created" /\ sent[n].of = i

CreatedOnce ==
    \A i \in Installations :
      /\ app[i] = "none" => \A n \in DOMAIN sent : ~CreatedAt(n, i)
      /\ \A m, n \in DOMAIN sent : CreatedAt(m, i) /\ CreatedAt(n, i) => m = n
      /\ installation[i].present => \E n \in recorded : CreatedAt(n, i)
      /\ installation[i].removed => installation[i].present

AddedNamed ==
    \A n \in DOMAIN sent : sent[n].event = "added" => sent[n].repository \in Repositories

CodebaseInv ==
    /\ TypeOK
    /\ AddedNamed
    /\ \A q \in Requests : Found(q)
    /\ CreatedOnce
    /\ OwnedCodebases
    /\ PrivateAttached

-----------------------------------------------------------------------------
LEMMA CodebaseInit == ASSUME Init PROVE CodebaseInv
<1>1. TypeOK
  <2>1. NoInstallation \in InstallationRow /\ NoCodebase \in CodebaseRow /\ Idle \in Request
    BY DEF NoInstallation, InstallationRow, NoCodebase, CodebaseRow, Idle, Request, Stages
  <2>2. sent \in Seq(Delivery) /\ recorded \subseteq DOMAIN sent
    BY DEF Init
  <2> QED BY <2>1, <2>2, BoundsAssumption DEF Init, TypeOK
<1>2. \A q \in Requests : Found(q)
  BY DEF Init, Found, Idle
<1>3. CreatedOnce
  <2>1. DOMAIN sent = {} /\ \A i \in Installations : installation[i] = NoInstallation
    BY DEF Init
  <2>2. ~NoInstallation.present /\ ~NoInstallation.removed
    BY DEF NoInstallation
  <2> QED BY <2>1, <2>2 DEF CreatedOnce
<1>4. OwnedCodebases /\ PrivateAttached
  BY DEF Init, OwnedCodebases, PrivateAttached, NoCodebase
<1>5. AddedNamed
  BY DEF Init, AddedNamed
<1> QED BY <1>1, <1>2, <1>3, <1>4, <1>5 DEF CodebaseInv

-----------------------------------------------------------------------------
(* GitHub: nothing but its own state changes, and a delivery is sent.      *)
LEMMA Sending ==
    ASSUME sent \in Seq(Delivery), NEW d \in Delivery, sent' = Append(sent, d)
    PROVE  /\ sent' \in Seq(Delivery)
           /\ DOMAIN sent' = DOMAIN sent \cup {Len(sent) + 1}
           /\ Len(sent) + 1 \notin DOMAIN sent
           /\ sent'[Len(sent) + 1] = d
           /\ \A n \in DOMAIN sent : sent'[n] = sent[n]
OBVIOUS

LEMMA SendKeeps ==
    ASSUME CodebaseInv, NEW d \in Delivery, sent' = Append(sent, d),
           UNCHANGED <<recorded, installation>>,
           \A i \in Installations : app'[i] = "none" => app[i] = "none",
           d.event = "created" => app[d.of] = "none" /\ app'[d.of] # "none",
           d.event = "added" => d.repository \in Repositories
    PROVE  /\ sent' \in Seq(Delivery) /\ recorded \subseteq DOMAIN sent'
           /\ CreatedOnce' /\ AddedNamed'
<1>1. /\ sent' \in Seq(Delivery)
      /\ DOMAIN sent' = DOMAIN sent \cup {Len(sent) + 1}
      /\ Len(sent) + 1 \notin DOMAIN sent
      /\ sent'[Len(sent) + 1] = d
      /\ \A n \in DOMAIN sent : sent'[n] = sent[n]
  BY Sending DEF CodebaseInv, TypeOK
<1>2. recorded \subseteq DOMAIN sent
  BY DEF CodebaseInv, TypeOK
<1>3. ASSUME NEW i \in Installations
      PROVE  \A n \in DOMAIN sent' :
               CreatedAt(n, i)' <=>
                 \/ n \in DOMAIN sent /\ CreatedAt(n, i)
                 \/ n = Len(sent) + 1 /\ d.event = "created" /\ d.of = i
  BY <1>1 DEF CreatedAt
<1>4. ASSUME NEW i \in Installations, app'[i] = "none", NEW n \in DOMAIN sent'
      PROVE  ~CreatedAt(n, i)'
  BY <1>3, <1>4 DEF CodebaseInv, CreatedOnce
<1>5. ASSUME NEW i \in Installations, NEW m \in DOMAIN sent', NEW n \in DOMAIN sent',
             CreatedAt(m, i)', CreatedAt(n, i)'
      PROVE  m = n
  BY <1>3, <1>5 DEF CodebaseInv, CreatedOnce
<1>6. ASSUME NEW i \in Installations, installation'[i].present
      PROVE  \E n \in recorded : CreatedAt(n, i)'
  <2>1. PICK n \in recorded : CreatedAt(n, i)
    BY <1>6 DEF CodebaseInv, CreatedOnce
  <2> QED BY <1>1, <1>2, <1>3, <2>1
<1>7. \A i \in Installations : installation'[i].removed => installation'[i].present
  BY DEF CodebaseInv, CreatedOnce
<1>8. CreatedOnce'
  BY <1>4, <1>5, <1>6, <1>7 DEF CreatedOnce
<1>9. AddedNamed'
  BY <1>1 DEF CodebaseInv, AddedNamed
<1> QED BY <1>1, <1>2, <1>8, <1>9

LEMMA GitHubKeeps == ASSUME CodebaseInv, OnGitHub PROVE CodebaseInv'
<1>1. UNCHANGED <<recorded, installation, selected, codebase, request, started>>
  BY DEF OnGitHub, Install, Suspend, Unsuspend, Uninstall, AcceptPermissions,
         ChangeInstallation, ChangeSelection, Push, MakePrivate, tables, serving
<1>2. /\ \A q \in Requests : Found(q)'
      /\ OwnedCodebases' /\ PrivateAttached'
  BY <1>1 DEF CodebaseInv, Found, OwnedCodebases, PrivateAttached
<1> DEFINE Sends(event, i, r, c) ==
             sent' = Append(sent, [event |-> event, of |-> i, repository |-> r, after |-> c])
<1>3. ASSUME NEW event \in Events, NEW i \in Installations,
             NEW r \in Repositories \cup {None}, NEW c \in Commits \cup {None},
             Sends(event, i, r, c),
             \A j \in Installations : app'[j] = "none" => app[j] = "none",
             event = "created" => app[i] = "none" /\ app'[i] # "none",
             event = "added" => r \in Repositories
      PROVE  /\ sent' \in Seq(Delivery) /\ recorded \subseteq DOMAIN sent'
             /\ CreatedOnce' /\ AddedNamed'
  <2> DEFINE d == [event |-> event, of |-> i, repository |-> r, after |-> c]
  <2>1. d \in Delivery /\ d.event = event /\ d.of = i /\ d.repository = r
    BY DEF Delivery
  <2>2. sent' = Append(sent, d)
    BY <1>3
  <2> HIDE DEF d
  <2> QED BY <1>1, <1>3, <2>1, <2>2, SendKeeps
<1>4. ASSUME NEW i \in Installations,
             NEW from, NEW to \in {"active", "suspended", "deleted"}, NEW event \in Events \ {"added"},
             ChangeInstallation(i, from, to, event),
             event = "created" => from = {"none"}
      PROVE  CodebaseInv'
  <2>1. /\ app' = [app EXCEPT ![i] = to] /\ app[i] \in from
        /\ Sends(event, i, None, None) /\ UNCHANGED <<granted, private>>
    BY <1>4 DEF ChangeInstallation, Send
  <2>2. /\ app' \in [Installations -> {"none", "active", "suspended", "deleted"}]
        /\ \A j \in Installations : app'[j] = IF j = i THEN to ELSE app[j]
    BY <2>1 DEF CodebaseInv, TypeOK
  <2>3. sent' \in Seq(Delivery) /\ recorded \subseteq DOMAIN sent' /\ CreatedOnce'
        /\ AddedNamed'
    BY <1>3, <1>4, <2>1, <2>2
  <2>4. TypeOK'
    BY <1>1, <2>1, <2>2, <2>3 DEF CodebaseInv, TypeOK
  <2> QED BY <1>2, <2>3, <2>4 DEF CodebaseInv
<1>5. ASSUME NEW i \in Installations,
             \/ Install(i) \/ Suspend(i) \/ Unsuspend(i) \/ Uninstall(i)
             \/ AcceptPermissions(i)
      PROVE  CodebaseInv'
  BY <1>4, <1>5 DEF Install, Suspend, Unsuspend, Uninstall, AcceptPermissions, Events
<1>6. ASSUME NEW i \in Installations, NEW r \in Repositories, ChangeSelection(i, r)
      PROVE  CodebaseInv'
  <2>1. /\ granted' \subseteq Installations \X Repositories
        /\ UNCHANGED <<app, private>>
        /\ \E event \in {"removed", "added"} : Sends(event, i, r, None)
    BY <1>6 DEF ChangeSelection, Send, CodebaseInv, TypeOK
  <2>2. sent' \in Seq(Delivery) /\ recorded \subseteq DOMAIN sent' /\ CreatedOnce'
        /\ AddedNamed'
    BY <1>3, <2>1 DEF Events
  <2>3. TypeOK'
    BY <1>1, <2>1, <2>2 DEF CodebaseInv, TypeOK
  <2> QED BY <1>2, <2>2, <2>3 DEF CodebaseInv
<1>7. ASSUME NEW i \in Installations, NEW r \in Repositories, NEW c \in Commits,
             Push(i, r, c)
      PROVE  CodebaseInv'
  <2>1. /\ UNCHANGED <<app, granted, private>>
        /\ Sends("push", i, r, c)
    BY <1>7 DEF Push, Send, CodebaseInv, TypeOK
  <2>2. sent' \in Seq(Delivery) /\ recorded \subseteq DOMAIN sent' /\ CreatedOnce'
        /\ AddedNamed'
    BY <1>3, <2>1 DEF Events
  <2>3. TypeOK'
    BY <1>1, <2>1, <2>2 DEF CodebaseInv, TypeOK
  <2> QED BY <1>2, <2>2, <2>3 DEF CodebaseInv
<1>8. ASSUME NEW r \in Repositories, MakePrivate(r) PROVE CodebaseInv'
  <2>1. /\ private' \subseteq Repositories /\ UNCHANGED <<app, granted, sent>>
    BY <1>8 DEF MakePrivate, CodebaseInv, TypeOK
  <2>2. TypeOK'
    BY <1>1, <2>1 DEF CodebaseInv, TypeOK
  <2>3. CreatedOnce'
    BY <1>1, <2>1 DEF CodebaseInv, CreatedOnce, CreatedAt
  <2>4. AddedNamed'
    BY <2>1 DEF CodebaseInv, AddedNamed
  <2> QED BY <1>2, <2>2, <2>3, <2>4 DEF CodebaseInv
<1> QED BY <1>5, <1>6, <1>7, <1>8 DEF OnGitHub

-----------------------------------------------------------------------------
(* A webhook: what each event does to the tables.                          *)
InstallationsStep(n) ==
    /\ installation' \in [Installations -> InstallationRow]
    /\ \A i \in Installations :
         LET old == installation[i]
             new == installation'[i]
         IN  /\ new.account = old.account
             /\ old.present => new.present
             /\ old.removed => new.removed
             /\ new.removed => new.present
             /\ new.present => old.present \/ CreatedAt(n, i)

SelectedStep ==
    /\ selected' \subseteq Installations \X Repositories
    /\ \A s \in selected' : installation[s[1]].present

CodebasesStep ==
    /\ codebase' \in [Keys -> CodebaseRow]
    /\ \A k \in Keys :
         codebase'[k].present =>
           /\ codebase[k].present
           /\ codebase'[k].installation = codebase[k].installation
           /\ codebase'[k].receipt = codebase[k].receipt

LEMMA TablesStepKeeps ==
    ASSUME CodebaseInv, NEW n \in DOMAIN sent, UNCHANGED <<github, serving>>,
           recorded' = recorded \cup {n},
           InstallationsStep(n), SelectedStep, CodebasesStep
    PROVE  CodebaseInv'
<1>1. UNCHANGED <<app, granted, private, sent, request, started>>
  BY DEF github, serving
<1>2. TypeOK'
  <2>1. \A s \in selected' : installation'[s[1]].present
    <3> SUFFICES ASSUME NEW s \in selected' PROVE installation'[s[1]].present
      OBVIOUS
    <3>1. s[1] \in Installations /\ installation[s[1]].present
      BY DEF SelectedStep
    <3> QED BY <3>1 DEF InstallationsStep
  <2> QED BY <1>1, <2>1
          DEF CodebaseInv, TypeOK, InstallationsStep, SelectedStep, CodebasesStep
<1>3. ASSUME NEW q \in Requests PROVE Found(q)'
  <2>1. Found(q) /\ request[q].installation \in Installations \cup {None}
    BY DEF CodebaseInv, TypeOK, Request
  <2> QED BY <1>1, <2>1 DEF Found, InstallationsStep
<1>4. CreatedOnce'
  <2>1. ASSUME NEW i \in Installations, installation'[i].present
        PROVE  \E m \in recorded' : CreatedAt(m, i)
    BY <2>1 DEF InstallationsStep, CodebaseInv, CreatedOnce
  <2> QED BY <1>1, <2>1 DEF CodebaseInv, CreatedOnce, CreatedAt, InstallationsStep
<1>5. OwnedCodebases'
  <2> SUFFICES ASSUME NEW k \in Keys, codebase'[k].present,
                      codebase'[k].installation # None
               PROVE  installation'[codebase'[k].installation].account = k[1]
    BY DEF OwnedCodebases
  <2>1. /\ codebase[k].present /\ codebase'[k].installation = codebase[k].installation
        /\ codebase[k] \in CodebaseRow
    BY DEF CodebasesStep, CodebaseInv, TypeOK
  <2>2. codebase[k].installation \in Installations
    BY <2>1 DEF CodebaseRow
  <2> QED BY <2>1, <2>2 DEF CodebaseInv, OwnedCodebases, InstallationsStep
<1>6. PrivateAttached'
  BY DEF CodebaseInv, PrivateAttached, CodebasesStep
<1>7. AddedNamed'
  BY <1>1 DEF CodebaseInv, AddedNamed
<1> QED BY <1>2, <1>3, <1>4, <1>5, <1>6, <1>7 DEF CodebaseInv

LEMMA SameInstallations ==
    ASSUME CodebaseInv, NEW n, installation' = installation
    PROVE  InstallationsStep(n)
BY DEF CodebaseInv, TypeOK, CreatedOnce, InstallationsStep

LEMMA SameSelected ==
    ASSUME CodebaseInv, selected' \subseteq selected
    PROVE  SelectedStep
BY DEF CodebaseInv, TypeOK, SelectedStep

LEMMA SameCodebases ==
    ASSUME CodebaseInv, codebase' = codebase
    PROVE  CodebasesStep
BY DEF CodebaseInv, TypeOK, CodebasesStep

(* Rows that are deleted, or keep the columns the invariant is about.      *)
LEMMA RewrittenCodebases ==
    ASSUME CodebaseInv, DOMAIN codebase' = Keys, codebase' = [k \in Keys |-> codebase'[k]],
           \A k \in Keys :
             \/ codebase'[k] \in {codebase[k], NoCodebase}
             \/ \E a \in {"accessible", "revoked"},
                   y \in {"pinned", "branch_moved", "unavailable"} :
                  codebase'[k] = [codebase[k] EXCEPT !.accessibility = a, !.sync = y]
    PROVE  CodebasesStep
<1> SUFFICES ASSUME NEW k \in Keys
             PROVE  /\ codebase'[k] \in CodebaseRow
                    /\ codebase'[k].present =>
                         /\ codebase[k].present
                         /\ codebase'[k].installation = codebase[k].installation
                         /\ codebase'[k].receipt = codebase[k].receipt
  BY DEF CodebasesStep
<1>1. codebase[k] \in CodebaseRow
  BY DEF CodebaseInv, TypeOK
<1>2. CASE codebase'[k] = codebase[k]
  BY <1>1, <1>2
<1>3. CASE codebase'[k] = NoCodebase
  <2>1. NoCodebase \in CodebaseRow /\ NoCodebase.present = FALSE
    BY DEF NoCodebase, CodebaseRow
  <2> QED BY <1>3, <2>1
<1>4. ASSUME NEW a \in {"accessible", "revoked"},
             NEW y \in {"pinned", "branch_moved", "unavailable"},
             codebase'[k] = [codebase[k] EXCEPT !.accessibility = a, !.sync = y]
      PROVE  /\ codebase'[k] \in CodebaseRow
             /\ codebase'[k].present = codebase[k].present
             /\ codebase'[k].installation = codebase[k].installation
             /\ codebase'[k].receipt = codebase[k].receipt
  BY <1>1, <1>4 DEF CodebaseRow
<1> QED BY <1>2, <1>3, <1>4

LEMMA WebhookSteps ==
    ASSUME CodebaseInv, NEW n \in DOMAIN sent, Webhook(n)
    PROVE  InstallationsStep(n) /\ SelectedStep /\ CodebasesStep
<1> DEFINE d == sent[n]
           old == installation[d.of]
<1>1. /\ d \in Delivery /\ d.of \in Installations /\ n \notin recorded
      /\ d.repository \in Repositories \cup {None} /\ old \in InstallationRow
  <2>1. d \in Delivery
    BY DEF CodebaseInv, TypeOK
  <2> QED BY <2>1 DEF Webhook, Fresh, Delivery, CodebaseInv, TypeOK
<1>2. CASE d.event = "created" /\ OnCreated(d)
  <2> DEFINE new == [old EXCEPT !.present = TRUE, !.suspended = FALSE, !.removed = FALSE]
  <2>1. installation' = [installation EXCEPT ![d.of] = new]
    BY <1>2 DEF OnCreated
  <2>2. CreatedAt(n, d.of)
    BY <1>2 DEF CreatedAt
  <2>3. ~old.present
    <3> SUFFICES ASSUME old.present PROVE FALSE
      OBVIOUS
    <3>1. PICK m \in recorded : CreatedAt(m, d.of)
      BY <1>1 DEF CodebaseInv, CreatedOnce
    <3>2. m \in DOMAIN sent
      BY <3>1 DEF CreatedAt
    <3>3. m = n
      BY <1>1, <2>2, <3>1, <3>2 DEF CodebaseInv, CreatedOnce
    <3> QED BY <1>1, <3>3
  <2>4. new \in InstallationRow /\ new.account = old.account /\ new.present /\ ~new.removed
    BY <1>1 DEF InstallationRow
  <2>5. ~old.removed
    BY <1>1, <2>3 DEF CodebaseInv, CreatedOnce
  <2> HIDE DEF new
  <2>6. /\ installation' \in [Installations -> InstallationRow]
        /\ \A i \in Installations :
             installation'[i] = IF i = d.of THEN new ELSE installation[i]
    BY <2>1, <2>4 DEF CodebaseInv, TypeOK
  <2>7. \A i \in Installations : installation[i].removed => installation[i].present
    BY DEF CodebaseInv, CreatedOnce
  <2>8. InstallationsStep(n)
    BY <2>2, <2>3, <2>4, <2>5, <2>6, <2>7 DEF InstallationsStep
  <2> QED BY <1>2, <2>8, SameSelected, SameCodebases DEF OnCreated
<1>3. ASSUME NEW new \in InstallationRow, installation' = [installation EXCEPT ![d.of] = new],
             new.account = old.account, new.present = old.present,
             old.removed => new.removed, new.removed => new.present
      PROVE  InstallationsStep(n)
  <2>1. /\ installation' \in [Installations -> InstallationRow]
        /\ \A i \in Installations :
             installation'[i] = IF i = d.of THEN new ELSE installation[i]
    BY <1>3 DEF CodebaseInv, TypeOK
  <2>2. \A i \in Installations : installation[i].removed => installation[i].present
    BY DEF CodebaseInv, CreatedOnce
  <2> QED BY <1>3, <2>1, <2>2 DEF InstallationsStep
<1>4. CASE d.event = "deleted" /\ OnDeleted(d)
  <2> DEFINE new == [old EXCEPT !.removed = @ \/ old.present]
  <2>1. installation' = [installation EXCEPT ![d.of] = new]
    BY <1>4 DEF OnDeleted
  <2>2. /\ new \in InstallationRow /\ new.account = old.account
        /\ new.present = old.present /\ new.removed = (old.removed \/ old.present)
    BY <1>1 DEF InstallationRow
  <2>3. old.removed => old.present
    BY <1>1 DEF CodebaseInv, CreatedOnce
  <2> HIDE DEF new
  <2>4. InstallationsStep(n)
    BY <1>3, <2>1, <2>2, <2>3
  <2>5. CodebasesStep
    BY <1>4, RewrittenCodebases DEF OnDeleted, Rewrite
  <2> QED BY <1>4, <2>4, <2>5, SameSelected DEF OnDeleted
<1>5. CASE d.event = "suspend" /\ OnSuspend(d)
  <2> DEFINE new == [old EXCEPT !.suspended = @ \/ old.present]
  <2>1. installation' = [installation EXCEPT ![d.of] = new]
    BY <1>5 DEF OnSuspend
  <2>2. /\ new \in InstallationRow /\ new.account = old.account
        /\ new.present = old.present /\ new.removed = old.removed
    BY <1>1 DEF InstallationRow
  <2>3. old.removed => old.present
    BY <1>1 DEF CodebaseInv, CreatedOnce
  <2> HIDE DEF new
  <2>4. InstallationsStep(n)
    BY <1>3, <2>1, <2>2, <2>3
  <2>5. CodebasesStep
    BY <1>5, RewrittenCodebases DEF OnSuspend, Rewrite
  <2> QED BY <1>5, <2>4, <2>5, SameSelected DEF OnSuspend
<1>6. CASE d.event \in {"unsuspend", "permissions"} /\ OnUnsuspend(d)
  <2> DEFINE new == [old EXCEPT !.suspended = FALSE]
  <2>1. installation' = [installation EXCEPT ![d.of] = new]
    BY <1>6 DEF OnUnsuspend, Change, InstallationRow
  <2>2. /\ new \in InstallationRow /\ new.account = old.account
        /\ new.present = old.present /\ new.removed = old.removed
    BY <1>1 DEF InstallationRow
  <2>3. old.removed => old.present
    BY <1>1 DEF CodebaseInv, CreatedOnce
  <2> HIDE DEF new
  <2>4. InstallationsStep(n)
    BY <1>3, <2>1, <2>2, <2>3
  <2> QED BY <1>6, <2>4, SameSelected, SameCodebases DEF OnUnsuspend
<1>7. CASE d.event = "added" /\ OnAdded(d)
  <2>1. d.repository \in Repositories
    BY <1>7 DEF CodebaseInv, AddedNamed
  <2>2. SelectedStep
    BY <1>1, <1>7, <2>1 DEF OnAdded, SelectedStep, CodebaseInv, TypeOK
  <2> QED BY <1>7, <2>2, SameInstallations, SameCodebases DEF OnAdded
<1>8. CASE d.event = "removed" /\ OnRemoved(d)
  <2>1. CodebasesStep
    BY <1>8, RewrittenCodebases DEF OnRemoved, Rewrite
  <2> QED BY <1>8, <2>1, SameInstallations, SameSelected DEF OnRemoved
<1>9. CASE d.event = "push" /\ OnPush(d)
  <2>1. \A k \in Keys :
          /\ codebase[k].accessibility \in {"accessible", "revoked"}
          /\ [codebase[k] EXCEPT !.sync = "branch_moved"]
               = [codebase[k] EXCEPT !.accessibility = codebase[k].accessibility,
                                     !.sync = "branch_moved"]
    BY DEF CodebaseInv, TypeOK, CodebaseRow
  <2>2. CodebasesStep
    BY <1>9, <2>1, RewrittenCodebases DEF OnPush, Rewrite
  <2> QED BY <1>9, <2>2, SameInstallations, SameSelected DEF OnPush
<1> QED BY <1>2, <1>4, <1>5, <1>6, <1>7, <1>8, <1>9 DEF Webhook

LEMMA WebhookKeeps ==
    ASSUME CodebaseInv, NEW n, Webhook(n)
    PROVE  CodebaseInv'
<1>1. n \in DOMAIN sent /\ recorded' = recorded \cup {n} /\ UNCHANGED <<github, serving>>
  BY DEF Webhook
<1> QED BY <1>1, WebhookSteps, TablesStepKeeps

-----------------------------------------------------------------------------
(* The server: a request moves on by itself.                               *)
LEMMA RequestKeeps ==
    ASSUME CodebaseInv, NEW q \in Requests, NEW r \in Request,
           request' = [request EXCEPT ![q] = r],
           UNCHANGED <<github, recorded, installation, codebase>>,
           SelectedStep, started' \in 0 .. MaxRequests,
           Found(q)'
    PROVE  CodebaseInv'
<1>1. UNCHANGED <<app, granted, private, sent>>
  BY DEF github
<1>2. /\ request' \in [Requests -> Request] /\ request'[q] = r
      /\ \A p \in Requests \ {q} : request'[p] = request[p]
  BY DEF CodebaseInv, TypeOK
<1>3. TypeOK'
  BY <1>1, <1>2 DEF CodebaseInv, TypeOK, SelectedStep
<1>4. \A p \in Requests : Found(p)'
  BY <1>2 DEF CodebaseInv, Found
<1>5. CreatedOnce' /\ OwnedCodebases' /\ PrivateAttached'
  BY <1>1 DEF CodebaseInv, CreatedOnce, CreatedAt, OwnedCodebases, PrivateAttached
<1>6. AddedNamed'
  BY <1>1 DEF CodebaseInv, AddedNamed
<1> QED BY <1>3, <1>4, <1>5, <1>6 DEF CodebaseInv

(* Requests that read, move on, end or fail.                               *)
LEMMA Staged ==
    ASSUME NEW x \in Request, NEW stage \in Stages, NEW y,
           y = [x EXCEPT !.stage = stage]
    PROVE  /\ y \in Request /\ y.stage = stage /\ y.account = x.account
           /\ y.repository = x.repository /\ y.commit = x.commit
           /\ y.installation = x.installation
BY DEF Request

LEMMA ReadingKeeps ==
    ASSUME CodebaseInv, NEW q \in Requests,
           \/ \E a \in Accounts, i \in Installations : Return(q, a, i)
           \/ \E a \in Accounts, i \in Installations, r \in Repositories :
                ImportSelected(q, a, i, r)
           \/ \E a \in Accounts, r \in Repositories : ImportUrl(q, a, r)
           \/ ReadInventory(q) \/ CheckOwner(q)
           \/ Inspect(q) \/ CheckAccess(q) \/ Fail(q)
    PROVE  CodebaseInv'
<1>1. /\ request[q] \in Request /\ request \in [Requests -> Request]
      /\ started \in 0 .. MaxRequests /\ Found(q) /\ Idle \in Request
  BY DEF CodebaseInv, TypeOK, Idle, Request, Stages
<1>2. ASSUME NEW r \in Request, request' = [request EXCEPT ![q] = r],
             UNCHANGED <<github, tables>>, started' \in {started, started + 1},
             started' # started => started < MaxRequests,
             Found(q)'
      PROVE  CodebaseInv'
  <2>1. started' \in 0 .. MaxRequests
    BY <1>1, <1>2, BoundsAssumption
  <2>2. SelectedStep
    BY <1>2, SameSelected DEF tables
  <2> QED BY <1>2, <2>1, <2>2, RequestKeeps DEF tables
<1>3. ASSUME Finish(q), UNCHANGED <<github, tables, started>>
      PROVE  CodebaseInv'
  <2>1. request'[q] = Idle
    BY <1>1, <1>3 DEF Finish
  <2>2. Found(q)'
    BY <2>1 DEF Found, Idle
  <2> QED BY <1>1, <1>2, <1>3, <2>2 DEF Finish
<1>4. ASSUME NEW a \in Accounts, NEW i \in Installations, Return(q, a, i)
      PROVE  CodebaseInv'
  <2> DEFINE r == [Idle EXCEPT !.stage = "claim", !.account = a, !.installation = i]
  <2>1. r \in Request /\ r.stage = "claim" /\ r.account = a /\ r.installation = i
    BY <1>1 DEF Idle, Request, Stages
  <2>2. request' = [request EXCEPT ![q] = r]
    BY <1>4 DEF Return, Begin
  <2> HIDE DEF r
  <2>3. Found(q)'
    BY <1>1, <2>1, <2>2 DEF Found
  <2> QED BY <1>2, <1>4, <2>1, <2>2, <2>3 DEF Return, Begin
<1>5. ASSUME NEW r \in Request, Begin(q, r), r.stage = "inspect",
             r.account \in Accounts, r.repository \in Repositories
      PROVE  CodebaseInv'
  <2>1. request' = [request EXCEPT ![q] = r] /\ request'[q] = r
    BY <1>1, <1>5 DEF Begin
  <2>2. Found(q)'
    BY <1>5, <2>1 DEF Found
  <2> QED BY <1>2, <1>5, <2>1, <2>2 DEF Begin
<1>6. ASSUME NEW a \in Accounts, NEW i \in Installations, NEW c \in Repositories,
             ImportSelected(q, a, i, c)
      PROVE  CodebaseInv'
  <2> DEFINE r == [Idle EXCEPT !.stage = "inspect", !.account = a,
                               !.installation = i, !.repository = c]
  <2>1. r \in Request /\ r.stage = "inspect" /\ r.account = a /\ r.repository = c
    BY <1>1 DEF Idle, Request, Stages
  <2>2. Begin(q, r)
    BY <1>6 DEF ImportSelected
  <2> HIDE DEF r
  <2> QED BY <1>5, <2>1, <2>2
<1>7. ASSUME NEW a \in Accounts, NEW c \in Repositories, ImportUrl(q, a, c)
      PROVE  CodebaseInv'
  <2> DEFINE u == [Idle EXCEPT !.stage = "inspect", !.account = a, !.repository = c]
  <2>1. u \in Request /\ u.stage = "inspect" /\ u.account = a /\ u.repository = c
    BY <1>1 DEF Idle, Request, Stages
  <2>2. Begin(q, u)
    BY <1>7 DEF ImportUrl
  <2> HIDE DEF u
  <2> QED BY <1>5, <2>1, <2>2
<1>8. CASE ReadInventory(q)
  <2> DEFINE list == {c \in Repositories : <<request[q].installation, c>> \in granted}
             r == [request[q] EXCEPT !.stage = "sync", !.inventory = list]
  <2>1. request[q].stage = "inventory" /\ list \in SUBSET Repositories
    BY <1>8 DEF ReadInventory, At
  <2>2. request' = [request EXCEPT ![q] = r]
    BY <1>1, <1>8 DEF ReadInventory
  <2> HIDE DEF list
  <2>3. r \in Request /\ r.stage = "sync" /\ r.account = request[q].account
        /\ r.installation = request[q].installation
    BY <1>1, <2>1 DEF Request, Stages
  <2> HIDE DEF r
  <2>4. Found(q)'
    BY <1>1, <2>1, <2>2, <2>3 DEF Found
  <2> QED BY <1>2, <1>8, <2>2, <2>3, <2>4 DEF ReadInventory
<1>9. CASE Inspect(q)
  <2> DEFINE i == request[q].installation
             v == VisibilityOf(request[q].repository)
             stage == IF i = None THEN "insert" ELSE "check"
  <2>1. PICK c \in Commits :
          request' = [request EXCEPT ![q].commit = c, ![q].visibility = v,
                                     ![q].stage = stage]
    BY <1>9 DEF Inspect
  <2> DEFINE r == [request[q] EXCEPT !.commit = c, !.visibility = v, !.stage = stage]
  <2>2. request' = [request EXCEPT ![q] = r]
    BY <1>1, <2>1
  <2>3. /\ request[q].stage = "inspect" /\ stage \in {"insert", "check"}
        /\ ((stage = "insert") <=> (i = None)) /\ v \in {"public", "private"}
        /\ i = None => v = "public"
    BY <1>9 DEF Inspect, At, VisibilityOf, Reachable
  <2> HIDE DEF v, stage
  <2>4. /\ r \in Request /\ r.stage = stage /\ r.visibility = v /\ r.commit = c
        /\ r.account = request[q].account /\ r.repository = request[q].repository
        /\ r.installation = i
    <3>1. stage \in Stages
      BY <2>3 DEF Stages
    <3>2. request[q] \in Request /\ v \in {"public", "private"} /\ c \in Commits
      BY <1>1, <2>1, <2>3
    <3>3. ASSUME NEW x \in Request, x = request[q]
          PROVE  /\ r \in Request /\ r.stage = stage /\ r.visibility = v /\ r.commit = c
                 /\ r.account = x.account /\ r.repository = x.repository
                 /\ r.installation = x.installation
      <4>1. r = [x EXCEPT !.commit = c, !.visibility = v, !.stage = stage]
        BY <3>3
      <4> HIDE DEF r
      <4> QED BY <3>1, <3>2, <4>1 DEF Request
    <3> HIDE DEF r
    <3> QED BY <3>2, <3>3 DEF i
  <2>5. request[q].account \in Accounts /\ request[q].repository \in Repositories
    BY <1>1, <2>3 DEF Found
  <2> HIDE DEF r
  <2>6. request'[q] = r
    BY <1>1, <2>2
  <2>7. Found(q)'
    BY <2>3, <2>4, <2>5, <2>6 DEF Found
  <2> QED BY <1>2, <1>9, <2>2, <2>4, <2>7 DEF Inspect
<1>10. CASE CheckAccess(q)
  <2> DEFINE i == request[q].installation
             r == [request[q] EXCEPT !.stage = "insert"]
  <2>1. CASE Finish(q)
    BY <1>3, <1>10, <2>1 DEF CheckAccess
  <2>2. CASE Active(request[q].account, i) /\ Goto(q, "insert")
    <3>1. request' = [request EXCEPT ![q] = r] /\ request[q].stage = "check"
      BY <1>1, <1>10, <2>2 DEF CheckAccess, Goto, At
    <3>2. /\ r \in Request /\ r.stage = "insert" /\ r.account = request[q].account
          /\ r.repository = request[q].repository /\ r.commit = request[q].commit
          /\ r.installation = i
      BY <1>1, Staged DEF Stages
    <3>3. i # None /\ installation[i].account = request[q].account
      BY <1>1, <2>2, <3>1 DEF Found, Active
    <3> HIDE DEF r
    <3>4. request'[q] = r /\ installation' = installation
      BY <1>1, <1>10, <3>1 DEF CheckAccess, tables
    <3>5. Found(q)'
      BY <1>1, <3>1, <3>2, <3>3, <3>4 DEF Found
    <3> QED BY <1>2, <1>10, <3>1, <3>2, <3>5 DEF CheckAccess
  <2> QED BY <1>10, <2>1, <2>2 DEF CheckAccess
<1>11. CASE Fail(q)
  BY <1>3, <1>11 DEF Fail
<1>12. CASE CheckOwner(q)
  <2> DEFINE r == [request[q] EXCEPT !.stage = "replace"]
  <2>1. CASE Finish(q)
    BY <1>3, <1>12, <2>1 DEF CheckOwner
  <2>2. CASE Active(request[q].account, request[q].installation) /\ Goto(q, "replace")
    <3>1. request' = [request EXCEPT ![q] = r] /\ request[q].stage = "sync"
      BY <1>1, <1>12, <2>2 DEF CheckOwner, Goto, At
    <3>2. /\ r \in Request /\ r.stage = "replace" /\ r.account = request[q].account
          /\ r.installation = request[q].installation
      BY <1>1, Staged DEF Stages
    <3>3. installation[request[q].installation].present
      BY <2>2 DEF Active
    <3> HIDE DEF r
    <3>4. request'[q] = r /\ installation' = installation
      BY <1>1, <1>12, <3>1 DEF CheckOwner, tables
    <3>5. Found(q)'
      BY <1>1, <3>1, <3>2, <3>3, <3>4 DEF Found
    <3> QED BY <1>2, <1>12, <3>1, <3>2, <3>5 DEF CheckOwner
  <2> QED BY <1>12, <2>1, <2>2 DEF CheckOwner
<1> QED BY <1>4, <1>6, <1>8, <1>9, <1>10, <1>11, <1>7, <1>12

(* The list read from GitHub replaces what is stored.                      *)
LEMMA SyncKeeps == ASSUME CodebaseInv, NEW q \in Requests, Sync(q) PROVE CodebaseInv'
<1> DEFINE i == request[q].installation
<1>1. /\ request[q] \in Request /\ request[q].stage = "replace" /\ Found(q)
      /\ Idle \in Request /\ started \in 0 .. MaxRequests
      /\ request \in [Requests -> Request]
  BY DEF CodebaseInv, TypeOK, Idle, Request, Stages, Sync, At
<1>2. i \in Installations /\ request[q].inventory \subseteq Repositories
  BY <1>1 DEF Found, Request
<1>3. SelectedStep
  <2>1. installation[i].present
    BY <1>1 DEF Found
  <2> QED BY <1>2, <2>1 DEF Sync, SelectedStep, CodebaseInv, TypeOK
<1>4. Found(q)'
  BY <1>1 DEF Sync, Finish, Found, Idle
<1> QED BY <1>1, <1>3, <1>4, RequestKeeps DEF Sync, Finish

(* An installation has one owner, for good.                                *)
LEMMA ClaimKeeps == ASSUME CodebaseInv, NEW q \in Requests, Claim(q) PROVE CodebaseInv'
<1> DEFINE i == request[q].installation
           a == request[q].account
           new == [installation[i] EXCEPT !.account = a]
           r == [request[q] EXCEPT !.stage = "inventory"]
<1>1. /\ request[q] \in Request /\ request[q].stage = "claim" /\ Found(q)
      /\ request \in [Requests -> Request]
      /\ installation \in [Installations -> InstallationRow]
  BY DEF CodebaseInv, TypeOK, Claim, At
<1>2. a \in Accounts /\ i \in Installations /\ installation[i].account \in {None, a}
  BY <1>1 DEF Found, Claim, Claimable
<1>3. /\ installation' = [installation EXCEPT ![i] = new]
      /\ request' = [request EXCEPT ![q] = r]
      /\ UNCHANGED <<app, granted, private, sent, recorded, selected, codebase, started>>
  BY <1>1, <1>2 DEF Claim, Change, Goto, InstallationRow, github
<1>4. /\ new \in InstallationRow /\ new.account = a
      /\ new.present = installation[i].present /\ new.removed = installation[i].removed
  BY <1>1, <1>2 DEF InstallationRow
<1>5. r \in Request /\ r.stage = "inventory" /\ r.account = a /\ r.installation = i
  BY <1>1 DEF Request, Stages
<1> HIDE DEF new, r
<1>6. /\ installation' \in [Installations -> InstallationRow]
      /\ \A j \in Installations :
           installation'[j] = IF j = i THEN new ELSE installation[j]
      /\ request' \in [Requests -> Request] /\ request'[q] = r
      /\ \A p \in Requests \ {q} : request'[p] = request[p]
  BY <1>1, <1>3, <1>4, <1>5
<1>7. \A j \in Installations :
        /\ installation'[j].present = installation[j].present
        /\ installation'[j].removed = installation[j].removed
        /\ installation[j].account # None => installation'[j].account = installation[j].account
  BY <1>2, <1>4, <1>6
<1>8. TypeOK'
  BY <1>3, <1>6, <1>7 DEF CodebaseInv, TypeOK
<1>9. ASSUME NEW p \in Requests PROVE Found(p)'
  <2>1. CASE p = q
    BY <1>2, <1>5, <1>6, <2>1 DEF Found
  <2>2. CASE p # q
    <3>1. /\ Found(p) /\ request'[p] = request[p]
          /\ request[p].installation \in Installations \cup {None}
      BY <1>6, <2>2 DEF CodebaseInv, TypeOK, Request
    <3> QED BY <1>7, <3>1, NoneAssumption DEF Found
  <2> QED BY <2>1, <2>2
<1>10. CreatedOnce' /\ PrivateAttached' /\ AddedNamed'
  BY <1>3, <1>7 DEF CodebaseInv, CreatedOnce, CreatedAt, PrivateAttached, AddedNamed
<1>11. OwnedCodebases'
  <2> SUFFICES ASSUME NEW k \in Keys, codebase[k].present, codebase[k].installation # None
               PROVE  installation'[codebase[k].installation].account = k[1]
    BY <1>3 DEF OwnedCodebases
  <2>1. codebase[k].installation \in Installations /\ k[1] \in Accounts
    BY DEF CodebaseInv, TypeOK, CodebaseRow, Keys
  <2> QED BY <1>7, <2>1, NoneAssumption DEF CodebaseInv, OwnedCodebases
<1> QED BY <1>8, <1>9, <1>10, <1>11 DEF CodebaseInv

(* The insert, whatever happened since the check before it.                *)
LEMMA InsertKeeps == ASSUME CodebaseInv, NEW q \in Requests, Insert(q) PROVE CodebaseInv'
<1> DEFINE key == KeyOf(q)
           old == codebase[key]
           row == Saved(old, q)
<1>1. /\ request[q] \in Request /\ request[q].stage = "insert" /\ Found(q)
      /\ request \in [Requests -> Request] /\ Idle \in Request
      /\ codebase \in [Keys -> CodebaseRow]
  BY DEF CodebaseInv, TypeOK, Insert, At, Idle, Request, Stages
<1>2. key \in Keys /\ key[1] = request[q].account
  BY <1>1 DEF Found, KeyOf, Keys
<1>3. /\ row \in CodebaseRow /\ row.installation = request[q].installation
      /\ row.receipt = request[q].visibility
  <2>1. /\ Inspected(q) \in CodebaseRow
        /\ Inspected(q).installation = request[q].installation
        /\ Inspected(q).receipt = request[q].visibility
    BY <1>1 DEF Inspected, CodebaseRow, Request
  <2>2. old \in CodebaseRow
    BY <1>1, <1>2
  <2> HIDE DEF old
  <2> QED BY <2>1, <2>2 DEF Saved, CodebaseRow
<1>4. /\ codebase' = [codebase EXCEPT ![key] = row]
      /\ request' = [request EXCEPT ![q] = Idle]
      /\ UNCHANGED <<app, granted, private, sent, recorded, installation, selected,
                     started>>
  BY DEF Insert, Finish, github
<1> HIDE DEF key, row
<1>5. /\ codebase' \in [Keys -> CodebaseRow]
      /\ \A k \in Keys : codebase'[k] = IF k = key THEN row ELSE codebase[k]
      /\ request' \in [Requests -> Request] /\ request'[q] = Idle
      /\ \A p \in Requests \ {q} : request'[p] = request[p]
  BY <1>1, <1>2, <1>3, <1>4
<1>6. TypeOK'
  BY <1>4, <1>5 DEF CodebaseInv, TypeOK
<1>7. \A p \in Requests : Found(p)'
  BY <1>4, <1>5 DEF CodebaseInv, Found, Idle
<1>8. CreatedOnce' /\ AddedNamed'
  BY <1>4 DEF CodebaseInv, CreatedOnce, CreatedAt, AddedNamed
<1>9. OwnedCodebases'
  BY <1>1, <1>2, <1>3, <1>4, <1>5 DEF CodebaseInv, OwnedCodebases, Found
<1>10. PrivateAttached'
  BY <1>1, <1>3, <1>5 DEF CodebaseInv, PrivateAttached, Found
<1> QED BY <1>6, <1>7, <1>8, <1>9, <1>10 DEF CodebaseInv

-----------------------------------------------------------------------------
LEMMA CodebaseStep == CodebaseInv /\ [Next]_vars => CodebaseInv'
<1> SUFFICES ASSUME CodebaseInv, [Next]_vars
             PROVE  CodebaseInv'
  OBVIOUS
<1>1. CASE OnGitHub
  BY <1>1, GitHubKeeps
<1>2. ASSUME NEW n \in 1 .. MaxEvents, Webhook(n) PROVE CodebaseInv'
  BY <1>2, WebhookKeeps
<1>3. ASSUME NEW q \in Requests, OnServer(q) PROVE CodebaseInv'
  BY <1>3, ReadingKeeps, SyncKeeps, ClaimKeeps, InsertKeeps DEF OnServer
<1>4. CASE UNCHANGED vars
  BY <1>4 DEF vars, CodebaseInv, TypeOK, AddedNamed, Found, CreatedOnce, CreatedAt,
              OwnedCodebases, PrivateAttached
<1> QED BY <1>1, <1>2, <1>3, <1>4 DEF Next

LEMMA Connected == Spec => []CodebaseInv
BY CodebaseInit, CodebaseStep, PTL DEF Spec

(* Every table, delivery and request is well typed, and only recorded      *)
(* installations list repositories.                                        *)
THEOREM CodebaseTypes == Spec => []TypeOK
<1>1. CodebaseInv => TypeOK
  BY DEF CodebaseInv
<1> QED BY <1>1, Connected, PTL

(* A codebase imported through an installation belongs to its owner, for   *)
(* any accounts, installations and overlapping imports: the insert holds   *)
(* nothing since the check, but an installation never changes its owner.   *)
THEOREM OwnersKept == Spec => []OwnedCodebases
<1>1. CodebaseInv => OwnedCodebases
  BY DEF CodebaseInv
<1> QED BY <1>1, Connected, PTL

(* What was inspected in a private repository is attached to an            *)
(* installation, also when a manual import overwrites its row.             *)
THEOREM PrivateStaysAttached == Spec => []PrivateAttached
<1>1. CodebaseInv => PrivateAttached
  BY DEF CodebaseInv
<1> QED BY <1>1, Connected, PTL

(* A removed installation stays removed: its created delivery is taken in  *)
(* once, and GitHub sends no other.                                        *)
THEOREM RemovedForGood == Spec => RemovalFinal
<1>1. CodebaseInv /\ [Next]_vars =>
        [\A i \in Installations : installation[i].removed => installation'[i].removed]_vars
  <2> SUFFICES ASSUME CodebaseInv, [Next]_vars,
                      NEW i \in Installations, installation[i].removed
               PROVE  installation'[i].removed
    OBVIOUS
  <2>1. CASE installation' = installation
    BY <2>1
  <2>2. ASSUME NEW n, Webhook(n) PROVE installation'[i].removed
    BY <2>2, WebhookSteps DEF Webhook, InstallationsStep
  <2>3. ASSUME NEW q \in Requests, Claim(q) PROVE installation'[i].removed
    BY <2>3 DEF Claim, Change, CodebaseInv, TypeOK, InstallationRow
  <2>4. CASE OnGitHub
    BY <2>1, <2>4
       DEF OnGitHub, Install, Suspend, Unsuspend, Uninstall, AcceptPermissions,
           ChangeInstallation, ChangeSelection, Push, MakePrivate, tables
  <2>5. ASSUME NEW q \in Requests, OnServer(q) PROVE installation'[i].removed
    BY <2>1, <2>3, <2>5
       DEF OnServer, Return, ImportSelected, ImportUrl, Begin, ReadInventory, CheckOwner,
           Sync, Inspect, CheckAccess, Insert, Fail, tables
  <2> QED BY <2>1, <2>2, <2>4, <2>5 DEF Next, vars
<1> QED BY <1>1, Connected, PTL DEF Spec, RemovalFinal
=============================================================================
