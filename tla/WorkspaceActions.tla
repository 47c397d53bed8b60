-------------------------- MODULE WorkspaceActions --------------------------
(***************************************************************************)
(* The server actions of apps/problems (actions/activity.ts) and the       *)
(* WebMCP tools that post to them.  A page is rendered at one exact anchor *)
(* of its Problem; every form it posts names that anchor and an            *)
(* idempotency key.  An action reads the anchor its deployment serves,     *)
(* then the stored activity, then runs one database command, with an await *)
(* between each; meanwhile deployments of another release start to serve,  *)
(* other requests land, answers are lost and forms are posted again.       *)
(*                                                                         *)
(* A database command is one atomic step here, as AtomicCommands states    *)
(* and ActivityCommands is checked to implement.                           *)
(***************************************************************************)
EXTENDS Naturals, FiniteSets, Sequences

CONSTANTS
    Members,   \* accounts, all members of the workspace worked in
    Anchors,   \* exact reads of the Problem, in order of release: 1 .. n
    Slugs,     \* workspaces that members create
    Values,    \* titles, names, bodies, content roots, states
    Forms,     \* what people post
    Plans,     \* what agents ask a tool for: the forms it posts, in order
    Before,    \* the rows stored before, in order of their ids
    Clients,   \* browsers, each with at most one request in flight
    MaxForms,  \* bound: forms posted, retries not counted
    Planned,   \* the state of a new attempt
    Lifecycle, \* <<from, to>>: the changes of state of an attempt
    Reaches,   \* whether the Problem has a public path to redirect to
    None

Kinds ==
    {"approach", "fork", "attempt", "move", "note", "canvas", "evidence", "draft"}

Ids  == 1 .. Len(Before) + MaxForms
Keys == 1 .. MaxForms

(* target is the row a form is about, draft the draft it revises; 0 is     *)
(* absent.  A form that opens a workspace has its slug.                    *)
Form ==
    [kind : Kinds \cup {"open", "follow"}, by : Members, expected : Anchors,
     target : Ids \cup {0}, draft : Ids \cup {0}, version : Ids \cup {0},
     value : Values, slug : Slugs]

Posted == [form : Form, key : Keys]

Row ==
    [table : {"approach", "attempt", "note", "canvas", "evidence", "draft"},
     anchor : Anchors, of : Ids \cup {0}, value : Values, version : Nat \ {0}]

(* What the database records of a command: its request and its row.        *)
Record ==
    [root : [form : Form, anchor : Anchors \cup {0}, stamp : {1, 2}],
     id : Ids \cup {0}]

(* Where a request is; the form as posted; the anchor the action read; the *)
(* emission time a draft carries; the outcome so far.                      *)
Run ==
    [stage : {"state", "check", "command", "list", "create", "first", "reply"},
     post : Posted, anchor : Anchors \cup {0}, stamp : {1, 2},
     refused : BOOLEAN]

(* The rows stored before are of their types, and their drafts cite        *)
(* evidence of their own anchor.                                           *)
BeforeTyped ==
    /\ Before \in Seq(Row)
    /\ \A i \in 1 .. Len(Before) : Before[i].table = "draft" =>
         LET e == Before[i].of IN
         /\ e \in 1 .. Len(Before)
         /\ Before[e].table = "evidence" /\ Before[e].anchor = Before[i].anchor

(* What a model of this module must give its constants.                    *)
ConstantsTyped ==
    /\ Forms \subseteq Form
    /\ Plans \subseteq Seq(Form) \ {<<>>}
    /\ Planned \in Values
    /\ IsFiniteSet(Anchors) /\ 1 \in Anchors
    /\ Anchors = 1 .. Cardinality(Anchors)
    /\ MaxForms \in Nat
    /\ BeforeTyped
    /\ None \notin Row \cup Record

VARIABLES
    served,     \* anchors that running deployments serve
    rows,       \* id -> row, or None
    idem,       \* <<account, key>> -> [root, row id] or None
    spaces,     \* slug -> [by, name] or None
    follows,    \* <<account, slug, anchor>> followed now
    firsts,     \* follows recorded under the fixed key of workspace and anchor
    posted,     \* every form posted, with its key
    run,        \* client -> the request it has in flight, or None
    tool,       \* client -> the tool call it is in, or None
    log,        \* history: every write, [by, key, id, version, anchor, expected]
    opened,     \* history: workspaces a caller was sent on to, with the anchor
    reported    \* history: what tools said of each form they posted

db    == <<rows, idem, spaces, follows, firsts>>
seen  == <<log, opened, reported>>
vars  == <<served, rows, idem, spaces, follows, firsts, posted, run, tool,
           log, opened, reported>>

-----------------------------------------------------------------------------
(* Posting.                                                                *)

Busy(c) == run[c] # None

(* Two requests of one draft may fall in the same second or not.           *)
Stamps(form) == IF form.kind = "draft" THEN {1, 2} ELSE {1}

Begin(c, post) ==
    \E t \in Stamps(post.form) :
      run' = [run EXCEPT
                ![c] = [stage |-> "state", post |-> post, anchor |-> 0,
                        stamp |-> t, refused |-> FALSE]]

(* IdempotencyField: a key for each submit.                                *)
FreshPost(f) == [form |-> f, key |-> Cardinality(posted) + 1]

PostForm(c) ==
    /\ ~Busy(c) /\ tool[c] = None
    /\ Cardinality(posted) < MaxForms
    /\ \E f \in Forms :
         /\ f.expected <= Cardinality(served)
         /\ Begin(c, FreshPost(f))
         /\ posted' = posted \cup {FreshPost(f)}
    /\ UNCHANGED <<served, db, tool, seen>>

(* The same submit once more: a repeated request, or a page without        *)
(* scripts.                                                                *)
PostAgain(c) ==
    /\ ~Busy(c) /\ tool[c] = None
    /\ \E p \in posted : Begin(c, p)
    /\ UNCHANGED <<served, db, posted, tool, seen>>

(* A deployment of the next release starts to serve; earlier ones still do.*)
Release ==
    /\ Cardinality(served) < Cardinality(Anchors)
    /\ served' = served \cup {Cardinality(served) + 1}
    /\ UNCHANGED <<db, posted, run, tool, seen>>

-----------------------------------------------------------------------------
(* The action up to its command.                                           *)

FormOf(c) == run[c].post.form
At(c, stage) == Busy(c) /\ run[c].stage = stage
Goto(c, stage) == run' = [run EXCEPT ![c].stage = stage]

Done(c, refused) ==
    run' = [run EXCEPT ![c].stage = "reply", ![c].refused = refused]

Agrees(form, anchor) == form.kind = "open" \/ anchor = form.expected

Checked == {"fork", "attempt", "move", "evidence", "draft"}

(* mutationContext: the state this deployment serves now, against the one  *)
(* the page was rendered from.                                             *)
ReadState(c) ==
    /\ At(c, "state")
    /\ \E a \in served :
         IF Agrees(FormOf(c), a)
         THEN run' = [run EXCEPT
                        ![c].anchor = a,
                        ![c].stage = IF FormOf(c).kind = "open" THEN "list"
                                     ELSE IF FormOf(c).kind \in Checked THEN "check"
                                     ELSE "command"]
         ELSE Done(c, TRUE)
    /\ UNCHANGED <<served, db, posted, tool, seen>>

Table(kind) ==
    CASE kind = "fork" -> "approach"
      [] kind = "move" -> "attempt"
      [] OTHER -> kind

(* The table of the row a form is about.                                   *)
About(kind) ==
    CASE kind \in {"fork", "attempt"} -> "approach"
      [] kind \in {"move", "evidence", "note"} -> "attempt"
      [] kind = "draft" -> "evidence"

Present(id, table) == id # 0 /\ rows[id] # None /\ rows[id].table = table

(* Faulty variant of Current: the row need only be there.                  *)
CurrentAnywhere(form, anchor) == Present(form.target, About(form.kind))

(* requireCurrentApproach, requireCurrentAttempt, requireCurrentArtifact.  *)
Current(form, anchor) ==
    /\ Present(form.target, About(form.kind))
    /\ rows[form.target].anchor = anchor
    /\ form.kind \in {"fork", "move"} => rows[form.target].version = form.version

CheckActivity(c) ==
    /\ At(c, "check")
    /\ IF Current(FormOf(c), run[c].anchor) THEN Goto(c, "command") ELSE Done(c, TRUE)
    /\ UNCHANGED <<served, db, posted, tool, seen>>

-----------------------------------------------------------------------------
(* The command.                                                            *)

(* What the database hashes of a request.  A workspace is created without  *)
(* an anchor; only a draft's payload carries the time of the request.      *)
Root(c) ==
    [form   |-> FormOf(c),
     anchor |-> IF FormOf(c).kind = "open" THEN 0 ELSE run[c].anchor,
     stamp  |-> run[c].stamp]

KeyOf(c) == <<FormOf(c).by, run[c].post.key>>

(* Faulty variant of Prior: the record is looked up by what was asked.     *)
PriorSameRoot(c) == idem[KeyOf(c)] # None /\ idem[KeyOf(c)].root = Root(c)

Prior(c) == idem[KeyOf(c)] # None

NextId == Cardinality({i \in Ids : rows[i] # None}) + 1

(* The anchor a command writes: the source's own, or the captured one.     *)
AnchorWritten(c) ==
    IF FormOf(c).kind \in {"fork", "attempt", "move"}
    THEN rows[FormOf(c).target].anchor ELSE run[c].anchor

(* An attempt may also be saved in the state it is in.                     *)
LegalMove(from, to) == from = to \/ <<from, to>> \in Lifecycle

(* What the database itself requires of a command.                         *)
Accepted(c) ==
    LET f == FormOf(c) IN
    CASE f.kind \in {"approach", "canvas", "follow"} -> TRUE
      [] f.kind = "attempt" -> Present(f.target, "approach")
      [] f.kind \in {"fork", "move"} ->
           /\ Present(f.target, About(f.kind))
           /\ rows[f.target].version = f.version
           /\ f.kind = "move" => LegalMove(rows[f.target].value, f.value)
      [] f.kind = "note" ->
           f.target # 0 => /\ Present(f.target, "attempt")
                           /\ rows[f.target].anchor = run[c].anchor
      [] f.kind = "evidence" ->
           /\ Present(f.target, "attempt")
           /\ rows[f.target].anchor = run[c].anchor
           /\ \A i \in Ids : Present(i, "evidence") =>
                <<rows[i].anchor, rows[i].value>> # <<run[c].anchor, f.value>>
      [] f.kind = "draft" ->
           f.draft # 0 => Present(f.draft, "draft") /\ rows[f.draft].version = f.version

(* The row a command changes, if it changes one, or the next.              *)
Subject(f) ==
    IF f.kind = "move" THEN f.target
    ELSE IF f.kind = "draft" /\ f.draft # 0 THEN f.draft
    ELSE NextId

Version(id) == IF id = NextId THEN 1 ELSE rows[id].version + 1

Written(c, id) ==
    LET f == FormOf(c) IN
    [table |-> Table(f.kind), anchor |-> AnchorWritten(c),
     of |-> IF f.kind = "move" THEN rows[id].of ELSE f.target,
     value |-> IF f.kind = "attempt" THEN Planned ELSE f.value,
     version |-> Version(id)]

Apply(c) ==
    LET f  == FormOf(c)
        id == Subject(f)
    IN  /\ rows' = [rows EXCEPT ![id] = Written(c, id)]
        /\ idem' = [idem EXCEPT ![KeyOf(c)] = [root |-> Root(c), id |-> id]]
        /\ log'  = log \cup {[by |-> f.by, key |-> run[c].post.key, id |-> id,
                              version |-> Version(id), anchor |-> AnchorWritten(c),
                              expected |-> f.expected]}

Thread(c) == <<FormOf(c).by, FormOf(c).slug, run[c].anchor>>

SetFollow(c) ==
    /\ follows' = IF FormOf(c).target = 0 THEN follows \ {Thread(c)}
                  ELSE follows \cup {Thread(c)}
    /\ idem' = [idem EXCEPT ![KeyOf(c)] = [root |-> Root(c), id |-> 0]]
    /\ UNCHANGED <<rows, log>>

Command(c) ==
    /\ At(c, "command")
    /\ IF Prior(c)
       THEN /\ Done(c, idem[KeyOf(c)].root # Root(c))
            /\ UNCHANGED <<rows, idem, follows, log>>
       ELSE IF ~Accepted(c)
       THEN /\ Done(c, TRUE)
            /\ UNCHANGED <<rows, idem, follows, log>>
       ELSE /\ Done(c, FALSE)
            /\ IF FormOf(c).kind = "follow"
               THEN SetFollow(c)
               ELSE Apply(c) /\ UNCHANGED follows
    /\ UNCHANGED <<served, spaces, firsts, posted, tool, opened, reported>>

-----------------------------------------------------------------------------
(* createWorkspaceAction: list, create what is not listed, follow.         *)

Space(c) == spaces[FormOf(c).slug]

Listed(c) == Space(c) # None /\ Space(c).by = FormOf(c).by

AfterListing(c) == IF Listed(c) THEN "first" ELSE "create"

ListWorkspaces(c) ==
    /\ At(c, "list")
    /\ IF Listed(c) /\ Space(c).name # FormOf(c).value
       THEN Done(c, TRUE)
       ELSE Goto(c, AfterListing(c))
    /\ UNCHANGED <<served, db, posted, tool, seen>>

(* Under the form's key, and refused when the slug is taken meanwhile.     *)
CreateWorkspace(c) ==
    LET f == FormOf(c) IN
    /\ At(c, "create")
    /\ IF Prior(c)
       THEN /\ IF idem[KeyOf(c)].root = Root(c) THEN Goto(c, "first") ELSE Done(c, TRUE)
            /\ UNCHANGED <<spaces, idem>>
       ELSE IF Space(c) # None
       THEN /\ Done(c, TRUE)
            /\ UNCHANGED <<spaces, idem>>
       ELSE /\ Goto(c, "first")
            /\ spaces' = [spaces EXCEPT ![f.slug] = [by |-> f.by, name |-> f.value]]
            /\ idem' = [idem EXCEPT ![KeyOf(c)] = [root |-> Root(c), id |-> 0]]
    /\ UNCHANGED <<served, rows, follows, firsts, posted, tool, seen>>

(* The key is the workspace and the anchor, so a second follow of the same *)
(* two is answered from the first and changes nothing.                     *)
FirstFollow(c) ==
    /\ At(c, "first")
    /\ follows' = IF Thread(c) \in firsts THEN follows ELSE follows \cup {Thread(c)}
    /\ firsts'  = firsts \cup {Thread(c)}
    /\ Done(c, FALSE)
    /\ UNCHANGED <<served, rows, idem, spaces, posted, tool, seen>>

-----------------------------------------------------------------------------
(* Answers.  A refusal redirects or throws, and a success redirects where  *)
(* the Problem has a public path; each of them rejects the promise that    *)
(* the calling script holds.                                               *)

Rejects(c) == run[c].refused \/ Reaches

Finish(c) == run' = [run EXCEPT ![c] = None]

ReplyToPerson(c) ==
    /\ At(c, "reply")
    /\ tool[c] = None
    /\ opened' = IF FormOf(c).kind = "open" /\ ~run[c].refused
                 THEN opened \cup {Thread(c)} ELSE opened
    /\ Finish(c)
    /\ UNCHANGED <<served, db, posted, tool, log, reported>>

(* The server stops, or the answer is lost.  A tool call is lost with it.  *)
Lose(c) ==
    /\ Busy(c)
    /\ Finish(c)
    /\ tool' = [tool EXCEPT ![c] = None]
    /\ UNCHANGED <<served, db, posted, seen>>

-----------------------------------------------------------------------------
(* The tools.  open_approach posts an approach, reads it back by its title *)
(* and posts an attempt on it; attach_evidence posts evidence and then a   *)
(* note, whose outcome it ignores; prepare_submission posts a draft.       *)

StartTool(c) ==
    /\ ~Busy(c) /\ tool[c] = None
    /\ Cardinality(posted) < MaxForms
    /\ \E plan \in Plans :
         /\ plan[1].expected <= Cardinality(served)
         /\ tool' = [tool EXCEPT ![c] = plan]
    /\ UNCHANGED <<served, db, posted, run, seen>>

(* scopeFields: the page's anchor, and a new key.                          *)
ToolPost(c) ==
    /\ ~Busy(c) /\ tool[c] # None
    /\ Cardinality(posted) < MaxForms
    /\ Begin(c, FreshPost(tool[c][1]))
    /\ posted' = posted \cup {FreshPost(tool[c][1])}
    /\ UNCHANGED <<served, db, tool, seen>>

(* readActivity lists the latest first, over every anchor of the Problem.  *)
Titled(title) == {i \in Ids : Present(i, "approach") /\ rows[i].value = title}

Latest(ids) == CHOOSE i \in ids : \A j \in ids : j <= i

(* runAction calls every rejection a refusal.  A tool that was refused     *)
(* ends, one that was not goes on to its next form.  attach_evidence does  *)
(* not look at what became of its note.                                    *)
Onward(c) ==
    LET f    == FormOf(c)
        rest == Tail(tool[c])
    IN  IF rest = <<>> \/ (f.kind = "approach" /\ Titled(f.value) = {})
        THEN None
        ELSE IF f.kind = "approach"
        THEN [rest EXCEPT ![1].target = Latest(Titled(f.value))]
        ELSE rest

ToolHears(c) ==
    /\ At(c, "reply")
    /\ tool[c] # None
    /\ reported' = reported \cup {[by |-> FormOf(c).by, key |-> run[c].post.key,
                                   refused |-> /\ Rejects(c)
                                               /\ FormOf(c).kind # "note"]}
    /\ tool' = [tool EXCEPT ![c] = IF Rejects(c) THEN None ELSE Onward(c)]
    /\ Finish(c)
    /\ UNCHANGED <<served, db, posted, log, opened>>

-----------------------------------------------------------------------------
Init ==
    /\ served   = {1}
    /\ rows     = [i \in Ids |-> IF i <= Len(Before) THEN Before[i] ELSE None]
    /\ idem     = [k \in Members \X Keys |-> None]
    /\ spaces   = [s \in Slugs |-> None]
    /\ follows  = {}
    /\ firsts   = {}
    /\ posted   = {}
    /\ run      = [c \in Clients |-> None]
    /\ tool     = [c \in Clients |-> None]
    /\ log      = {}
    /\ opened   = {}
    /\ reported = {}

Next ==
    \/ Release
    \/ \E c \in Clients :
         \/ PostForm(c)
         \/ PostAgain(c)
         \/ ReadState(c)
         \/ CheckActivity(c)
         \/ Command(c)
         \/ ListWorkspaces(c)
         \/ CreateWorkspace(c)
         \/ FirstFollow(c)
         \/ ReplyToPerson(c)
         \/ StartTool(c)
         \/ ToolPost(c)
         \/ ToolHears(c)
         \/ Lose(c)

Spec == Init /\ [][Next]_vars

-----------------------------------------------------------------------------
(* Properties.                                                             *)

(* Every table, request and tool call is of its type.                      *)
TypeOK ==
    /\ served \subseteq Anchors
    /\ rows \in [Ids -> Row \cup {None}]
    /\ \A k \in Members \X Keys : idem[k] # None => idem[k].id \in Ids \cup {0}
    /\ \A s \in Slugs : spaces[s] # None => spaces[s] \in [by : Members, name : Values]
    /\ follows \cup firsts \cup opened \subseteq Members \X Slugs \X Anchors
    /\ posted \subseteq Posted
    /\ run \in [Clients -> Run \cup {None}]

(* activity.ts:73-99 and webmcp/tools.ts:41-43: a mutation posted from a   *)
(* page fails or lands on the exact anchor that page showed, whichever     *)
(* release its request reaches and whatever is released while it runs.     *)
LandsOnPageAnchor == \A e \in log : e.anchor = e.expected

(* A draft cites evidence of the anchor it is itself about, also after it  *)
(* was revised: no command of the database checks that.                    *)
DraftsCiteTheirAnchor ==
    \A i \in Ids : Present(i, "draft") =>
      /\ Present(rows[i].of, "evidence")
      /\ rows[rows[i].of].anchor = rows[i].anchor

(* One submit is one change, although a repeated draft save is another     *)
(* request: it carries the time at which it is made.                       *)
OneSubmitOneChange ==
    \A e, f \in log : e.by = f.by /\ e.key = f.key => e = f

(* Somebody asked no longer to follow the Problem of a workspace.          *)
Unfollowed(thread) ==
    \E k \in Members \X Keys :
      /\ idem[k] # None
      /\ LET asked == idem[k].root IN
         /\ asked.form.kind = "follow" /\ asked.form.target = 0
         /\ thread = <<asked.form.by, asked.form.slug, asked.anchor>>

(* Whoever is sent on to a workspace follows the Problem there, although   *)
(* creating and following are two commands and the first may be all that   *)
(* an earlier request did; only his own request to unfollow it ends that.  *)
OpenedFollows == \A thread \in opened : thread \in follows \/ Unfollowed(thread)

(* webmcp/tools.ts:82-84 and 94-98: a redirect is a guarded failure, so a  *)
(* form whose tool says that the server refused it changed nothing.        *)
RefusalsLeaveNothing ==
    \A r \in reported : r.refused =>
      ~\E e \in log : e.by = r.by /\ e.key = r.key
=============================================================================
