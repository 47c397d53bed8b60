----------------------- MODULE WorkspaceActionsProofs -----------------------
(***************************************************************************)
(* What the server actions promise, for every number of releases, clients  *)
(* and forms.                                                              *)
(*                                                                         *)
(* An action checks the anchor and the rows its form is about, and runs    *)
(* its command later, with an await between each.  What was checked stays  *)
(* true because nothing ever moves those rows to another anchor; what a    *)
(* repeated submit finds is the record that its first command left.        *)
(***************************************************************************)
EXTENDS WorkspaceActions, FiniteSetTheorems, SequenceTheorems, WellFoundedInduction, TLAPS

Filled == {i \in Ids : rows[i] # None}

Used == {k \in Members \X Keys : idem[k] # None}

Typed ==
    /\ ConstantsTyped /\ TypeOK
    /\ DOMAIN idem = Members \X Keys /\ DOMAIN spaces = Slugs /\ DOMAIN tool = Clients
    /\ \A c \in Clients : tool[c] # None => tool[c] \in Seq(Form) \ {<<>>}

Serving == served = 1 .. Cardinality(served)

(* The posted forms are finitely many, and only their keys are used.       *)
Posting ==
    /\ IsFiniteSet(posted) /\ Cardinality(posted) <= MaxForms
    /\ Used \subseteq {<<p.form.by, p.key>> : p \in posted}
    /\ \A c \in Clients : Busy(c) => run[c].post \in posted

(* Rows are stored under consecutive ids, at most one for each used key.   *)
Consecutive ==
    /\ Filled = 1 .. Cardinality(Filled)
    /\ Cardinality(Filled) <= Len(Before) + Cardinality(Used)

(* The row that a form is about was found at the anchor of its request.    *)
Found(c) ==
    FormOf(c).kind \in Checked =>
      /\ Present(FormOf(c).target, About(FormOf(c).kind))
      /\ rows[FormOf(c).target].anchor = run[c].anchor

(* What an action knows of its request at each of its stages.              *)
Working(c) ==
    /\ At(c, "check") => FormOf(c).kind \in Checked
    /\ At(c, "check") \/ At(c, "command") =>
         FormOf(c).kind # "open" /\ run[c].anchor = FormOf(c).expected
    /\ At(c, "command") => Found(c)
    /\ At(c, "list") \/ At(c, "create") \/ At(c, "first") =>
         FormOf(c).kind = "open" /\ run[c].anchor \in Anchors
    /\ At(c, "reply") /\ FormOf(c).kind = "open" /\ ~run[c].refused =>
         Thread(c) \in firsts

(* Whoever was sent on had been made to follow.                            *)
SentOn == opened \subseteq firsts

(* Every write has its record.                                             *)
Recorded == \A e \in log : <<e.by, e.key>> \in Used

ActionsInv ==
    /\ Typed
    /\ Serving
    /\ Posting
    /\ Consecutive
    /\ \A c \in Clients : Working(c)
    /\ Recorded
    /\ LandsOnPageAnchor
    /\ DraftsCiteTheirAnchor
    /\ OneSubmitOneChange
    /\ SentOn

-----------------------------------------------------------------------------
LEMMA RequestFields ==
    ASSUME Typed, NEW c \in Clients, Busy(c)
    PROVE  /\ run[c] \in Run
           /\ run[c].stage \in {"state", "check", "command", "list", "create",
                               "first", "reply"}
           /\ run[c].post \in Posted /\ run[c].post.key \in Keys
           /\ run[c].anchor \in Anchors \cup {0} /\ run[c].stamp \in {1, 2}
           /\ FormOf(c) \in Form
           /\ FormOf(c).kind \in Kinds \cup {"open", "follow"}
           /\ FormOf(c).by \in Members /\ FormOf(c).expected \in Anchors
           /\ FormOf(c).target \in Ids \cup {0} /\ FormOf(c).draft \in Ids \cup {0}
           /\ FormOf(c).value \in Values /\ FormOf(c).slug \in Slugs
           /\ KeyOf(c) \in Members \X Keys
BY DEF Typed, TypeOK, Busy, Run, Posted, Form, FormOf, KeyOf

LEMMA RowFields ==
    ASSUME Typed, NEW i \in Ids, rows[i] # None
    PROVE  /\ rows[i] \in Row /\ rows[i].anchor \in Anchors
           /\ rows[i].of \in Ids \cup {0} /\ rows[i].version \in Nat \ {0}
           /\ rows[i].table \in {"approach", "attempt", "note", "canvas", "evidence",
                                "draft"}
BY DEF Typed, TypeOK, Row

LEMMA Numbers ==
    ASSUME Typed
    PROVE  /\ Len(Before) \in Nat /\ MaxForms \in Nat /\ Ids = 1 .. Len(Before) + MaxForms
           /\ 0 \notin Ids /\ Ids \subseteq Nat
<1>1. Len(Before) \in Nat /\ MaxForms \in Nat
  BY LenProperties DEF Typed, ConstantsTyped, BeforeTyped
<1> QED BY <1>1 DEF Ids

(* What one client's request is about does not concern another's.          *)
LEMMA OthersWork ==
    ASSUME ActionsInv, NEW d \in Clients, run'[d] = run[d], firsts \subseteq firsts',
           \A i \in Ids : rows[i] # None /\ rows[i].table # "draft" =>
             /\ rows'[i] # None
             /\ rows'[i].table = rows[i].table /\ rows'[i].anchor = rows[i].anchor
    PROVE  Working(d)'
<1>1. Working(d)
  BY DEF ActionsInv
<1>2. ASSUME At(d, "command"), FormOf(d).kind \in Checked
      PROVE  Found(d)'
  <2>1. /\ FormOf(d).target \in Ids
        /\ Present(FormOf(d).target, About(FormOf(d).kind))
        /\ rows[FormOf(d).target].anchor = run[d].anchor
    BY <1>1, <1>2, RequestFields DEF Working, Found, At, Present, ActionsInv
  <2>2. About(FormOf(d).kind) # "draft"
    BY <1>2 DEF About, Checked
  <2>3. FormOf(d)' = FormOf(d) /\ (run[d].anchor)' = run[d].anchor
    BY DEF FormOf
  <2> QED BY <2>1, <2>2, <2>3 DEF Found, Present
<1>3. At(d, "command") => Found(d)'
  BY <1>2 DEF Found, FormOf
<1>4. \A stage : At(d, stage)' <=> At(d, stage)
  BY DEF At, Busy
<1>5. FormOf(d)' = FormOf(d) /\ Thread(d)' = Thread(d)
  BY DEF FormOf, Thread
<1> QED BY <1>1, <1>3, <1>4, <1>5 DEF Working

(* A step of one request that writes nothing.                              *)
LEMMA RequestStep ==
    ASSUME ActionsInv, NEW c \in Clients,
           UNCHANGED <<served, rows, idem, spaces, follows, firsts, log>>,
           run' \in [Clients -> Run \cup {None}],
           \A d \in Clients \ {c} : run'[d] = run[d],
           posted' \subseteq Posted, Posting', opened' \subseteq firsts,
           DOMAIN tool' = Clients,
           \A d \in Clients : tool'[d] # None => tool'[d] \in Seq(Form) \ {<<>>},
           Working(c)'
    PROVE  ActionsInv'
<1>1. Typed' /\ Serving' /\ Consecutive'
  BY DEF ActionsInv, Typed, TypeOK, Serving, Consecutive, Filled, Used
<1>2. Recorded' /\ LandsOnPageAnchor' /\ OneSubmitOneChange' /\ SentOn'
  BY DEF ActionsInv, Recorded, LandsOnPageAnchor, OneSubmitOneChange, SentOn, Used
<1>3. DraftsCiteTheirAnchor'
  BY DEF ActionsInv, DraftsCiteTheirAnchor, Present
<1>4. ASSUME NEW d \in Clients \ {c} PROVE Working(d)'
  BY OthersWork
<1> QED BY <1>1, <1>2, <1>3, <1>4 DEF ActionsInv

(* A request that begins knows nothing yet.                                *)
LEMMA Begun ==
    ASSUME ActionsInv, NEW c \in Clients, NEW p \in Posted, Begin(c, p)
    PROVE  /\ run' \in [Clients -> Run \cup {None}]
           /\ \A d \in Clients \ {c} : run'[d] = run[d]
           /\ run'[c].post = p /\ Working(c)'
<1>1. PICK t \in {1, 2} :
        run' = [run EXCEPT ![c] = [stage |-> "state", post |-> p, anchor |-> 0,
                                   stamp |-> t, refused |-> FALSE]]
  BY DEF Begin, Stamps
<1>2. [stage |-> "state", post |-> p, anchor |-> 0, stamp |-> t, refused |-> FALSE] \in Run
  BY DEF Run
<1>3. run \in [Clients -> Run \cup {None}]
  BY DEF ActionsInv, Typed, TypeOK
<1>4. run'[c].stage = "state" /\ run'[c].post = p
  BY <1>1, <1>3
<1>5. Working(c)'
  BY <1>4 DEF Working, At
<1> QED BY <1>1, <1>2, <1>3, <1>4, <1>5

LEMMA Fresh ==
    ASSUME ActionsInv, NEW f \in Form, Cardinality(posted) < MaxForms
    PROVE  /\ FreshPost(f) \in Posted
           /\ IsFiniteSet(posted \cup {FreshPost(f)})
           /\ Cardinality(posted \cup {FreshPost(f)}) <= MaxForms
<1>1. IsFiniteSet(posted) /\ MaxForms \in Nat
  BY Numbers DEF ActionsInv, Posting
<1>2. Cardinality(posted) \in Nat
  BY <1>1, FS_CardinalityType
<1>3. FreshPost(f) \in Posted
  BY <1>1, <1>2 DEF FreshPost, Posted, Keys
<1> QED BY <1>1, <1>2, <1>3, FS_AddElement

LEMMA PostFormKeeps == ASSUME ActionsInv, NEW c \in Clients, PostForm(c) PROVE ActionsInv'
<1>1. PICK f \in Forms : Begin(c, FreshPost(f)) /\ posted' = posted \cup {FreshPost(f)}
  BY DEF PostForm
<1>2. /\ f \in Form /\ Cardinality(posted) < MaxForms
      /\ UNCHANGED <<served, rows, idem, spaces, follows, firsts, tool, log, opened>>
  BY DEF PostForm, db, seen, ActionsInv, Typed, ConstantsTyped
<1>3. /\ FreshPost(f) \in Posted /\ IsFiniteSet(posted') /\ Cardinality(posted') <= MaxForms
  BY <1>1, <1>2, Fresh
<1>4. /\ run' \in [Clients -> Run \cup {None}] /\ \A d \in Clients \ {c} : run'[d] = run[d]
      /\ run'[c].post = FreshPost(f) /\ Working(c)'
  BY <1>1, <1>3, Begun
<1>5. Posting'
  BY <1>1, <1>2, <1>3, <1>4 DEF ActionsInv, Posting, Used, Busy
<1>6. posted' \subseteq Posted /\ opened' \subseteq firsts
  BY <1>1, <1>2, <1>3 DEF ActionsInv, Typed, TypeOK, SentOn
<1> QED BY <1>2, <1>4, <1>5, <1>6, RequestStep DEF ActionsInv, Typed

LEMMA PostAgainKeeps == ASSUME ActionsInv, NEW c \in Clients, PostAgain(c) PROVE ActionsInv'
<1>1. PICK p \in posted : Begin(c, p)
  BY DEF PostAgain
<1>2. /\ UNCHANGED <<served, rows, idem, spaces, follows, firsts, posted, tool, log, opened>>
      /\ p \in Posted /\ posted \subseteq Posted /\ opened \subseteq firsts
  BY DEF PostAgain, db, seen, ActionsInv, Typed, TypeOK, SentOn
<1>3. /\ run' \in [Clients -> Run \cup {None}] /\ \A d \in Clients \ {c} : run'[d] = run[d]
      /\ run'[c].post = p /\ Working(c)'
  BY <1>1, <1>2, Begun
<1>4. Posting'
  BY <1>2, <1>3 DEF ActionsInv, Posting, Used, Busy
<1> QED BY <1>2, <1>3, <1>4, RequestStep DEF ActionsInv, Typed

LEMMA ToolPostKeeps == ASSUME ActionsInv, NEW c \in Clients, ToolPost(c) PROVE ActionsInv'
<1>1. PICK f : f = tool[c][1]
  OBVIOUS
<1>2. /\ Begin(c, FreshPost(f)) /\ posted' = posted \cup {FreshPost(f)}
      /\ Cardinality(posted) < MaxForms /\ tool[c] # None
      /\ UNCHANGED <<served, rows, idem, spaces, follows, firsts, tool, log, opened>>
  BY <1>1 DEF ToolPost, db, seen
<1>3. f \in Form
  <2>1. tool[c] \in Seq(Form) /\ tool[c] # <<>>
    BY <1>2 DEF ActionsInv, Typed
  <2> QED BY <1>1, <2>1
<1>4. /\ FreshPost(f) \in Posted /\ IsFiniteSet(posted') /\ Cardinality(posted') <= MaxForms
  BY <1>2, <1>3, Fresh
<1>5. /\ run' \in [Clients -> Run \cup {None}] /\ \A d \in Clients \ {c} : run'[d] = run[d]
      /\ run'[c].post = FreshPost(f) /\ Working(c)'
  BY <1>2, <1>4, Begun
<1>6. Posting'
  BY <1>2, <1>4, <1>5 DEF ActionsInv, Posting, Used, Busy
<1>7. posted' \subseteq Posted /\ opened' \subseteq firsts
  BY <1>2, <1>4 DEF ActionsInv, Typed, TypeOK, SentOn
<1> QED BY <1>2, <1>5, <1>6, <1>7, RequestStep DEF ActionsInv, Typed

LEMMA StartToolKeeps == ASSUME ActionsInv, NEW c \in Clients, StartTool(c) PROVE ActionsInv'
<1>1. PICK plan \in Plans : tool' = [tool EXCEPT ![c] = plan]
  BY DEF StartTool
<1>2. /\ UNCHANGED <<served, rows, idem, spaces, follows, firsts, posted, run, log, opened>>
      /\ posted \subseteq Posted /\ opened \subseteq firsts
      /\ plan \in Seq(Form) \ {<<>>}
  BY DEF StartTool, db, seen, ActionsInv, Typed, TypeOK, SentOn, ConstantsTyped
<1>3. Posting'
  BY <1>2 DEF ActionsInv, Posting, Used, Busy
<1>4. Working(c)'
  BY <1>2, OthersWork
<1>5. /\ DOMAIN tool' = Clients
      /\ \A d \in Clients : tool'[d] # None => tool'[d] \in Seq(Form) \ {<<>>}
  BY <1>1, <1>2 DEF ActionsInv, Typed
<1>6. run' \in [Clients -> Run \cup {None}]
  BY <1>2 DEF ActionsInv, Typed, TypeOK
<1> QED BY <1>2, <1>3, <1>4, <1>5, <1>6, RequestStep

(* A request that ends.                                                    *)
LEMMA Finished ==
    ASSUME ActionsInv, NEW c \in Clients, Finish(c)
    PROVE  /\ run' \in [Clients -> Run \cup {None}]
           /\ \A d \in Clients \ {c} : run'[d] = run[d]
           /\ run'[c] = None /\ Working(c)'
<1>1. run'[c] = None /\ run' \in [Clients -> Run \cup {None}]
      /\ \A d \in Clients \ {c} : run'[d] = run[d]
  BY DEF Finish, ActionsInv, Typed, TypeOK
<1> QED BY <1>1 DEF Working, At, Busy

LEMMA LoseKeeps == ASSUME ActionsInv, NEW c \in Clients, Lose(c) PROVE ActionsInv'
<1>1. /\ Finish(c) /\ tool' = [tool EXCEPT ![c] = None]
      /\ UNCHANGED <<served, rows, idem, spaces, follows, firsts, posted, log, opened>>
  BY DEF Lose, db, seen
<1>2. /\ posted \subseteq Posted /\ opened \subseteq firsts /\ DOMAIN tool' = Clients
      /\ \A d \in Clients : tool'[d] # None => tool'[d] \in Seq(Form) \ {<<>>}
  BY <1>1 DEF ActionsInv, Typed, TypeOK, SentOn
<1>3. Posting'
  BY <1>1, Finished DEF ActionsInv, Posting, Used, Busy
<1> QED BY <1>1, <1>2, <1>3, Finished, RequestStep

LEMMA ReplyToPersonKeeps ==
    ASSUME ActionsInv, NEW c \in Clients, ReplyToPerson(c) PROVE ActionsInv'
<1>1. /\ Finish(c) /\ At(c, "reply")
      /\ opened' = IF FormOf(c).kind = "open" /\ ~run[c].refused
                   THEN opened \cup {Thread(c)} ELSE opened
      /\ UNCHANGED <<served, rows, idem, spaces, follows, firsts, posted, tool, log>>
  BY DEF ReplyToPerson, db
<1>2. opened' \subseteq firsts /\ posted' \subseteq Posted
  BY <1>1 DEF ActionsInv, Typed, TypeOK, SentOn, Working
<1>3. Posting'
  BY <1>1, Finished DEF ActionsInv, Posting, Used, Busy
<1> QED BY <1>1, <1>2, <1>3, Finished, RequestStep DEF ActionsInv, Typed

(* Of several ids one is the last.                                         *)
LEMMA LastOne ==
    ASSUME Typed, NEW T \in SUBSET Ids, T # {}
    PROVE  Latest(T) \in T
<1> DEFINE N == Len(Before) + MaxForms
           S == {N - i : i \in T}
           R == OpToRel(<, Nat)
<1>1. N \in Nat /\ Ids = 1 .. N
  BY Numbers
<1>2. S \subseteq Nat /\ S # {}
  <2>1. PICK j : j \in T
    OBVIOUS
  <2>2. N - j \in S
    BY <2>1
  <2>3. S \subseteq Nat
    <3> HIDE DEF N
    <3> QED BY <1>1
  <2> QED BY <2>2, <2>3
<1>3. IsWellFoundedOn(R, Nat)
  BY NatLessThanWellFounded
<1>4. \E x \in S : \A y \in S : ~(<<y, x>> \in R)
  <2> HIDE DEF S, R
  <2> QED BY <1>2, <1>3, WFMin
<1>5. PICK x \in S : \A y \in S : ~(y < x)
  BY <1>2, <1>4 DEF OpToRel
<1>6. PICK i \in T : x = N - i
  BY <1>5
<1>7. ASSUME NEW j \in T PROVE j <= i
  <2>1. N - j \in S
    OBVIOUS
  <2>2. ~(N - j < N - i)
    BY <1>5, <1>6, <2>1
  <2> HIDE DEF N
  <2> QED BY <1>1, <2>2
<1> QED BY <1>6, <1>7 DEF Latest

LEMMA OnwardForms ==
    ASSUME Typed, NEW c \in Clients, Busy(c), tool[c] # None, Onward(c) # None
    PROVE  Onward(c) \in Seq(Form) \ {<<>>}
<1> DEFINE rest == Tail(tool[c])
<1>1. rest \in Seq(Form) /\ rest # <<>>
  <2>1. tool[c] \in Seq(Form) /\ tool[c] # <<>>
    BY DEF Typed
  <2>2. rest # <<>>
    BY DEF Onward
  <2> QED BY <2>1, <2>2, HeadTailProperties
<1>2. CASE FormOf(c).kind = "approach"
  <2> DEFINE T == Titled(FormOf(c).value)
  <2>1. T # {} /\ T \in SUBSET Ids
    BY <1>2 DEF Onward, Titled
  <2>2. Latest(T) \in Ids
    <3> HIDE DEF T
    <3> QED BY <2>1, LastOne
  <2>3. Onward(c) = [rest EXCEPT ![1].target = Latest(T)]
    BY <1>1, <1>2, <2>1 DEF Onward
  <2>4. PICK f \in Form : f = [rest[1] EXCEPT !.target = Latest(T)]
    <3> HIDE DEF rest, T
    <3>1. rest[1] \in Form
      BY <1>1
    <3> QED BY <2>2, <3>1 DEF Form
  <2> HIDE DEF rest, T
  <2>5. Onward(c) = [rest EXCEPT ![1] = f]
    BY <2>3, <2>4
  <2>6. 1 \in 1 .. Len(rest) /\ Len(rest) \in Nat \ {0}
    BY <1>1, LenProperties, EmptySeq
  <2>7. Onward(c) \in Seq(Form) /\ Len(Onward(c)) = Len(rest)
    BY <1>1, <2>4, <2>5, <2>6, ExceptSeq
  <2> QED BY <2>6, <2>7
<1>3. CASE FormOf(c).kind # "approach"
  BY <1>1, <1>3 DEF Onward
<1> QED BY <1>2, <1>3

LEMMA ToolHearsKeeps == ASSUME ActionsInv, NEW c \in Clients, ToolHears(c) PROVE ActionsInv'
<1>1. /\ Finish(c) /\ Busy(c) /\ tool[c] # None
      /\ tool' = [tool EXCEPT ![c] = IF Rejects(c) THEN None ELSE Onward(c)]
      /\ UNCHANGED <<served, rows, idem, spaces, follows, firsts, posted, log, opened>>
  BY DEF ToolHears, db, At
<1>2. /\ DOMAIN tool' = Clients
      /\ \A d \in Clients : tool'[d] # None => tool'[d] \in Seq(Form) \ {<<>>}
  BY <1>1, OnwardForms DEF ActionsInv, Typed
<1>3. posted \subseteq Posted /\ opened \subseteq firsts
  BY DEF ActionsInv, Typed, TypeOK, SentOn
<1>4. Posting'
  BY <1>1, Finished DEF ActionsInv, Posting, Used, Busy
<1> QED BY <1>1, <1>2, <1>3, <1>4, Finished, RequestStep

(* A request that goes on to another stage, and may have read an anchor.   *)
LEMMA Advanced ==
    ASSUME ActionsInv, NEW c \in Clients, Busy(c),
           NEW r \in Run, run' = [run EXCEPT ![c] = r], r.post = run[c].post
    PROVE  /\ run' \in [Clients -> Run \cup {None}]
           /\ \A d \in Clients \ {c} : run'[d] = run[d]
           /\ run'[c] = r
           /\ FormOf(c)' = FormOf(c)
           /\ UNCHANGED <<posted, idem>> => Posting'
<1>1. run' \in [Clients -> Run \cup {None}] /\ run'[c] = r
      /\ \A d \in Clients \ {c} : run'[d] = run[d]
  BY DEF ActionsInv, Typed, TypeOK
<1>2. ASSUME UNCHANGED <<posted, idem>> PROVE Posting'
  BY <1>1, <1>2 DEF ActionsInv, Posting, Used, Busy
<1> QED BY <1>1, <1>2 DEF FormOf

(* A request that goes on, while nothing else changes.                     *)
LEMMA RequestAdvances ==
    ASSUME ActionsInv, NEW c \in Clients, Busy(c),
           NEW r \in Run, run' = [run EXCEPT ![c] = r], r.post = run[c].post,
           UNCHANGED <<served, rows, idem, spaces, follows, firsts, posted, tool, log, opened>>,
           Working(c)'
    PROVE  ActionsInv'
<1>1. posted \subseteq Posted /\ opened \subseteq firsts
  BY DEF ActionsInv, Typed, TypeOK, SentOn
<1> QED BY <1>1, Advanced, RequestStep DEF ActionsInv, Typed

LEMMA ReadStateKeeps == ASSUME ActionsInv, NEW c \in Clients, ReadState(c) PROVE ActionsInv'
<1>1. PICK a \in served :
        IF Agrees(FormOf(c), a)
        THEN run' = [run EXCEPT
                       ![c].anchor = a,
                       ![c].stage = IF FormOf(c).kind = "open" THEN "list"
                                    ELSE IF FormOf(c).kind \in Checked THEN "check"
                                    ELSE "command"]
        ELSE Done(c, TRUE)
  BY DEF ReadState
<1>2. /\ Busy(c) /\ Typed /\ a \in Anchors /\ run[c] \in Run
      /\ run \in [Clients -> Run \cup {None}]
      /\ UNCHANGED <<served, rows, idem, spaces, follows, firsts, posted, tool, log, opened>>
  BY <1>1, RequestFields DEF ReadState, At, db, seen, ActionsInv, Typed, TypeOK
<1>3. CASE Agrees(FormOf(c), a)
  <2> DEFINE stage == IF FormOf(c).kind = "open" THEN "list"
                      ELSE IF FormOf(c).kind \in Checked THEN "check" ELSE "command"
             r == [run[c] EXCEPT !.anchor = a, !.stage = stage]
  <2>1. stage \in {"list", "check", "command"}
    OBVIOUS
  <2>2. /\ r \in Run /\ r.post = run[c].post /\ r.anchor = a /\ r.stage = stage
    <3> HIDE DEF stage
    <3> QED BY <1>2, <2>1 DEF Run
  <2>3. run' = [run EXCEPT ![c] = r]
    BY <1>1, <1>2, <1>3
  <2>4. /\ run'[c] = r /\ FormOf(c)' = FormOf(c)
    <3> HIDE DEF r
    <3> QED BY <1>2, <2>2, <2>3, Advanced
  <2>5. Working(c)'
    <3>1. \A place : At(c, place)' => place = stage
      BY <2>2, <2>4 DEF At
    <3>2. run'[c].anchor = a
      BY <2>2, <2>4
    <3> HIDE DEF r
    <3> QED BY <1>2, <1>3, <2>4, <3>1, <3>2 DEF Working, Agrees, Found
  <2> HIDE DEF r
  <2> QED BY <1>2, <2>2, <2>3, <2>5, RequestAdvances
<1>4. CASE ~Agrees(FormOf(c), a)
  <2> DEFINE r == [run[c] EXCEPT !.stage = "reply", !.refused = TRUE]
  <2>1. /\ r \in Run /\ r.post = run[c].post /\ r.stage = "reply" /\ r.refused = TRUE
    BY <1>2 DEF Run
  <2>2. run' = [run EXCEPT ![c] = r]
    BY <1>1, <1>2, <1>4 DEF Done
  <2> HIDE DEF r
  <2>3. run'[c] = r
    BY <1>2, <2>1, <2>2, Advanced
  <2>4. Working(c)'
    BY <2>1, <2>3 DEF Working, At
  <2> QED BY <1>2, <2>1, <2>2, <2>4, RequestAdvances
<1> QED BY <1>3, <1>4

(* The end of a request, refused or not.                                   *)
LEMMA Answered ==
    ASSUME ActionsInv, NEW c \in Clients, Busy(c), NEW refused \in BOOLEAN, Done(c, refused)
    PROVE  /\ run' \in [Clients -> Run \cup {None}]
           /\ \A d \in Clients \ {c} : run'[d] = run[d]
           /\ \A place : At(c, place)' => place = "reply"
           /\ run'[c].refused = refused /\ run'[c].anchor = run[c].anchor
           /\ FormOf(c)' = FormOf(c)
           /\ UNCHANGED <<posted, idem>> => Posting'
           /\ run'[c].post = run[c].post
<1> DEFINE r == [run[c] EXCEPT !.stage = "reply", !.refused = refused]
<1>1. run[c] \in Run /\ run \in [Clients -> Run \cup {None}]
  BY RequestFields DEF ActionsInv, Typed, TypeOK
<1>2. /\ r \in Run /\ r.post = run[c].post /\ r.stage = "reply" /\ r.refused = refused
      /\ r.anchor = run[c].anchor
  BY <1>1 DEF Run
<1>3. run' = [run EXCEPT ![c] = r]
  BY <1>1 DEF Done
<1> HIDE DEF r
<1> QED BY <1>2, <1>3, Advanced DEF At

LEMMA Refused ==
    ASSUME ActionsInv, NEW c \in Clients, Busy(c), NEW refused \in BOOLEAN, Done(c, refused),
           refused = TRUE \/ FormOf(c).kind # "open",
           UNCHANGED <<served, rows, idem, spaces, follows, firsts, posted, tool, log, opened>>
    PROVE  ActionsInv'
<1>1. Working(c)'
  BY Answered DEF Working
<1>2. posted \subseteq Posted /\ opened \subseteq firsts
  BY DEF ActionsInv, Typed, TypeOK, SentOn
<1> QED BY <1>1, <1>2, Answered, RequestStep DEF ActionsInv, Typed

LEMMA CheckActivityKeeps ==
    ASSUME ActionsInv, NEW c \in Clients, CheckActivity(c) PROVE ActionsInv'
<1>1. /\ Busy(c) /\ At(c, "check") /\ Typed /\ Working(c) /\ run[c] \in Run
      /\ run \in [Clients -> Run \cup {None}]
      /\ UNCHANGED <<served, rows, idem, spaces, follows, firsts, posted, tool, log, opened>>
  BY RequestFields DEF CheckActivity, At, db, seen, ActionsInv, Typed, TypeOK
<1>2. CASE Current(FormOf(c), run[c].anchor)
  <2> DEFINE r == [run[c] EXCEPT !.stage = "command"]
  <2>1. /\ r \in Run /\ r.post = run[c].post /\ r.anchor = run[c].anchor
        /\ r.stage = "command"
    BY <1>1 DEF Run
  <2>2. run' = [run EXCEPT ![c] = r]
    BY <1>1, <1>2 DEF CheckActivity, Goto
  <2> HIDE DEF r
  <2>3. run'[c] = r /\ FormOf(c)' = FormOf(c)
    BY <1>1, <2>1, <2>2, Advanced
  <2>4. Found(c)'
    BY <1>1, <1>2, <2>1, <2>3 DEF Found, Current, Present
  <2>5. Working(c)'
    <3>1. \A place : At(c, place)' => place = "command"
      BY <2>1, <2>3 DEF At
    <3> QED BY <1>1, <2>1, <2>3, <2>4, <3>1 DEF Working
  <2> QED BY <1>1, <2>1, <2>2, <2>5, RequestAdvances
<1>3. CASE ~Current(FormOf(c), run[c].anchor)
  BY <1>1, <1>3, Refused DEF CheckActivity
<1> QED BY <1>2, <1>3

(* A request to open a workspace goes on to its next command.              *)
LEMMA OpeningGoesOn ==
    ASSUME ActionsInv, NEW c \in Clients, At(c, "list") \/ At(c, "create"),
           NEW stage \in {"create", "first"}, Goto(c, stage)
    PROVE  /\ run' \in [Clients -> Run \cup {None}]
           /\ \A d \in Clients \ {c} : run'[d] = run[d]
           /\ Working(c)' /\ run'[c].post = run[c].post
           /\ UNCHANGED <<posted, idem>> => Posting'
<1> DEFINE r == [run[c] EXCEPT !.stage = stage]
<1>1. /\ run[c] \in Run /\ run \in [Clients -> Run \cup {None}] /\ Working(c) /\ Busy(c)
  BY RequestFields DEF ActionsInv, Typed, TypeOK, At
<1>2. /\ r \in Run /\ r.post = run[c].post /\ r.stage = stage /\ r.anchor = run[c].anchor
  BY <1>1 DEF Run
<1>3. run' = [run EXCEPT ![c] = r]
  BY <1>1 DEF Goto
<1> HIDE DEF r
<1>4. run'[c] = r /\ FormOf(c)' = FormOf(c)
  BY <1>1, <1>2, <1>3, Advanced
<1>5. \A place : At(c, place)' => place = stage
  BY <1>2, <1>4 DEF At
<1>6. Working(c)'
  BY <1>1, <1>2, <1>4, <1>5 DEF Working
<1> QED BY <1>1, <1>2, <1>3, <1>4, <1>6, Advanced

LEMMA ListWorkspacesKeeps ==
    ASSUME ActionsInv, NEW c \in Clients, ListWorkspaces(c) PROVE ActionsInv'
<1>1. /\ At(c, "list") /\ Busy(c)
      /\ UNCHANGED <<served, rows, idem, spaces, follows, firsts, posted, tool, log, opened>>
  BY DEF ListWorkspaces, At, db, seen
<1>2. CASE Done(c, TRUE)
  BY <1>1, <1>2, Refused
<1>3. CASE Goto(c, AfterListing(c))
  <2>1. PICK stage \in {"create", "first"} : stage = AfterListing(c)
    BY DEF AfterListing
  <2>2. posted \subseteq Posted /\ opened \subseteq firsts
    BY DEF ActionsInv, Typed, TypeOK, SentOn
  <2> QED BY <1>1, <1>3, <2>1, <2>2, OpeningGoesOn, RequestStep DEF ActionsInv, Typed
<1> QED BY <1>2, <1>3 DEF ListWorkspaces

-----------------------------------------------------------------------------
(* The keys used are no more than the forms posted, so while a request has *)
(* a key that is not used there is room for one more row.                  *)
LEMMA RoomForKey ==
    ASSUME ActionsInv, NEW c \in Clients, Busy(c), ~Prior(c)
    PROVE  /\ KeyOf(c) \in (Members \X Keys) \ Used
           /\ IsFiniteSet(Used) /\ Cardinality(Used) \in Nat
           /\ Cardinality(Used) + 1 <= MaxForms
<1> DEFINE keyOf == [p \in posted |-> <<p.form.by, p.key>>]
           known == {<<p.form.by, p.key>> : p \in posted}
<1>1. KeyOf(c) \in (Members \X Keys) \ Used
  BY RequestFields DEF ActionsInv, Prior, Used
<1>2. Used \subseteq known /\ KeyOf(c) \in known
  BY DEF ActionsInv, Posting, KeyOf, FormOf
<1>3. keyOf \in Surjection(posted, known)
  BY DEF Surjection
<1>4. /\ IsFiniteSet(posted) /\ Cardinality(posted) <= MaxForms
      /\ MaxForms \in Nat /\ Cardinality(posted) \in Nat
  BY Numbers, FS_CardinalityType DEF ActionsInv, Posting
<1>5. IsFiniteSet(known) /\ Cardinality(known) <= Cardinality(posted)
  <2> HIDE DEF keyOf, known
  <2> QED BY <1>3, <1>4, FS_Surjection
<1>6. /\ IsFiniteSet(Used \cup {KeyOf(c)})
      /\ Cardinality(Used \cup {KeyOf(c)}) <= Cardinality(known)
      /\ IsFiniteSet(Used)
  <2> HIDE DEF keyOf, known
  <2>1. Used \cup {KeyOf(c)} \in SUBSET known /\ Used \in SUBSET known
    BY <1>2
  <2> QED BY <1>5, <2>1, FS_Subset
<1>7. Cardinality(Used \cup {KeyOf(c)}) = Cardinality(Used) + 1 /\ Cardinality(Used) \in Nat
  BY <1>1, <1>6, FS_AddElement, FS_CardinalityType
<1> HIDE DEF known, keyOf
<1>8. Cardinality(known) \in Nat
  BY <1>5, FS_CardinalityType
<1> QED BY <1>1, <1>4, <1>5, <1>6, <1>7, <1>8

(* What a key that was not used is recorded with.                          *)
LEMMA KeyTaken ==
    ASSUME ActionsInv, NEW c \in Clients, Busy(c), ~Prior(c), NEW id \in Ids \cup {0},
           idem' = [idem EXCEPT ![KeyOf(c)] = [root |-> Root(c), id |-> id]],
           posted' = posted, \A d \in Clients : Busy(d)' => run'[d].post \in posted
    PROVE  /\ Posting' /\ KeyOf(c) \notin Used /\ Used' = Used \cup {KeyOf(c)}
           /\ Cardinality(Used) \in Nat /\ Cardinality(Used') = Cardinality(Used) + 1
           /\ Cardinality(Used') <= MaxForms
           /\ DOMAIN idem' = Members \X Keys
           /\ \A k \in Members \X Keys : (idem[k] # None)' => (idem[k].id)' \in Ids \cup {0}
<1> DEFINE rec == [root |-> Root(c), id |-> id]
<1>1. rec \in Record
  <2>1. Root(c) \in [form : Form, anchor : Anchors \cup {0}, stamp : {1, 2}]
    BY RequestFields DEF ActionsInv, Root
  <2> QED BY <2>1 DEF Record
<1>2. rec # None /\ rec.id = id
  BY <1>1 DEF ActionsInv, Typed, ConstantsTyped
<1>3. KeyOf(c) \in (Members \X Keys) \ Used /\ DOMAIN idem = Members \X Keys
  BY RoomForKey DEF ActionsInv, Typed
<1>4. /\ DOMAIN idem' = Members \X Keys /\ idem'[KeyOf(c)] = rec
      /\ \A k \in (Members \X Keys) \ {KeyOf(c)} : idem'[k] = idem[k]
  <2> HIDE DEF rec
  <2>1. idem' = [idem EXCEPT ![KeyOf(c)] = rec]
    BY DEF rec
  <2> QED BY <1>3, <2>1
<1>5. Used' = Used \cup {KeyOf(c)}
  <2> HIDE DEF rec
  <2> QED BY <1>2, <1>3, <1>4 DEF Used
<1>6. /\ Cardinality(Used) \in Nat /\ Cardinality(Used') = Cardinality(Used) + 1
      /\ Cardinality(Used') <= MaxForms
  BY <1>3, <1>5, RoomForKey, FS_AddElement
<1>7. \A k \in Members \X Keys : (idem[k] # None)' => (idem[k].id)' \in Ids \cup {0}
  <2> HIDE DEF rec
  <2> QED BY <1>2, <1>3, <1>4 DEF ActionsInv, Typed, TypeOK
<1>8. Posting'
  <2>1. <<run[c].post.form.by, run[c].post.key>> = KeyOf(c) /\ run[c].post \in posted
    BY DEF KeyOf, FormOf, ActionsInv, Posting
  <2> QED BY <1>5, <2>1 DEF ActionsInv, Posting
<1> QED BY <1>3, <1>4, <1>5, <1>6, <1>7, <1>8

(* A record of more keys than before leaves room for as many rows.         *)
LEMMA StillConsecutive ==
    ASSUME ActionsInv, rows' = rows, Cardinality(Used) \in Nat,
           Cardinality(Used') = Cardinality(Used) + 1
    PROVE  Consecutive'
<1>1. Filled' = Filled /\ Len(Before) \in Nat /\ IsFiniteSet(Ids)
  BY Numbers, FS_Interval DEF Filled, ActionsInv
<1>2. Cardinality(Filled) \in Nat
  <2>1. Filled \in SUBSET Ids
    BY DEF Filled
  <2> QED BY <1>1, <2>1, FS_Subset, FS_CardinalityType
<1> QED BY <1>1, <1>2 DEF ActionsInv, Consecutive

LEMMA CreateWorkspaceKeeps ==
    ASSUME ActionsInv, NEW c \in Clients, CreateWorkspace(c) PROVE ActionsInv'
<1>1. /\ At(c, "create") /\ Busy(c)
      /\ UNCHANGED <<served, rows, follows, firsts, posted, tool, log, opened>>
  BY DEF CreateWorkspace, At, seen
<1>2. posted \subseteq Posted /\ opened \subseteq firsts
  BY DEF ActionsInv, Typed, TypeOK, SentOn
<1>3. CASE Done(c, TRUE) /\ UNCHANGED <<spaces, idem>>
  BY <1>1, <1>3, Refused
<1>4. CASE Goto(c, "first") /\ UNCHANGED <<spaces, idem>>
  BY <1>1, <1>2, <1>4, OpeningGoesOn, RequestStep DEF ActionsInv, Typed
<1>5. CASE /\ ~Prior(c) /\ Goto(c, "first")
           /\ spaces' = [spaces EXCEPT ![FormOf(c).slug] =
                           [by |-> FormOf(c).by, name |-> FormOf(c).value]]
           /\ idem' = [idem EXCEPT ![KeyOf(c)] = [root |-> Root(c), id |-> 0]]
  <2>1. /\ run' \in [Clients -> Run \cup {None}]
        /\ \A d \in Clients \ {c} : run'[d] = run[d]
        /\ Working(c)' /\ run'[c].post = run[c].post
    BY <1>1, <1>5, OpeningGoesOn
  <2>2. \A d \in Clients : Busy(d)' => run'[d].post \in posted
    BY <1>1, <2>1 DEF ActionsInv, Posting, Busy
  <2>3. /\ Posting' /\ Used \subseteq Used' /\ DOMAIN idem' = Members \X Keys
        /\ Cardinality(Used) \in Nat /\ Cardinality(Used') = Cardinality(Used) + 1
        /\ \A k \in Members \X Keys : (idem[k] # None)' => (idem[k].id)' \in Ids \cup {0}
    BY <1>1, <1>5, <2>2, KeyTaken
  <2>4. /\ DOMAIN spaces' = Slugs
        /\ \A s \in Slugs : spaces'[s] # None => spaces'[s] \in [by : Members, name : Values]
    BY <1>1, <1>5, RequestFields DEF ActionsInv, Typed, TypeOK
  <2>5. Typed' /\ Serving'
    BY <1>1, <2>1, <2>3, <2>4 DEF ActionsInv, Typed, TypeOK, Serving
  <2>6. Consecutive'
    BY <1>1, <2>3, StillConsecutive
  <2>7. ASSUME NEW d \in Clients PROVE Working(d)'
    BY <1>1, <2>1, OthersWork
  <2>8. Recorded' /\ LandsOnPageAnchor' /\ OneSubmitOneChange' /\ SentOn'
    BY <1>1, <2>3 DEF ActionsInv, Recorded, LandsOnPageAnchor, OneSubmitOneChange,
                      SentOn
  <2>9. DraftsCiteTheirAnchor'
    BY <1>1 DEF ActionsInv, DraftsCiteTheirAnchor, Present
  <2> QED BY <2>3, <2>5, <2>6, <2>7, <2>8, <2>9 DEF ActionsInv
<1> QED BY <1>3, <1>4, <1>5 DEF CreateWorkspace

LEMMA FirstFollowKeeps ==
    ASSUME ActionsInv, NEW c \in Clients, FirstFollow(c) PROVE ActionsInv'
<1>1. /\ At(c, "first") /\ Busy(c) /\ Done(c, FALSE)
      /\ UNCHANGED <<served, rows, idem, spaces, posted, tool, log, opened, reported>>
      /\ firsts' = firsts \cup {Thread(c)} /\ follows' \subseteq follows \cup {Thread(c)}
  BY DEF FirstFollow, At, seen
<1>2. Thread(c) \in Members \X Slugs \X Anchors
  BY <1>1, RequestFields DEF ActionsInv, Working, Thread
<1>3. /\ run' \in [Clients -> Run \cup {None}] /\ Posting'
      /\ \A d \in Clients \ {c} : run'[d] = run[d]
  BY <1>1, Answered
<1>4. Working(c)'
  <2>1. Thread(c)' = Thread(c)
    BY <1>1, Answered DEF Thread
  <2> QED BY <1>1, <2>1, Answered DEF Working
<1>5. ASSUME NEW d \in Clients PROVE Working(d)'
  BY <1>1, <1>3, <1>4, OthersWork
<1>6. Typed' /\ Serving' /\ Consecutive'
  BY <1>1, <1>2, <1>3 DEF ActionsInv, Typed, TypeOK, Serving, Consecutive, Filled, Used
<1>7. /\ Recorded' /\ LandsOnPageAnchor' /\ OneSubmitOneChange' /\ SentOn'
      /\ DraftsCiteTheirAnchor'
  BY <1>1 DEF ActionsInv, Recorded, LandsOnPageAnchor, OneSubmitOneChange, SentOn,
              DraftsCiteTheirAnchor, Present, Used
<1> QED BY <1>3, <1>5, <1>6, <1>7 DEF ActionsInv

LEMMA ReleaseKeeps == ASSUME ActionsInv, Release PROVE ActionsInv'
<1> DEFINE n == Cardinality(served)
<1>1. /\ n < Cardinality(Anchors) /\ served' = served \cup {n + 1}
      /\ UNCHANGED <<rows, idem, spaces, follows, firsts, posted, run, tool, log, opened>>
  BY DEF Release, db, seen
<1>2. served = 1 .. n /\ n \in Nat /\ Cardinality(Anchors) \in Nat
  <2>1. IsFiniteSet(Anchors) /\ served \in SUBSET Anchors /\ served = 1 .. n
    BY DEF ActionsInv, Typed, TypeOK, ConstantsTyped, Serving
  <2> QED BY <2>1, FS_Subset, FS_CardinalityType
<1>3. served' = 1 .. n + 1 /\ served' \subseteq Anchors
  <2>1. Anchors = 1 .. Cardinality(Anchors)
    BY DEF ActionsInv, Typed, ConstantsTyped
  <2> HIDE DEF n
  <2> QED BY <1>1, <1>2, <2>1
<1>4. Serving'
  <2>1. Cardinality(1 .. n + 1) = n + 1
    BY <1>2, FS_Interval
  <2> QED BY <1>3, <2>1 DEF Serving
<1>5. Typed' /\ Posting' /\ Consecutive'
  BY <1>1, <1>3 DEF ActionsInv, Typed, TypeOK, Posting, Consecutive, Filled, Used, Busy
<1>6. ASSUME NEW d \in Clients PROVE Working(d)'
  BY <1>1, OthersWork
<1>7. /\ Recorded' /\ LandsOnPageAnchor' /\ OneSubmitOneChange' /\ SentOn'
      /\ DraftsCiteTheirAnchor'
  BY <1>1 DEF ActionsInv, Recorded, LandsOnPageAnchor, OneSubmitOneChange, SentOn,
              DraftsCiteTheirAnchor, Present, Used
<1> QED BY <1>4, <1>5, <1>6, <1>7 DEF ActionsInv

-----------------------------------------------------------------------------
(* The row a command writes: a new one under the next id, or the attempt   *)
(* or draft that it changes; of the page's anchor in each case.            *)
LEMMA WrittenRow ==
    ASSUME ActionsInv, NEW c \in Clients, At(c, "command"), ~Prior(c), Accepted(c),
           FormOf(c).kind # "follow"
    PROVE  LET f == FormOf(c)
               id == Subject(f)
               row == Written(c, id)
           IN  /\ f.kind \in Kinds /\ id \in Ids
               /\ \/ /\ id = Cardinality(Filled) + 1 /\ rows[id] = None
                     /\ f.kind # "move"
                  \/ /\ rows[id] # None /\ f.kind = "move"
                     /\ rows[id].table = "attempt" /\ rows[id].anchor = f.expected
                  \/ rows[id] # None /\ f.kind = "draft" /\ rows[id].table = "draft"
               /\ AnchorWritten(c) = f.expected
               /\ row \in Row /\ row.table = Table(f.kind) /\ row.anchor = f.expected
               /\ f.kind # "move" => row.of = f.target
<1> DEFINE f == FormOf(c)
           id == Subject(f)
           row == Written(c, id)
<1>1. /\ Busy(c) /\ Typed /\ Working(c) /\ f.kind \in Kinds /\ f \in Form
      /\ f.target \in Ids \cup {0} /\ f.draft \in Ids \cup {0} /\ f.value \in Values
      /\ f.expected \in Anchors /\ run[c].anchor = f.expected
  <2>1. Busy(c) /\ Typed /\ Working(c)
    BY DEF At, ActionsInv
  <2>2. FormOf(c).kind # "open" /\ run[c].anchor = FormOf(c).expected
    BY <2>1 DEF Working
  <2> QED BY <2>1, <2>2, RequestFields
<1>2. f.kind \in Checked =>
        /\ f.target \in Ids /\ Present(f.target, About(f.kind))
        /\ rows[f.target].anchor = f.expected
  BY <1>1 DEF Working, Found, Present
<1>3. f.kind = "move" => /\ f.target \in Ids /\ rows[f.target] # None
                         /\ rows[f.target].table = "attempt"
                         /\ rows[f.target].anchor = f.expected
  BY <1>2 DEF Checked, Present, About
<1>4. f.kind = "draft" /\ f.draft # 0 =>
        f.draft \in Ids /\ rows[f.draft] # None /\ rows[f.draft].table = "draft"
  BY <1>1 DEF Accepted, Present
<1>5. /\ NextId = Cardinality(Filled) + 1 /\ NextId \in Ids /\ rows[NextId] = None
  <2>1. /\ Cardinality(Used) \in Nat /\ Cardinality(Used) + 1 <= MaxForms
        /\ Len(Before) \in Nat /\ MaxForms \in Nat /\ Ids = 1 .. Len(Before) + MaxForms
    BY <1>1, RoomForKey, Numbers
  <2>2. Cardinality(Filled) \in Nat
    <3>1. IsFiniteSet(Ids) /\ Filled \in SUBSET Ids
      BY <2>1, FS_Interval DEF Filled
    <3> QED BY <3>1, FS_Subset, FS_CardinalityType
  <2>3. Filled = 1 .. Cardinality(Filled) /\ Cardinality(Filled) <= Len(Before) + Cardinality(Used)
    BY DEF ActionsInv, Consecutive
  <2>4. NextId = Cardinality(Filled) + 1
    BY DEF NextId, Filled
  <2>5. NextId \in Ids /\ NextId \notin Filled
    BY <2>1, <2>2, <2>3, <2>4
  <2> QED BY <2>4, <2>5 DEF Filled
<1>6. /\ id \in Ids
      /\ \/ /\ id = Cardinality(Filled) + 1 /\ rows[id] = None /\ f.kind # "move"
            /\ id = NextId
         \/ /\ rows[id] # None /\ f.kind = "move" /\ rows[id].table = "attempt"
            /\ rows[id].anchor = f.expected /\ id = f.target
         \/ rows[id] # None /\ f.kind = "draft" /\ rows[id].table = "draft"
  BY <1>3, <1>4, <1>5 DEF Subject
<1>7. AnchorWritten(c) = f.expected
  BY <1>1, <1>2 DEF AnchorWritten, Checked
<1>8. Version(id) \in Nat \ {0}
  BY <1>1, <1>5, <1>6, RowFields DEF Version
<1>9. /\ row.table = Table(f.kind) /\ row.anchor = f.expected
      /\ f.kind # "move" => row.of = f.target
  BY <1>7 DEF Written
<1>10. row \in Row
  <2>1. Table(f.kind) \in {"approach", "attempt", "note", "canvas", "evidence", "draft"}
    BY <1>1 DEF Table, Kinds
  <2>2. (IF f.kind = "move" THEN rows[id].of ELSE f.target) \in Ids \cup {0}
    BY <1>1, <1>6, RowFields
  <2>3. row = [table |-> Table(f.kind), anchor |-> AnchorWritten(c),
               of |-> IF f.kind = "move" THEN rows[id].of ELSE f.target,
               value |-> IF f.kind = "attempt" THEN Planned ELSE f.value,
               version |-> Version(id)]
    BY DEF Written
  <2>4. (IF f.kind = "attempt" THEN Planned ELSE f.value) \in Values
    BY <1>1 DEF Typed, ConstantsTyped
  <2> HIDE DEF f, id, row
  <2> QED BY <1>1, <1>7, <1>8, <2>1, <2>2, <2>3, <2>4 DEF Row
<1> HIDE DEF f, id, row
<1> QED BY <1>1, <1>6, <1>7, <1>9, <1>10 DEF f, id, row

LEMMA ApplyKeeps ==
    ASSUME ActionsInv, NEW c \in Clients, Command(c), ~Prior(c), Accepted(c),
           FormOf(c).kind # "follow"
    PROVE  ActionsInv'
<1> DEFINE f == FormOf(c)
           entry == [by |-> f.by, key |-> run[c].post.key, id |-> Subject(f),
                     version |-> Version(Subject(f)), anchor |-> AnchorWritten(c),
                     expected |-> f.expected]
<1>0. PICK id, row : id = Subject(f) /\ row = Written(c, id)
  OBVIOUS
<1>1. /\ At(c, "command") /\ Busy(c) /\ Typed /\ Done(c, FALSE)
      /\ rows' = [rows EXCEPT ![id] = row]
      /\ idem' = [idem EXCEPT ![KeyOf(c)] = [root |-> Root(c), id |-> id]]
      /\ log' = log \cup {entry}
      /\ UNCHANGED <<served, spaces, follows, firsts, posted, tool, opened, reported>>
  BY <1>0 DEF Command, Apply, At, ActionsInv
<1>2. /\ f.kind \in Kinds /\ id \in Ids
      /\ \/ id = Cardinality(Filled) + 1 /\ rows[id] = None /\ f.kind # "move"
         \/ /\ rows[id] # None /\ f.kind = "move" /\ rows[id].table = "attempt"
            /\ rows[id].anchor = f.expected
         \/ rows[id] # None /\ f.kind = "draft" /\ rows[id].table = "draft"
      /\ AnchorWritten(c) = f.expected
      /\ row \in Row /\ row.table = Table(f.kind) /\ row.anchor = f.expected
      /\ f.kind # "move" => row.of = f.target
  BY <1>0, <1>1, WrittenRow
<1>3. /\ row # None /\ rows' \in [Ids -> Row \cup {None}] /\ rows'[id] = row
      /\ \A i \in Ids \ {id} : rows'[i] = rows[i]
  BY <1>1, <1>2 DEF Typed, TypeOK, ConstantsTyped
<1>4. /\ run' \in [Clients -> Run \cup {None}] /\ run'[c].post = run[c].post
      /\ \A d \in Clients \ {c} : run'[d] = run[d]
      /\ \A place : At(c, place)' => place = "reply"
      /\ FormOf(c)' = f
  BY <1>1, Answered
<1>5. \A d \in Clients : Busy(d)' => run'[d].post \in posted
  BY <1>1, <1>4 DEF ActionsInv, Posting, Busy
<1>6. /\ Posting' /\ KeyOf(c) \notin Used /\ Used' = Used \cup {KeyOf(c)}
      /\ DOMAIN idem' = Members \X Keys
      /\ Cardinality(Used) \in Nat /\ Cardinality(Used') = Cardinality(Used) + 1
      /\ \A k \in Members \X Keys : (idem[k] # None)' => (idem[k].id)' \in Ids \cup {0}
  BY <1>1, <1>2, <1>5, KeyTaken
<1>7. Typed' /\ Serving'
  BY <1>1, <1>3, <1>4, <1>6 DEF ActionsInv, Typed, TypeOK, Serving
<1>8. Consecutive'
  <2>1. /\ Len(Before) \in Nat /\ IsFiniteSet(Ids) /\ Filled \in SUBSET Ids
    BY <1>1, Numbers, FS_Interval DEF Filled
  <2>2. Cardinality(Filled) \in Nat
    BY <2>1, FS_Subset, FS_CardinalityType
  <2>3. /\ Filled = 1 .. Cardinality(Filled)
        /\ Cardinality(Filled) <= Len(Before) + Cardinality(Used)
    BY DEF ActionsInv, Consecutive
  <2>4. Filled' = Filled \cup {id}
    BY <1>2, <1>3 DEF Filled
  <2>5. CASE id \in Filled
    <3>1. Filled' = Filled
      BY <2>4, <2>5
    <3> QED BY <1>6, <2>1, <2>2, <2>3, <3>1 DEF Consecutive
  <2>6. CASE id \notin Filled
    <3>1. id = Cardinality(Filled) + 1
      BY <1>2, <2>6 DEF Filled
    <3>2. Filled' = 1 .. Cardinality(Filled) + 1
      BY <2>2, <2>3, <2>4, <3>1
    <3>3. Cardinality(Filled') = Cardinality(Filled) + 1
      <4>1. Cardinality(1 .. Cardinality(Filled) + 1) = Cardinality(Filled) + 1
        BY <2>2, FS_Interval
      <4> QED BY <3>2, <4>1
    <3> QED BY <1>6, <2>1, <2>2, <2>3, <3>2, <3>3 DEF Consecutive
  <2> QED BY <2>5, <2>6
<1>9. \A i \in Ids : rows[i] # None /\ rows[i].table # "draft" =>
        /\ rows'[i] # None
        /\ rows'[i].table = rows[i].table /\ rows'[i].anchor = rows[i].anchor
  <2>1. f.kind = "move" => Table(f.kind) = "attempt"
    BY DEF Table
  <2> QED BY <1>2, <1>3, <2>1
<1>10. ASSUME NEW d \in Clients PROVE Working(d)'
  <2>1. CASE d = c
    <3>1. f.kind # "open"
      BY <1>2 DEF Kinds
    <3> QED BY <1>4, <2>1, <3>1 DEF Working
  <2>2. CASE d # c
    BY <1>1, <1>4, <1>9, <2>2, OthersWork
  <2> QED BY <2>1, <2>2
<1>11. entry.anchor = entry.expected /\ <<entry.by, entry.key>> = KeyOf(c)
  BY <1>2 DEF KeyOf
<1> HIDE DEF entry
<1>12. Recorded' /\ LandsOnPageAnchor' /\ OneSubmitOneChange' /\ SentOn'
  <2>1. Recorded' /\ LandsOnPageAnchor' /\ SentOn'
    BY <1>1, <1>6, <1>11 DEF ActionsInv, Recorded, LandsOnPageAnchor, SentOn
  <2>2. \A e \in log : <<e.by, e.key>> # <<entry.by, entry.key>>
    BY <1>6, <1>11 DEF ActionsInv, Recorded
  <2>3. OneSubmitOneChange'
    BY <1>1, <2>2 DEF ActionsInv, OneSubmitOneChange
  <2> QED BY <2>1, <2>3
<1>13. DraftsCiteTheirAnchor'
  <2>1. SUFFICES ASSUME NEW i \in Ids, rows'[i] # None, rows'[i].table = "draft"
                 PROVE  /\ rows'[i].of \in Ids /\ rows'[rows'[i].of] # None
                        /\ rows'[rows'[i].of].table = "evidence"
                        /\ rows'[rows'[i].of].anchor = rows'[i].anchor
    BY <1>1, Numbers DEF DraftsCiteTheirAnchor, Present, Ids
  <2>2. PICK e \in Ids :
          /\ e = rows'[i].of /\ rows[e] # None
          /\ rows[e].table = "evidence" /\ rows[e].anchor = rows'[i].anchor
    <3>1. CASE i = id
      <4>1. f.kind = "draft"
        BY <1>2, <1>3, <2>1, <3>1 DEF Table, Kinds
      <4>2. /\ f.target \in Ids /\ rows[f.target] # None
            /\ rows[f.target].table = "evidence" /\ rows[f.target].anchor = f.expected
        <5>1. Found(c) /\ run[c].anchor = f.expected /\ f.target \in Ids \cup {0}
          BY <1>1, RequestFields DEF ActionsInv, Working
        <5> QED BY <4>1, <5>1 DEF Found, Checked, Present, About
      <4> QED BY <1>2, <1>3, <3>1, <4>1, <4>2
    <3>2. CASE i # id
      <4>1. rows[i] # None /\ rows[i].table = "draft" /\ rows'[i] = rows[i] /\ i # 0
        BY <1>1, <1>3, <2>1, <3>2, Numbers
      <4>2. Present(rows[i].of, "evidence") /\ rows[rows[i].of].anchor = rows[i].anchor
        BY <4>1 DEF ActionsInv, DraftsCiteTheirAnchor, Present
      <4>3. rows[i].of \in Ids
        BY <1>1, <4>1, <4>2, RowFields DEF Present
      <4> QED BY <4>1, <4>2, <4>3 DEF Present
    <3> QED BY <3>1, <3>2
  <2> QED BY <1>9, <2>2
<1> QED BY <1>6, <1>7, <1>8, <1>10, <1>12, <1>13 DEF ActionsInv

LEMMA FollowKeeps ==
    ASSUME ActionsInv, NEW c \in Clients, Command(c), ~Prior(c), Accepted(c),
           FormOf(c).kind = "follow"
    PROVE  ActionsInv'
<1>1. /\ At(c, "command") /\ Busy(c) /\ Typed /\ Done(c, FALSE)
      /\ follows' \subseteq follows \cup {Thread(c)}
      /\ idem' = [idem EXCEPT ![KeyOf(c)] = [root |-> Root(c), id |-> 0]]
      /\ UNCHANGED <<served, rows, spaces, firsts, posted, tool, log, opened, reported>>
  BY DEF Command, SetFollow, At, ActionsInv
<1>2. Thread(c) \in Members \X Slugs \X Anchors
  BY <1>1, RequestFields DEF ActionsInv, Working, Thread
<1>3. /\ run' \in [Clients -> Run \cup {None}] /\ run'[c].post = run[c].post
      /\ \A d \in Clients \ {c} : run'[d] = run[d]
      /\ \A place : At(c, place)' => place = "reply"
      /\ FormOf(c)' = FormOf(c)
  BY <1>1, Answered
<1>4. \A d \in Clients : Busy(d)' => run'[d].post \in posted
  BY <1>1, <1>3 DEF ActionsInv, Posting, Busy
<1>5. /\ Posting' /\ Used \subseteq Used' /\ DOMAIN idem' = Members \X Keys
      /\ Cardinality(Used) \in Nat /\ Cardinality(Used') = Cardinality(Used) + 1
      /\ \A k \in Members \X Keys : (idem[k] # None)' => (idem[k].id)' \in Ids \cup {0}
  BY <1>1, <1>4, KeyTaken
<1>6. Typed' /\ Serving'
  BY <1>1, <1>2, <1>3, <1>5 DEF ActionsInv, Typed, TypeOK, Serving
<1>7. Consecutive'
  BY <1>1, <1>5, StillConsecutive
<1>8. ASSUME NEW d \in Clients PROVE Working(d)'
  <2>1. CASE d = c
    BY <1>3, <2>1 DEF Working
  <2>2. CASE d # c
    BY <1>1, <1>3, <2>2, OthersWork
  <2> QED BY <2>1, <2>2
<1>9. Recorded' /\ LandsOnPageAnchor' /\ OneSubmitOneChange' /\ SentOn'
  BY <1>1, <1>5 DEF ActionsInv, Recorded, LandsOnPageAnchor, OneSubmitOneChange,
                    SentOn
<1>10. DraftsCiteTheirAnchor'
  BY <1>1 DEF ActionsInv, DraftsCiteTheirAnchor, Present
<1> QED BY <1>5, <1>6, <1>7, <1>8, <1>9, <1>10 DEF ActionsInv

LEMMA CommandKeeps == ASSUME ActionsInv, NEW c \in Clients, Command(c) PROVE ActionsInv'
<1>1. CASE Prior(c) \/ ~Accepted(c)
  <2>1. /\ Busy(c) /\ FormOf(c).kind # "open"
        /\ UNCHANGED <<served, rows, idem, spaces, follows, firsts, posted, tool, log, opened>>
    BY <1>1 DEF Command, At, ActionsInv, Working
  <2>2. PICK refused \in BOOLEAN : Done(c, refused)
    BY <1>1 DEF Command
  <2> QED BY <2>1, <2>2, Refused
<1> QED BY <1>1, ApplyKeeps, FollowKeeps

-----------------------------------------------------------------------------
LEMMA ActionsInit == ASSUME ConstantsTyped, Init PROVE ActionsInv
<1>1. /\ Len(Before) \in Nat /\ MaxForms \in Nat /\ Ids = 1 .. Len(Before) + MaxForms
      /\ \A i \in 1 .. Len(Before) : Before[i] \in Row /\ Before[i] # None
  <2>1. Before \in Seq(Row) /\ MaxForms \in Nat /\ None \notin Row
    BY DEF ConstantsTyped, BeforeTyped
  <2> QED BY <2>1, LenProperties, ElementOfSeq DEF Ids
<1>2. Used = {} /\ Cardinality(Used) = 0 /\ Cardinality({}) = 0 /\ IsFiniteSet({})
  BY FS_EmptySet DEF Used, Init
<1>3. Typed
  <2>1. rows \in [Ids -> Row \cup {None}]
    BY <1>1 DEF Init
  <2> QED BY <2>1 DEF Typed, TypeOK, Init, ConstantsTyped
<1>4. Serving
  <2>1. served = {1} /\ Cardinality({1}) = 1
    BY FS_Singleton DEF Init
  <2> QED BY <2>1 DEF Serving
<1>5. Posting
  BY <1>1, <1>2 DEF Posting, Init, Busy
<1>6. Consecutive
  <2>1. Filled = 1 .. Len(Before)
    BY <1>1 DEF Filled, Init
  <2>2. ASSUME NEW n \in Nat PROVE Cardinality(1 .. n) = n
    BY FS_Interval
  <2> QED BY <1>1, <1>2, <2>1, <2>2 DEF Consecutive
<1>7. ASSUME NEW c \in Clients PROVE Working(c)
  BY DEF Init, Working, At, Busy
<1>8. Recorded /\ LandsOnPageAnchor /\ OneSubmitOneChange /\ SentOn
  BY DEF Init, Recorded, LandsOnPageAnchor, OneSubmitOneChange, SentOn
<1>9. DraftsCiteTheirAnchor
  <2>1. SUFFICES ASSUME NEW i \in Ids, rows[i] # None, rows[i].table = "draft"
                 PROVE  /\ rows[i].of \in Ids /\ rows[i].of # 0
                        /\ rows[rows[i].of] # None
                        /\ rows[rows[i].of].table = "evidence"
                        /\ rows[rows[i].of].anchor = rows[i].anchor
    BY DEF DraftsCiteTheirAnchor, Present
  <2>2. i \in 1 .. Len(Before) /\ rows[i] = Before[i]
    BY <1>1, <2>1 DEF Init
  <2>3. PICK e \in 1 .. Len(Before) :
          /\ e = Before[i].of
          /\ Before[e].table = "evidence" /\ Before[e].anchor = Before[i].anchor
    BY <2>1, <2>2 DEF ConstantsTyped, BeforeTyped
  <2>4. rows[e] = Before[e] /\ e \in Ids
    BY <1>1 DEF Init
  <2> QED BY <1>1, <2>2, <2>3, <2>4
<1> QED BY <1>3, <1>4, <1>5, <1>6, <1>7, <1>8, <1>9 DEF ActionsInv

LEMMA ActionsStill == ASSUME ActionsInv, UNCHANGED vars PROVE ActionsInv'
<1>1. UNCHANGED <<served, rows, idem, spaces, follows, firsts, posted, run, tool, log, opened>>
  BY DEF vars
<1>2. Typed' /\ Serving' /\ Posting' /\ Consecutive'
  BY <1>1 DEF ActionsInv, Typed, TypeOK, Serving, Posting, Consecutive, Filled, Used, Busy
<1>3. ASSUME NEW c \in Clients PROVE Working(c)'
  BY <1>1, OthersWork
<1>4. /\ Recorded' /\ LandsOnPageAnchor' /\ OneSubmitOneChange' /\ SentOn'
      /\ DraftsCiteTheirAnchor'
  BY <1>1 DEF ActionsInv, Recorded, LandsOnPageAnchor, OneSubmitOneChange, SentOn,
              DraftsCiteTheirAnchor, Present, Used
<1> QED BY <1>2, <1>3, <1>4 DEF ActionsInv

LEMMA ActionsStep == ASSUME ActionsInv, [Next]_vars PROVE ActionsInv'
BY ActionsStill, ReleaseKeeps, PostFormKeeps, PostAgainKeeps, ReadStateKeeps,
   CheckActivityKeeps, CommandKeeps, ListWorkspacesKeeps, CreateWorkspaceKeeps,
   FirstFollowKeeps, ReplyToPersonKeeps, StartToolKeeps, ToolPostKeeps, ToolHearsKeeps,
   LoseKeeps DEF Next

-----------------------------------------------------------------------------
(* Nobody whom opening made to follow stops following but by asking, and   *)
(* no record of what was asked is ever replaced.                           *)
Following == \A thread \in firsts : thread \in follows \/ Unfollowed(thread)

LEMMA StillFollowing ==
    ASSUME Following, follows \subseteq follows', firsts' = firsts,
           \A k \in Members \X Keys : idem[k] # None => idem'[k] = idem[k]
    PROVE  Following'
BY DEF Following, Unfollowed

LEMMA CommandFollows ==
    ASSUME ActionsInv, Following, NEW c \in Clients, Command(c) PROVE Following'
<1>1. At(c, "command") /\ Busy(c) /\ Typed /\ firsts' = firsts
  BY DEF Command, At, ActionsInv
<1>2. KeyOf(c) \in Members \X Keys /\ DOMAIN idem = Members \X Keys
  BY <1>1, RequestFields DEF Typed
<1>3. CASE Prior(c) \/ ~Accepted(c)
  <2>1. UNCHANGED <<idem, follows>>
    BY <1>3 DEF Command
  <2> QED BY <1>1, <2>1, StillFollowing
<1>4. CASE ~Prior(c) /\ Accepted(c)
  <2>1. PICK id : idem' = [idem EXCEPT ![KeyOf(c)] = [root |-> Root(c), id |-> id]]
    BY <1>4 DEF Command, Apply, SetFollow
  <2>2. /\ \A k \in Members \X Keys : idem[k] # None => idem'[k] = idem[k]
        /\ idem'[KeyOf(c)].root = Root(c)
    BY <1>2, <1>4, <2>1 DEF Prior
  <2>3. CASE follows \subseteq follows'
    BY <1>1, <2>2, <2>3, StillFollowing
  <2>4. CASE ~(follows \subseteq follows')
    <3>1. /\ FormOf(c).kind = "follow" /\ FormOf(c).target = 0
          /\ follows' = follows \ {Thread(c)}
      BY <1>4, <2>4 DEF Command, SetFollow
    <3>2. idem'[KeyOf(c)] # None
      <4>1. [root |-> Root(c), id |-> 0] \in Record
        <5>1. /\ FormOf(c) \in Form /\ run[c].anchor \in Anchors \cup {0}
              /\ run[c].stamp \in {1, 2}
          BY <1>1, RequestFields
        <5> QED BY <5>1 DEF Record, Root
      <4>2. idem'[KeyOf(c)] = [root |-> Root(c), id |-> 0]
        BY <1>2, <1>4, <3>1 DEF Command, SetFollow
      <4> QED BY <1>1, <4>1, <4>2 DEF Typed, ConstantsTyped
    <3>3. /\ Root(c).form = FormOf(c) /\ Root(c).anchor = run[c].anchor
      BY <3>1 DEF Root
    <3> DEFINE Ended(thread) ==
          \E k \in Members \X Keys :
            /\ idem'[k] # None
            /\ idem'[k].root.form.kind = "follow" /\ idem'[k].root.form.target = 0
            /\ thread = <<idem'[k].root.form.by, idem'[k].root.form.slug,
                          idem'[k].root.anchor>>
    <3>4. Ended(Thread(c))
      BY <1>2, <2>2, <3>1, <3>2, <3>3 DEF Thread
    <3>5. ASSUME NEW thread \in firsts PROVE thread \in follows' \/ Ended(thread)
      <4>1. CASE thread = Thread(c)
        BY <3>4, <4>1
      <4>2. CASE thread # Thread(c) /\ thread \in follows
        BY <3>1, <4>2
      <4>3. CASE Unfollowed(thread)
        BY <2>2, <4>3 DEF Unfollowed
      <4> QED BY <4>1, <4>2, <4>3 DEF Following
    <3> QED BY <1>1, <3>5 DEF Following, Unfollowed
  <2> QED BY <2>3, <2>4
<1> QED BY <1>3, <1>4

LEMMA FollowingStep ==
    ASSUME ActionsInv, Following, [Next]_vars PROVE Following'
<1>1. CASE UNCHANGED <<idem, follows, firsts>>
  BY <1>1, StillFollowing
<1>2. ASSUME NEW c \in Clients, CreateWorkspace(c) PROVE Following'
  <2>1. KeyOf(c) \in Members \X Keys /\ DOMAIN idem = Members \X Keys
    BY <1>2, RequestFields DEF CreateWorkspace, At, ActionsInv, Typed
  <2>2. \A k \in Members \X Keys : idem[k] # None => idem'[k] = idem[k]
    BY <1>2, <2>1 DEF CreateWorkspace, Prior
  <2> QED BY <1>2, <2>2, StillFollowing DEF CreateWorkspace
<1>3. ASSUME NEW c \in Clients, FirstFollow(c) PROVE Following'
  BY <1>3 DEF FirstFollow, Following, Unfollowed
<1> QED
  BY <1>1, <1>2, <1>3, CommandFollows
     DEF Next, vars, db, Release, PostForm, PostAgain, ReadState, CheckActivity,
         ListWorkspaces, ReplyToPerson, StartTool, ToolPost, ToolHears, Lose

LEMMA FollowingInit == Init => Following
BY DEF Init, Following

LEMMA FollowingGives == ActionsInv /\ Following => OpenedFollows
BY DEF ActionsInv, SentOn, Following, OpenedFollows
=============================================================================
