--------------------------- MODULE PublicProfiles ---------------------------
(***************************************************************************)
(* The public profile of a hosted account (packages/activity-data,         *)
(* public-profiles.sql): saving it under a version, renaming its handle,   *)
(* reading it by handle, and what deleting the account leaves.  A save is  *)
(* one READ COMMITTED transaction of several statements; saves, deletions  *)
(* and the operator's performer links interleave statement by statement.   *)
(*                                                                         *)
(* A handle stands for its trimmed lower-case form.  The name, bio,        *)
(* affiliation and links of a profile are one text: the number of the call *)
(* that wrote them.                                                        *)
(***************************************************************************)
EXTENDS Naturals, FiniteSets

CONSTANTS
    Accounts,  \* hosted accounts
    Handles,   \* normalised handles
    Reserved,  \* handles profile_handle_valid refuses
    Sessions,  \* database sessions
    Requests,  \* the calls clients make
    MaxCalls,  \* bound: calls in one behaviour
    None       \* SQL NULL

Ids == 1 .. MaxCalls

Visibilities == {"private", "unlisted", "public"}

(* expected 0 is a form that carries no version.  A deletion names only    *)
(* its account.                                                            *)
Request ==
    [kind : {"save", "delete"}, account : Accounts, handle : Handles,
     visibility : Visibilities, expected : 0 .. MaxCalls]

(* An active profile has an account and a deleted one has none: the CHECK  *)
(* of the table, so status is not kept apart.                              *)
Profile ==
    [account : Accounts \cup {None}, handle : Handles,
     visibility : Visibilities, text : Ids \cup {0}, version : Nat \ {0}]

HandleRow == [profile : Ids, retired : BOOLEAN]

(* What a model of this module must give its constants.                    *)
ConstantsTyped ==
    /\ Requests \subseteq Request
    /\ MaxCalls \in Nat
    /\ None \notin Accounts \cup Requests \cup Profile \cup HandleRow

VARIABLES
    accounts,  \* accounts that exist
    profiles,  \* public_profiles: id -> row, or None
    handles,   \* public_profile_handles: handle -> row, or None
    linked,    \* profiles that public_profile_performers links
    calls,     \* calls made so far
    pc,        \* where each session's transaction is
    req,       \* the request it serves
    call,      \* its call number
    found,     \* id of the profile it locked, or 0
    held,      \* the locks it holds
    saved      \* history: every save that was committed

tables  == <<accounts, profiles, handles, linked>>
session == <<pc, req, call, found, held>>
vars    == <<accounts, profiles, handles, linked, calls,
             pc, req, call, found, held, saved>>

-----------------------------------------------------------------------------
(* Locks.  Unique keys being inserted, locked rows, and the foreign key    *)
(* from a new profile to its account, which excludes deleting the account. *)
Conflicts(k, l) ==
    /\ \/ k[1] = l[1] /\ k[1] # "owned"
       \/ {k[1], l[1]} = {"account", "owned"}
    /\ k[2] = l[2]

Grantable(s, locks) ==
    \A t \in Sessions \ {s} : \A k \in locks, l \in held[t] : ~Conflicts(k, l)

Goto(s, place, locks) ==
    /\ Grantable(s, locks)
    /\ pc'   = [pc EXCEPT ![s] = place]
    /\ held' = [held EXCEPT ![s] = @ \cup locks]

(* Commit, refusal or loss: the session is free and its locks are gone.    *)
End(s) ==
    /\ pc'    = [pc EXCEPT ![s] = "idle"]
    /\ req'   = [req EXCEPT ![s] = None]
    /\ call'  = [call EXCEPT ![s] = 0]
    /\ found' = [found EXCEPT ![s] = 0]
    /\ held'  = [held EXCEPT ![s] = {}]

Refuse(s) == End(s) /\ UNCHANGED <<tables, calls, saved>>

Active(i) == profiles[i] # None /\ profiles[i].account # None

ProfileOf(a) == {i \in Ids : Active(i) /\ profiles[i].account = a}

(* A handle that some profile holds or ever held.                          *)
Taken(h) == handles[h] # None

-----------------------------------------------------------------------------
Call(s) ==
    /\ pc[s] = "idle"
    /\ calls < MaxCalls
    /\ \E r \in Requests :
         /\ req' = [req EXCEPT ![s] = r]
         /\ pc'  = [pc EXCEPT ![s] = r.kind]
    /\ calls' = calls + 1
    /\ call'  = [call EXCEPT ![s] = calls + 1]
    /\ UNCHANGED <<tables, found, held, saved>>

Here(s, place) == pc[s] = place

(* The account exists and the handle is well formed and not reserved.      *)
Enter(s) ==
    /\ Here(s, "save")
    /\ IF req[s].account \in accounts /\ req[s].handle \notin Reserved
       THEN /\ Goto(s, "find", {})
            /\ UNCHANGED <<tables, calls, req, call, found, saved>>
       ELSE Refuse(s)

(* SELECT ... FOR UPDATE of the account's active profile: a waiter sees    *)
(* the row as the lock's holder left it.  Then the version check.          *)

(* Faulty variant of ProfileLock: a plain SELECT.                          *)
NoProfileLock(i) == {}

ProfileLock(i) == {<<"profile", i>>}

FindNone(s) ==
    /\ Here(s, "find")
    /\ ProfileOf(req[s].account) = {}
    /\ IF req[s].expected = 0
       THEN /\ Goto(s, "claim", {})
            /\ UNCHANGED <<tables, calls, req, call, found, saved>>
       ELSE Refuse(s)

FindProfile(s) ==
    /\ Here(s, "find")
    /\ \E i \in ProfileOf(req[s].account) :
         /\ Grantable(s, ProfileLock(i))
         /\ IF req[s].expected = profiles[i].version
            THEN /\ Goto(s, IF req[s].handle = profiles[i].handle
                            THEN "write" ELSE "claim", ProfileLock(i))
                 /\ found' = [found EXCEPT ![s] = i]
                 /\ UNCHANGED <<tables, calls, req, call, saved>>
            ELSE Refuse(s)

(* The requested handle must be free in what is committed.                 *)
Claim(s) ==
    /\ Here(s, "claim")
    /\ IF Taken(req[s].handle)
       THEN Refuse(s)
       ELSE /\ Goto(s, IF found[s] = 0 THEN "insert" ELSE "handle", {})
            /\ UNCHANGED <<tables, calls, req, call, found, saved>>

(* Faulty variant of AccountKey: no foreign key to the account.            *)
NoAccountKey(a) == {}

AccountKey(a) == {<<"owned", a>>}

(* INSERT of the profile: one profile per account, one profile per handle, *)
(* and an account that still exists.  It waits for who inserts the same    *)
(* key or deletes the account, and fails when that one commits.            *)
InsertProfile(s) ==
    LET r == req[s] IN
    /\ Here(s, "insert")
    /\ LET locks == {<<"owner", r.account>>, <<"name", r.handle>>}
                      \cup AccountKey(r.account)
       IN /\ Grantable(s, locks)
          /\ IF \/ ProfileOf(r.account) # {}
                \/ \E i \in Ids : profiles[i] # None /\ profiles[i].handle = r.handle
                \/ r.account \notin accounts
             THEN Refuse(s)
             ELSE /\ Goto(s, "handle", locks)
                  /\ UNCHANGED <<tables, calls, req, call, found, saved>>

(* The old handle, if any, is retired and the new one inserted.            *)
InsertHandle(s) ==
    LET lock == {<<"handle", req[s].handle>>} IN
    /\ Here(s, "handle")
    /\ Grantable(s, lock)
    /\ IF handles[req[s].handle] # None
       THEN Refuse(s)
       ELSE /\ Goto(s, IF found[s] = 0 THEN "commit" ELSE "write", lock)
            /\ UNCHANGED <<tables, calls, req, call, found, saved>>

(* UPDATE of the profile; a new handle must also be unique among profiles. *)
UpdateProfile(s) ==
    LET r    == req[s]
        lock == IF r.handle = profiles[found[s]].handle
                THEN {} ELSE {<<"name", r.handle>>}
    IN  /\ Here(s, "write")
        /\ Grantable(s, lock)
        /\ IF \E i \in Ids \ {found[s]} :
                profiles[i] # None /\ profiles[i].handle = r.handle
           THEN Refuse(s)
           ELSE /\ Goto(s, "commit", lock)
                /\ UNCHANGED <<tables, calls, req, call, found, saved>>

(* What the save makes of the profile: a new one is at version one.        *)
NewVersion(s) == IF found[s] = 0 THEN 1 ELSE profiles[found[s]].version + 1

Target(s) == IF found[s] = 0 THEN call[s] ELSE found[s]

(* Faulty variant of Retired: the old handle is given up.                  *)
Released(row) == None

Retired(row) == [row EXCEPT !.retired = TRUE]

Replaced(s, h) ==
    /\ found[s] # 0
    /\ handles[h] # None
    /\ handles[h].profile = found[s]
    /\ ~handles[h].retired
    /\ h # req[s].handle

CommitSave(s) ==
    LET r == req[s] IN
    /\ Here(s, "commit")
    /\ r.kind = "save"
    /\ profiles' = [profiles EXCEPT
                      ![Target(s)] = [account |-> r.account, handle |-> r.handle,
                                      visibility |-> r.visibility,
                                      text |-> call[s], version |-> NewVersion(s)]]
    /\ handles' = [h \in Handles |->
                     IF h = r.handle
                     THEN [profile |-> Target(s), retired |-> FALSE]
                     ELSE IF Replaced(s, h) THEN Retired(handles[h]) ELSE handles[h]]
    /\ saved' = saved \cup {[profile |-> Target(s), version |-> NewVersion(s),
                             text |-> call[s]]}
    /\ End(s)
    /\ UNCHANGED <<accounts, linked, calls>>

-----------------------------------------------------------------------------
(* Deleting an account: its row is locked, then a BEFORE DELETE trigger    *)
(* locks its profile, unlinks its performers and tombstones it.            *)

LockAccount(s) ==
    /\ Here(s, "delete")
    /\ IF req[s].account \in accounts
       THEN /\ Goto(s, "tombstone", {<<"account", req[s].account>>})
            /\ UNCHANGED <<tables, calls, req, call, found, saved>>
       ELSE /\ Grantable(s, {<<"account", req[s].account>>})
            /\ Refuse(s)

Tombstone(s) ==
    /\ Here(s, "tombstone")
    /\ \/ /\ ProfileOf(req[s].account) = {}
          /\ Goto(s, "commit", {})
          /\ UNCHANGED found
       \/ \E i \in ProfileOf(req[s].account) :
            /\ Goto(s, "commit", ProfileLock(i))
            /\ found' = [found EXCEPT ![s] = i]
    /\ UNCHANGED <<tables, calls, req, call, saved>>

Erased(row) ==
    [row EXCEPT !.account = None, !.visibility = "private", !.text = 0,
                !.version = @ + 1]

CommitDelete(s) ==
    /\ Here(s, "commit")
    /\ req[s].kind = "delete"
    /\ accounts' = accounts \ {req[s].account}
    /\ profiles' = IF found[s] = 0 THEN profiles
                   ELSE [profiles EXCEPT ![found[s]] = Erased(@)]
    /\ linked' = linked \ {found[s]}
    /\ End(s)
    /\ UNCHANGED <<handles, calls, saved>>

-----------------------------------------------------------------------------
(* The connection is lost, or the deadlock detector picks this session.    *)
Lose(s) == ~Here(s, "idle") /\ Refuse(s)

(* An operator's verified join; its foreign key waits for a locked profile.*)
Link(i) ==
    /\ Active(i)
    /\ i \notin linked
    /\ \A t \in Sessions : <<"profile", i>> \notin held[t]
    /\ linked' = linked \cup {i}
    /\ UNCHANGED <<accounts, profiles, handles, calls, session, saved>>

Init ==
    /\ accounts = Accounts
    /\ profiles = [i \in Ids |-> None]
    /\ handles  = [h \in Handles |-> None]
    /\ linked   = {}
    /\ calls    = 0
    /\ pc       = [s \in Sessions |-> "idle"]
    /\ req      = [s \in Sessions |-> None]
    /\ call     = [s \in Sessions |-> 0]
    /\ found    = [s \in Sessions |-> 0]
    /\ held     = [s \in Sessions |-> {}]
    /\ saved    = {}

Save(s) ==
    \/ Enter(s)
    \/ FindNone(s)
    \/ FindProfile(s)
    \/ Claim(s)
    \/ InsertProfile(s)
    \/ InsertHandle(s)
    \/ UpdateProfile(s)
    \/ CommitSave(s)

Delete(s) == LockAccount(s) \/ Tombstone(s) \/ CommitDelete(s)

Next ==
    \/ \E s \in Sessions : Call(s) \/ Save(s) \/ Delete(s) \/ Lose(s)
    \/ \E i \in Ids : Link(i)

Spec == Init /\ [][Next]_vars

-----------------------------------------------------------------------------
(* What get_public_profile answers: the profile a handle, current or       *)
(* retired, leads to, and its text; a private one only to its owner.       *)
Readable(i, viewer) ==
    /\ Active(i)
    /\ \/ profiles[i].visibility \in {"public", "unlisted"}
       \/ viewer # None /\ profiles[i].account = viewer

ReadBy(h, viewer) ==
    IF handles[h] # None /\ Readable(handles[h].profile, viewer)
    THEN {handles[h].profile} ELSE {}

(* Properties.                                                             *)

(* Every table row and session variable is of its type, and every handle   *)
(* row names a profile that is stored.                                     *)
TypeOK ==
    /\ accounts \subseteq Accounts
    /\ profiles \in [Ids -> Profile \cup {None}]
    /\ handles \in [Handles -> HandleRow \cup {None}]
    /\ \A h \in Handles : handles[h] # None => profiles[handles[h].profile] # None
    /\ linked \subseteq Ids
    /\ calls \in 0 .. MaxCalls
    /\ req \in [Sessions -> Requests \cup {None}]
    /\ call \in [Sessions -> Ids \cup {0}]
    /\ found \in [Sessions -> Ids \cup {0}]

(* The two tables agree, whatever saves overlap or stop half way: each     *)
(* profile has exactly one handle that is not retired, the one in its row, *)
(* so every address it ever had can lead to the one it has now.            *)
OneCurrentHandle ==
    \A i \in Ids : profiles[i] # None =>
      {h \in Handles : /\ handles[h] # None
                       /\ handles[h].profile = i
                       /\ ~handles[h].retired} = {profiles[i].handle}

(* A step after which every address leads where it led, or nowhere.        *)
AddressesKept ==
    \A h \in Handles : \A v \in Accounts \cup {None} :
      /\ handles[h] # None =>
           handles'[h] # None /\ handles'[h].profile = handles[h].profile
      /\ ReadBy(h, v) # {} => ReadBy(h, v)' \subseteq ReadBy(h, v)

(* public-profiles.sql:79-80: handles are never reassigned.  Neither a     *)
(* rename, nor the deletion of an account, nor a race for a handle ever    *)
(* makes an address lead a reader to another profile.                      *)
NeverReassigned == [][AddressesKept]_vars

(* No save is lost to another tab: each version of a profile is one save,  *)
(* and the profile shows the text of the last.                             *)
SavesInOrder ==
    /\ \A e, f \in saved :
         e.profile = f.profile /\ e.version = f.version => e = f
    /\ \A i \in Ids : Active(i) =>
         /\ {e.version : e \in {f \in saved : f.profile = i}}
              = 1 .. profiles[i].version
         /\ [profile |-> i, version |-> profiles[i].version,
             text |-> profiles[i].text] \in saved

(* Deleting an account takes its profile with it, also when a save or a    *)
(* first publication is under way: no profile of a deleted account stays   *)
(* active, no account has two, and a tombstone keeps no text and no link.  *)
DeletionComplete ==
    /\ \A i, j \in Ids :
         /\ Active(i) => profiles[i].account \in accounts
         /\ Active(i) /\ Active(j) /\ profiles[i].account = profiles[j].account
              => i = j
    /\ \A i \in Ids : profiles[i] # None /\ ~Active(i) =>
         /\ profiles[i].text = 0
         /\ profiles[i].visibility = "private"
         /\ i \notin linked
=============================================================================
