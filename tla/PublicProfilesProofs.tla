------------------------ MODULE PublicProfilesProofs ------------------------
(***************************************************************************)
(* What PublicProfiles promises, for every number of accounts, handles and *)
(* sessions.                                                               *)
(*                                                                         *)
(* Every statement of a save or a deletion reads tables that other calls   *)
(* go on changing.  What keeps its later statements true to what the       *)
(* earlier ones read are its locks, so the invariant says of each call     *)
(* under way which locks it holds and what is true because of them, and    *)
(* that no two calls hold locks that exclude each other.                   *)
(***************************************************************************)
EXTENDS PublicProfiles, TLAPS

Places ==
    {"idle", "save", "find", "claim", "insert", "handle", "write", "commit",
     "delete", "tombstone"}

Typed ==
    /\ ConstantsTyped /\ TypeOK
    /\ pc \in [Sessions -> Places]
    /\ DOMAIN held = Sessions

LocksApart ==
    \A s, t \in Sessions : s # t =>
      \A k \in held[s], l \in held[t] : ~Conflicts(k, l)

(* A call under way has a request of its kind, and its number is no other  *)
(* call's and no stored profile's.                                         *)
UnderWay(s) ==
    /\ pc[s] = "idle" => held[s] = {} /\ found[s] = 0
    /\ pc[s] \in {"save", "find", "delete", "tombstone", "insert"} => found[s] = 0
    /\ pc[s] # "idle" =>
         /\ req[s] \in Requests
         /\ pc[s] \in {"save", "find", "claim", "insert", "handle", "write"} =>
              req[s].kind = "save"
         /\ pc[s] \in {"delete", "tombstone"} => req[s].kind = "delete"
         /\ call[s] \in 1 .. calls /\ profiles[call[s]] = None
         /\ \A t \in Sessions \ {s} : pc[t] # "idle" => call[t] # call[s]

NumbersAhead == \A i \in Ids : i > calls => profiles[i] = None

(* The profile that a call found is the account's, and is locked.          *)
HasFound(s) ==
    found[s] # 0 =>
      /\ <<"profile", found[s]>> \in held[s]
      /\ Active(found[s]) /\ profiles[found[s]].account = req[s].account

(* The handle that a save is about to store is its own or nobody's.        *)
HasHandle(s) ==
    LET h == req[s].handle IN
    /\ pc[s] \in {"claim", "handle"} /\ found[s] # 0 => h # profiles[found[s]].handle
    /\ pc[s] = "write" => found[s] # 0
    /\ pc[s] = "write" \/ (pc[s] = "commit" /\ req[s].kind = "save") =>
         \/ found[s] # 0 /\ h = profiles[found[s]].handle
         \/ <<"handle", h>> \in held[s] /\ handles[h] = None

(* An account that a save is about to give a profile has none, and stays.  *)
Publishes(s) ==
    pc[s] \in {"handle", "commit"} /\ req[s].kind = "save" /\ found[s] = 0 =>
      /\ {<<"owner", req[s].account>>, <<"owned", req[s].account>>} \subseteq held[s]
      /\ ProfileOf(req[s].account) = {} /\ req[s].account \in accounts

(* A deletion holds its account, and leaves it no profile.                 *)
Deletes(s) ==
    pc[s] \in {"tombstone", "commit"} /\ req[s].kind = "delete" =>
      /\ <<"account", req[s].account>> \in held[s]
      /\ pc[s] = "commit" /\ found[s] = 0 => ProfileOf(req[s].account) = {}

SavedStored ==
    /\ saved \subseteq [profile : Ids, version : Nat \ {0}, text : Ids]
    /\ \A e \in saved : profiles[e.profile] # None

Own(s) == UnderWay(s) /\ HasFound(s) /\ HasHandle(s) /\ Publishes(s) /\ Deletes(s)

ProfilesInv ==
    /\ Typed
    /\ LocksApart
    /\ NumbersAhead
    /\ SavedStored
    /\ \A s \in Sessions : Own(s)
    /\ OneCurrentHandle
    /\ SavesInOrder
    /\ DeletionComplete

-----------------------------------------------------------------------------
LEMMA RequestFields ==
    ASSUME ConstantsTyped, NEW r \in Requests
    PROVE  /\ r.kind \in {"save", "delete"} /\ r.account \in Accounts
           /\ r.handle \in Handles /\ r.visibility \in Visibilities
           /\ r.account # None /\ r # None
BY DEF ConstantsTyped, Request

LEMMA Rows ==
    ASSUME Typed
    PROVE  /\ \A i \in Ids : profiles[i] # None =>
                /\ profiles[i] \in Profile /\ profiles[i].account \in Accounts \cup {None}
                /\ profiles[i].handle \in Handles /\ profiles[i].version \in Nat \ {0}
           /\ \A h \in Handles : handles[h] # None =>
                /\ handles[h] \in HandleRow /\ handles[h].profile \in Ids
                /\ profiles[handles[h].profile] # None
BY DEF Typed, TypeOK, Profile, HandleRow

LEMMA ConflictsEitherWay == ASSUME NEW k, NEW l, Conflicts(k, l) PROVE Conflicts(l, k)
BY DEF Conflicts

(* A step of one session that changes no table.                            *)
LEMMA OwnStep ==
    ASSUME ProfilesInv, NEW s \in Sessions,
           UNCHANGED <<accounts, profiles, handles, linked, calls, saved>>,
           pc' \in [Sessions -> Places], req' \in [Sessions -> Requests \cup {None}],
           call' \in [Sessions -> Ids \cup {0}], found' \in [Sessions -> Ids \cup {0}],
           DOMAIN held' = Sessions,
           \A t \in Sessions \ {s} :
             /\ pc'[t] = pc[t] /\ req'[t] = req[t] /\ call'[t] = call[t]
             /\ found'[t] = found[t] /\ held'[t] = held[t],
           pc'[s] # "idle" => pc[s] # "idle" /\ call'[s] = call[s],
           \A t \in Sessions \ {s} : \A k \in held'[s], l \in held[t] : ~Conflicts(k, l),
           Own(s)'
    PROVE  ProfilesInv'
<1>1. Typed'
  BY DEF ProfilesInv, Typed, TypeOK
<1>2. LocksApart'
  <2>1. SUFFICES ASSUME NEW t \in Sessions, NEW u \in Sessions, t # u,
                        NEW k \in held'[t], NEW l \in held'[u], Conflicts(k, l)
                 PROVE  FALSE
    BY Zenon DEF LocksApart
  <2>2. CASE t = s
    BY <2>1, <2>2
  <2>3. CASE u = s
    BY <2>1, <2>3, ConflictsEitherWay
  <2>4. CASE t # s /\ u # s
    BY <2>1, <2>4 DEF ProfilesInv, LocksApart
  <2> QED BY <2>2, <2>3, <2>4
<1>3. /\ NumbersAhead' /\ SavedStored' /\ OneCurrentHandle' /\ SavesInOrder'
      /\ DeletionComplete'
  BY DEF ProfilesInv, NumbersAhead, SavedStored, OneCurrentHandle, SavesInOrder,
         DeletionComplete, Active
<1>4. ASSUME NEW t \in Sessions \ {s} PROVE Own(t)'
  <2>1. Own(t)
    BY DEF ProfilesInv
  <2>2. UnderWay(t)'
    BY <2>1 DEF Own, UnderWay
  <2>3. HasFound(t)' /\ HasHandle(t)' /\ Publishes(t)' /\ Deletes(t)'
    BY <2>1 DEF Own, HasFound, HasHandle, Publishes, Deletes, Active, ProfileOf
  <2> QED BY <2>2, <2>3 DEF Own
<1> QED BY <1>1, <1>2, <1>3, <1>4 DEF ProfilesInv

(* A session that ends holds nothing, and nothing is asked of it.          *)
LEMMA Ended ==
    ASSUME ProfilesInv, NEW s \in Sessions, End(s)
    PROVE  /\ pc' \in [Sessions -> Places] /\ req' \in [Sessions -> Requests \cup {None}]
           /\ call' \in [Sessions -> Ids \cup {0}] /\ found' \in [Sessions -> Ids \cup {0}]
           /\ DOMAIN held' = Sessions
           /\ \A t \in Sessions \ {s} :
                /\ pc'[t] = pc[t] /\ req'[t] = req[t] /\ call'[t] = call[t]
                /\ found'[t] = found[t] /\ held'[t] = held[t]
           /\ pc'[s] = "idle" /\ held'[s] = {} /\ Own(s)'
<1>1. /\ pc' \in [Sessions -> Places] /\ req' \in [Sessions -> Requests \cup {None}]
      /\ call' \in [Sessions -> Ids \cup {0}] /\ found' \in [Sessions -> Ids \cup {0}]
      /\ DOMAIN held' = Sessions
  BY DEF ProfilesInv, Typed, TypeOK, End, Places
<1>2. \A t \in Sessions \ {s} :
        /\ pc'[t] = pc[t] /\ req'[t] = req[t] /\ call'[t] = call[t]
        /\ found'[t] = found[t] /\ held'[t] = held[t]
  BY DEF ProfilesInv, Typed, TypeOK, End
<1>3. pc'[s] = "idle" /\ held'[s] = {} /\ found'[s] = 0
  BY DEF ProfilesInv, Typed, TypeOK, End
<1>4. Own(s)'
  BY <1>3 DEF Own, UnderWay, HasFound, HasHandle, Publishes, Deletes
<1> QED BY <1>1, <1>2, <1>3, <1>4

LEMMA RefuseKeeps == ASSUME ProfilesInv, NEW s \in Sessions, Refuse(s) PROVE ProfilesInv'
BY Ended, OwnStep DEF Refuse, tables

(* A session that goes on.                                                 *)
LEMMA Went ==
    ASSUME ProfilesInv, NEW s \in Sessions, NEW place, NEW locks, Goto(s, place, locks)
    PROVE  /\ pc'[s] = place /\ held'[s] = held[s] \cup locks /\ DOMAIN held' = Sessions
           /\ \A t \in Sessions \ {s} : pc'[t] = pc[t] /\ held'[t] = held[t]
           /\ place \in Places => pc' \in [Sessions -> Places]
BY DEF ProfilesInv, Typed, Goto

LEMMA GoesOn ==
    ASSUME ProfilesInv, NEW s \in Sessions, NEW place \in Places \ {"idle"}, NEW locks,
           pc[s] # "idle", Goto(s, place, locks),
           UNCHANGED <<tables, calls, req, call, saved>>,
           found' \in [Sessions -> Ids \cup {0}],
           \A t \in Sessions \ {s} : found'[t] = found[t],
           place \in {"find", "claim", "insert", "handle", "write"} => req[s].kind = "save",
           place \in {"delete", "tombstone"} => req[s].kind = "delete",
           place # "save",
           place \in {"find", "delete", "tombstone", "insert"} => found'[s] = 0,
           HasFound(s)', HasHandle(s)', Publishes(s)', Deletes(s)'
    PROVE  ProfilesInv'
<1>1. /\ pc'[s] = place /\ held'[s] = held[s] \cup locks /\ DOMAIN held' = Sessions
      /\ \A t \in Sessions \ {s} : pc'[t] = pc[t] /\ held'[t] = held[t]
      /\ pc' \in [Sessions -> Places]
  BY Went
<1>2. UnderWay(s)'
  BY <1>1 DEF ProfilesInv, Own, UnderWay, tables
<1>3. \A t \in Sessions \ {s} : \A k \in held'[s], l \in held[t] : ~Conflicts(k, l)
  BY <1>1 DEF ProfilesInv, LocksApart, Goto, Grantable
<1>4. req' \in [Sessions -> Requests \cup {None}] /\ call' \in [Sessions -> Ids \cup {0}]
  BY DEF ProfilesInv, Typed, TypeOK
<1> QED BY <1>1, <1>2, <1>3, <1>4, OwnStep DEF Own, tables

-----------------------------------------------------------------------------
(* The statements of a call, one by one.                                   *)
LEMMA CallKeeps == ASSUME ProfilesInv, NEW s \in Sessions, Call(s) PROVE ProfilesInv'
<1>1. PICK r \in Requests : req' = [req EXCEPT ![s] = r] /\ pc' = [pc EXCEPT ![s] = r.kind]
  BY DEF Call
<1>2. /\ pc[s] = "idle" /\ calls < MaxCalls /\ calls' = calls + 1
      /\ call' = [call EXCEPT ![s] = calls + 1]
      /\ UNCHANGED <<accounts, profiles, handles, linked, found, held, saved>>
  BY DEF Call, tables
<1>3. /\ calls \in Nat /\ MaxCalls \in Nat /\ calls + 1 \in Ids /\ calls + 1 \in 1 .. calls'
      /\ calls' \in 0 .. MaxCalls /\ r.kind \in {"save", "delete"}
  BY <1>2, RequestFields DEF ProfilesInv, Typed, TypeOK, ConstantsTyped, Ids
<1>4. Typed'
  BY <1>1, <1>2, <1>3 DEF ProfilesInv, Typed, TypeOK, Places
<1>5. NumbersAhead'
  BY <1>2, <1>3 DEF ProfilesInv, NumbersAhead, Ids
<1>6. /\ LocksApart' /\ SavedStored' /\ OneCurrentHandle' /\ SavesInOrder'
      /\ DeletionComplete'
  BY <1>2 DEF ProfilesInv, LocksApart, SavedStored, OneCurrentHandle, SavesInOrder,
              DeletionComplete, Active
<1>7. /\ pc'[s] = r.kind /\ req'[s] = r /\ call'[s] = calls + 1
      /\ found'[s] = 0 /\ held'[s] = {}
      /\ \A t \in Sessions \ {s} :
           /\ pc'[t] = pc[t] /\ req'[t] = req[t] /\ call'[t] = call[t]
           /\ found'[t] = found[t] /\ held'[t] = held[t]
  BY <1>1, <1>2 DEF ProfilesInv, Typed, TypeOK, Own, UnderWay
<1>8. profiles[calls + 1] = None
  BY <1>3 DEF ProfilesInv, NumbersAhead
<1>9. ASSUME NEW t \in Sessions \ {s}, pc[t] # "idle"
      PROVE  call[t] \in 1 .. calls' /\ call[t] # calls + 1
  <2>1. call[t] \in 1 .. calls
    BY <1>9 DEF ProfilesInv, Own, UnderWay
  <2> QED BY <1>2, <1>3, <2>1
<1>10. Own(s)'
  <2>1. UnderWay(s)'
    BY <1>1, <1>2, <1>3, <1>7, <1>8, <1>9 DEF UnderWay
  <2>2. HasFound(s)' /\ HasHandle(s)' /\ Publishes(s)' /\ Deletes(s)'
    BY <1>3, <1>7 DEF HasFound, HasHandle, Publishes, Deletes
  <2> QED BY <2>1, <2>2 DEF Own
<1>11. ASSUME NEW t \in Sessions \ {s} PROVE Own(t)'
  <2>1. Own(t)
    BY DEF ProfilesInv
  <2>2. UnderWay(t)'
    BY <1>2, <1>7, <1>9, <2>1 DEF Own, UnderWay
  <2>3. HasFound(t)' /\ HasHandle(t)' /\ Publishes(t)' /\ Deletes(t)'
    BY <1>2, <1>7, <2>1 DEF Own, HasFound, HasHandle, Publishes, Deletes, Active, ProfileOf
  <2> QED BY <2>2, <2>3 DEF Own
<1> QED BY <1>4, <1>5, <1>6, <1>10, <1>11 DEF ProfilesInv

LEMMA EnterKeeps == ASSUME ProfilesInv, NEW s \in Sessions, Enter(s) PROVE ProfilesInv'
<1>1. CASE Refuse(s)
  BY <1>1, RefuseKeeps
<1>2. CASE /\ Goto(s, "find", {})
           /\ UNCHANGED <<tables, calls, req, call, found, saved>>
  <2>1. pc[s] = "save" /\ found[s] = 0 /\ req[s].kind = "save" /\ "find" \in Places \ {"idle"}
    BY DEF Enter, Here, ProfilesInv, Own, UnderWay, Places
  <2>2. pc'[s] = "find" /\ found'[s] = 0
    BY <1>2, <2>1, Went
  <2>3. HasFound(s)' /\ HasHandle(s)' /\ Publishes(s)' /\ Deletes(s)'
    BY <2>2 DEF HasFound, HasHandle, Publishes, Deletes
  <2>4. found' \in [Sessions -> Ids \cup {0}]
    BY <1>2 DEF ProfilesInv, Typed, TypeOK
  <2> QED BY <1>2, <2>1, <2>2, <2>3, <2>4, GoesOn
<1> QED BY <1>1, <1>2 DEF Enter

LEMMA FindNoneKeeps == ASSUME ProfilesInv, NEW s \in Sessions, FindNone(s) PROVE ProfilesInv'
<1>1. CASE Refuse(s)
  BY <1>1, RefuseKeeps
<1>2. CASE /\ Goto(s, "claim", {})
           /\ UNCHANGED <<tables, calls, req, call, found, saved>>
  <2>1. pc[s] = "find" /\ found[s] = 0 /\ req[s].kind = "save" /\ "claim" \in Places \ {"idle"}
    BY DEF FindNone, Here, ProfilesInv, Own, UnderWay, Places
  <2>2. pc'[s] = "claim" /\ found'[s] = 0
    BY <1>2, <2>1, Went
  <2>3. HasFound(s)' /\ HasHandle(s)' /\ Publishes(s)' /\ Deletes(s)'
    BY <2>2 DEF HasFound, HasHandle, Publishes, Deletes
  <2>4. found' \in [Sessions -> Ids \cup {0}]
    BY <1>2 DEF ProfilesInv, Typed, TypeOK
  <2> QED BY <1>2, <2>1, <2>2, <2>3, <2>4, GoesOn
<1> QED BY <1>1, <1>2 DEF FindNone

LEMMA FindProfileKeeps ==
    ASSUME ProfilesInv, NEW s \in Sessions, FindProfile(s) PROVE ProfilesInv'
<1>1. PICK i \in ProfileOf(req[s].account) :
        IF req[s].expected = profiles[i].version
        THEN /\ Goto(s, IF req[s].handle = profiles[i].handle
                        THEN "write" ELSE "claim", ProfileLock(i))
             /\ found' = [found EXCEPT ![s] = i]
             /\ UNCHANGED <<tables, calls, req, call, saved>>
        ELSE Refuse(s)
  BY DEF FindProfile
<1>2. CASE Refuse(s)
  BY <1>2, RefuseKeeps
<1> DEFINE place == IF req[s].handle = profiles[i].handle THEN "write" ELSE "claim"
<1>3. CASE /\ Goto(s, place, ProfileLock(i))
           /\ found' = [found EXCEPT ![s] = i]
           /\ UNCHANGED <<tables, calls, req, call, saved>>
  <2>1. /\ pc[s] = "find" /\ req[s].kind = "save" /\ place \in {"write", "claim"}
        /\ {"write", "claim"} \subseteq Places \ {"idle"}
    BY DEF FindProfile, Here, ProfilesInv, Own, UnderWay, Places
  <2>2. /\ i \in Ids /\ Active(i) /\ profiles[i].account = req[s].account
        /\ (place = "write" => req[s].handle = profiles[i].handle)
        /\ (place = "claim" => req[s].handle # profiles[i].handle)
        /\ i # 0
    BY DEF ProfileOf, Ids
  <2> HIDE DEF place
  <2>3. /\ pc'[s] = place /\ <<"profile", i>> \in held'[s]
        /\ UNCHANGED <<profiles, handles, accounts, req>>
    BY <1>3, Went DEF ProfileLock, tables
  <2>4. /\ found'[s] = i /\ found' \in [Sessions -> Ids \cup {0}]
        /\ \A t \in Sessions \ {s} : found'[t] = found[t]
    BY <1>3, <2>2 DEF ProfilesInv, Typed, TypeOK
  <2>5. HasFound(s)' /\ Publishes(s)' /\ Deletes(s)'
    BY <2>1, <2>2, <2>3, <2>4 DEF HasFound, Publishes, Deletes, Active
  <2>6. HasHandle(s)'
    BY <2>1, <2>2, <2>3, <2>4 DEF HasHandle
  <2>7. place \in Places \ {"idle"}
    BY <2>1
  <2> QED BY <1>3, <2>1, <2>4, <2>5, <2>6, <2>7, GoesOn
<1> QED BY <1>1, <1>2, <1>3

(* A statement after the profile was looked for: found and tables stay.    *)
LEMMA StepsOn ==
    ASSUME ProfilesInv, NEW s \in Sessions, NEW place \in Places \ {"idle", "save", "find"},
           NEW locks, pc[s] # "idle", Goto(s, place, locks),
           UNCHANGED <<tables, calls, req, call, found, saved>>,
           place \in {"claim", "insert", "handle", "write"} => req[s].kind = "save",
           place \in {"delete", "tombstone"} => req[s].kind = "delete",
           place \in {"delete", "tombstone", "insert"} => found[s] = 0,
           HasHandle(s)', Publishes(s)', Deletes(s)'
    PROVE  ProfilesInv'
<1>1. held'[s] = held[s] \cup locks
  BY Went
<1>2. HasFound(s)'
  BY <1>1 DEF ProfilesInv, Own, HasFound, Active, tables
<1>3. found' \in [Sessions -> Ids \cup {0}]
  BY DEF ProfilesInv, Typed, TypeOK
<1> QED BY <1>2, <1>3, GoesOn

LEMMA ClaimKeeps == ASSUME ProfilesInv, NEW s \in Sessions, Claim(s) PROVE ProfilesInv'
<1> DEFINE place == IF found[s] = 0 THEN "insert" ELSE "handle"
<1>1. CASE Refuse(s)
  BY <1>1, RefuseKeeps
<1>2. CASE /\ Goto(s, place, {})
           /\ UNCHANGED <<tables, calls, req, call, found, saved>>
  <2>1. /\ pc[s] = "claim" /\ req[s].kind = "save" /\ Own(s)
        /\ place \in {"insert", "handle"} /\ (place = "insert" <=> found[s] = 0)
        /\ {"insert", "handle"} \subseteq Places \ {"idle", "save", "find"}
    BY DEF Claim, Here, ProfilesInv, Own, UnderWay, Places
  <2> HIDE DEF place
  <2>2. pc'[s] = place /\ UNCHANGED <<profiles, handles, accounts, req, found>>
    BY <1>2, Went DEF tables
  <2>3. HasHandle(s)'
    BY <2>1, <2>2 DEF Own, HasHandle
  <2>4. Publishes(s)' /\ Deletes(s)'
    BY <2>1, <2>2 DEF Publishes, Deletes
  <2>5. place \in Places \ {"idle", "save", "find"}
    BY <2>1
  <2> QED BY <1>2, <2>1, <2>3, <2>4, <2>5, StepsOn
<1> QED BY <1>1, <1>2 DEF Claim

LEMMA InsertProfileKeeps ==
    ASSUME ProfilesInv, NEW s \in Sessions, InsertProfile(s) PROVE ProfilesInv'
<1> DEFINE a == req[s].account
           locks == {<<"owner", a>>, <<"name", req[s].handle>>} \cup AccountKey(a)
<1>1. CASE Refuse(s)
  BY <1>1, RefuseKeeps
<1>2. CASE /\ ProfileOf(a) = {} /\ a \in accounts /\ Goto(s, "handle", locks)
           /\ UNCHANGED <<tables, calls, req, call, found, saved>>
  <2>1. /\ pc[s] = "insert" /\ req[s].kind = "save" /\ found[s] = 0
        /\ "handle" \in Places \ {"idle", "save", "find"}
    BY DEF InsertProfile, Here, ProfilesInv, Own, UnderWay, Places
  <2>2. {<<"owner", a>>, <<"owned", a>>} \subseteq locks
    BY DEF AccountKey
  <2> HIDE DEF locks
  <2>3. /\ pc'[s] = "handle" /\ held'[s] = held[s] \cup locks
        /\ UNCHANGED <<profiles, handles, accounts, req, found>>
    BY <1>2, Went DEF tables
  <2>4. HasHandle(s)' /\ Deletes(s)'
    BY <2>1, <2>3 DEF HasHandle, Deletes
  <2>5. Publishes(s)'
    BY <1>2, <2>1, <2>2, <2>3 DEF Publishes, ProfileOf, Active
  <2> QED BY <1>2, <2>1, <2>4, <2>5, StepsOn
<1> QED BY <1>1, <1>2 DEF InsertProfile

LEMMA InsertHandleKeeps ==
    ASSUME ProfilesInv, NEW s \in Sessions, InsertHandle(s) PROVE ProfilesInv'
<1> DEFINE h == req[s].handle
           lock == {<<"handle", h>>}
           place == IF found[s] = 0 THEN "commit" ELSE "write"
<1>1. CASE Refuse(s)
  BY <1>1, RefuseKeeps
<1>2. CASE /\ handles[h] = None /\ Goto(s, place, lock)
           /\ UNCHANGED <<tables, calls, req, call, found, saved>>
  <2>1. /\ pc[s] = "handle" /\ req[s].kind = "save" /\ Own(s)
        /\ place \in {"commit", "write"} /\ (place = "commit" <=> found[s] = 0)
        /\ {"commit", "write"} \subseteq Places \ {"idle", "save", "find"}
    BY DEF InsertHandle, Here, ProfilesInv, Own, UnderWay, Places
  <2> HIDE DEF place
  <2>2. /\ pc'[s] = place /\ held'[s] = held[s] \cup lock
        /\ UNCHANGED <<profiles, handles, accounts, req, found>>
    BY <1>2, Went DEF tables
  <2>3. HasHandle(s)'
    BY <1>2, <2>1, <2>2 DEF HasHandle
  <2>4. Publishes(s)'
    BY <2>1, <2>2 DEF Own, Publishes, ProfileOf, Active
  <2>5. Deletes(s)'
    BY <2>1, <2>2 DEF Deletes
  <2>6. place \in Places \ {"idle", "save", "find"}
    BY <2>1
  <2> QED BY <1>2, <2>1, <2>3, <2>4, <2>5, <2>6, StepsOn
<1> QED BY <1>1, <1>2 DEF InsertHandle

LEMMA UpdateProfileKeeps ==
    ASSUME ProfilesInv, NEW s \in Sessions, UpdateProfile(s) PROVE ProfilesInv'
<1> DEFINE lock == IF req[s].handle = profiles[found[s]].handle
                   THEN {} ELSE {<<"name", req[s].handle>>}
<1>1. CASE Refuse(s)
  BY <1>1, RefuseKeeps
<1>2. CASE /\ Goto(s, "commit", lock)
           /\ UNCHANGED <<tables, calls, req, call, found, saved>>
  <2> HIDE DEF lock
  <2>1. /\ pc[s] = "write" /\ req[s].kind = "save" /\ Own(s) /\ found[s] # 0
        /\ "commit" \in Places \ {"idle", "save", "find"}
    BY DEF UpdateProfile, Here, ProfilesInv, Own, UnderWay, HasHandle, Places
  <2>2. /\ pc'[s] = "commit" /\ held'[s] = held[s] \cup lock
        /\ UNCHANGED <<profiles, handles, accounts, req, found>>
    BY <1>2, Went DEF tables
  <2>3. HasHandle(s)'
    BY <2>1, <2>2 DEF Own, HasHandle
  <2>4. Publishes(s)' /\ Deletes(s)'
    BY <2>1, <2>2 DEF Publishes, Deletes
  <2> QED BY <1>2, <2>1, <2>3, <2>4, StepsOn
<1> QED BY <1>1, <1>2 DEF UpdateProfile

LEMMA LockAccountKeeps ==
    ASSUME ProfilesInv, NEW s \in Sessions, LockAccount(s) PROVE ProfilesInv'
<1> DEFINE lock == {<<"account", req[s].account>>}
<1>1. CASE Refuse(s)
  BY <1>1, RefuseKeeps
<1>2. CASE /\ Goto(s, "tombstone", lock)
           /\ UNCHANGED <<tables, calls, req, call, found, saved>>
  <2>1. /\ pc[s] = "delete" /\ req[s].kind = "delete" /\ found[s] = 0
        /\ "tombstone" \in Places \ {"idle", "save", "find"}
    BY DEF LockAccount, Here, ProfilesInv, Own, UnderWay, Places
  <2>2. /\ pc'[s] = "tombstone" /\ held'[s] = held[s] \cup lock
        /\ UNCHANGED <<req, found>>
    BY <1>2, Went
  <2>3. HasHandle(s)' /\ Publishes(s)' /\ Deletes(s)'
    BY <2>1, <2>2 DEF HasHandle, Publishes, Deletes
  <2> QED BY <1>2, <2>1, <2>3, StepsOn
<1> QED BY <1>1, <1>2 DEF LockAccount

LEMMA TombstoneKeeps ==
    ASSUME ProfilesInv, NEW s \in Sessions, Tombstone(s) PROVE ProfilesInv'
<1>1. /\ pc[s] = "tombstone" /\ req[s].kind = "delete" /\ Own(s) /\ found[s] = 0
      /\ "commit" \in Places \ {"idle", "save", "find"}
      /\ UNCHANGED <<tables, calls, req, call, saved>>
  BY DEF Tombstone, Here, ProfilesInv, Own, UnderWay, Places
<1>2. CASE ProfileOf(req[s].account) = {} /\ Goto(s, "commit", {}) /\ found' = found
  <2>1. pc'[s] = "commit" /\ held'[s] = held[s] \cup {} /\ UNCHANGED <<profiles, req, found>>
    BY <1>1, <1>2, Went DEF tables
  <2>2. HasHandle(s)' /\ Publishes(s)'
    BY <1>1, <2>1 DEF HasHandle, Publishes
  <2>3. Deletes(s)'
    BY <1>1, <1>2, <2>1 DEF Own, Deletes, ProfileOf, Active
  <2> QED BY <1>1, <1>2, <2>2, <2>3, StepsOn
<1>3. ASSUME NEW i \in ProfileOf(req[s].account), Goto(s, "commit", ProfileLock(i)),
             found' = [found EXCEPT ![s] = i]
      PROVE  ProfilesInv'
  <2>1. i \in Ids /\ Active(i) /\ profiles[i].account = req[s].account /\ i # 0
    BY DEF ProfileOf, Ids
  <2>2. /\ pc'[s] = "commit" /\ held'[s] = held[s] \cup {<<"profile", i>>}
        /\ UNCHANGED <<profiles, req>>
    BY <1>1, <1>3, Went DEF tables, ProfileLock
  <2>3. /\ found'[s] = i /\ found' \in [Sessions -> Ids \cup {0}]
        /\ \A t \in Sessions \ {s} : found'[t] = found[t]
    BY <1>3, <2>1 DEF ProfilesInv, Typed, TypeOK
  <2>4. HasFound(s)' /\ HasHandle(s)' /\ Publishes(s)'
    BY <1>1, <2>1, <2>2, <2>3 DEF HasFound, HasHandle, Publishes, Active
  <2>5. Deletes(s)'
    BY <1>1, <2>1, <2>2, <2>3 DEF Own, Deletes
  <2> QED BY <1>1, <1>3, <2>3, <2>4, <2>5, GoesOn
<1> QED BY <1>2, <1>3 DEF Tombstone

-----------------------------------------------------------------------------
(* What is committed.                                                      *)

(* A call is about no profile that another one changes: the locks of the   *)
(* two keep apart the profiles they found, the accounts they publish or    *)
(* delete and the handles they store.                                      *)
LEMMA Apart ==
    ASSUME ProfilesInv, NEW s \in Sessions, NEW t \in Sessions \ {s}, pc[s] = "commit"
    PROVE  /\ found[s] # 0 => found[t] # found[s]
           /\ found[s] = 0 /\ req[s].kind = "save" /\ pc[t] \in {"handle", "commit"}
                /\ found[t] = 0 => req[t].account # req[s].account
           /\ req[s].kind = "delete" /\ req[t].kind = "save" /\ found[t] = 0
                /\ pc[t] \in {"handle", "commit"} => req[t].account # req[s].account
           /\ req[s].kind = "delete" /\ req[t].kind = "delete"
                /\ pc[t] \in {"tombstone", "commit"} => req[t].account # req[s].account
<1>1. Own(s) /\ Own(t) /\ t # s
  BY DEF ProfilesInv
<1>2. \A k \in held[s], l \in held[t] : ~Conflicts(k, l)
  BY <1>1 DEF ProfilesInv, LocksApart
<1>3. pc[s] # "idle" => req[s] \in Requests
  BY <1>1 DEF Own, UnderWay
<1>4. found[s] # 0 => found[t] # found[s]
  <2>1. SUFFICES ASSUME found[s] # 0, found[t] = found[s] PROVE FALSE
    OBVIOUS
  <2>2. <<"profile", found[s]>> \in held[s] /\ <<"profile", found[s]>> \in held[t]
    BY <1>1, <2>1 DEF Own, HasFound
  <2> QED BY <1>2, <2>2 DEF Conflicts
<1>5. ASSUME found[s] = 0, req[s].kind = "save", pc[t] \in {"handle", "commit"},
             found[t] = 0, req[t].account = req[s].account
      PROVE  FALSE
  <2>1. {<<"owner", req[s].account>>, <<"owned", req[s].account>>} \subseteq held[s]
    BY <1>1, <1>5 DEF Own, Publishes
  <2>2. req[t] \in Requests
    BY <1>1, <1>5 DEF Own, UnderWay
  <2>3. req[t].kind \in {"save", "delete"}
    BY <2>2, RequestFields DEF ProfilesInv, Typed
  <2>4. CASE req[t].kind = "save"
    <3>1. <<"owner", req[s].account>> \in held[t]
      BY <1>1, <1>5, <2>4 DEF Own, Publishes
    <3> QED BY <1>2, <2>1, <3>1 DEF Conflicts
  <2>5. CASE req[t].kind = "delete"
    <3>1. pc[t] = "commit"
      BY <1>1, <1>5, <2>5 DEF Own, UnderWay
    <3>2. <<"account", req[s].account>> \in held[t]
      BY <1>1, <1>5, <2>5, <3>1 DEF Own, Deletes
    <3> QED BY <1>2, <2>1, <3>2 DEF Conflicts
  <2> QED BY <2>3, <2>4, <2>5
<1>6. ASSUME req[s].kind = "delete", req[t].kind = "save", found[t] = 0,
             pc[t] \in {"handle", "commit"}, req[t].account = req[s].account
      PROVE  FALSE
  <2>1. /\ <<"account", req[s].account>> \in held[s]
        /\ <<"owned", req[s].account>> \in held[t]
    BY <1>1, <1>6 DEF Own, Deletes, Publishes
  <2> QED BY <1>2, <2>1 DEF Conflicts
<1>7. ASSUME req[s].kind = "delete", req[t].kind = "delete",
             pc[t] \in {"tombstone", "commit"}, req[t].account = req[s].account
      PROVE  FALSE
  <2>1. /\ <<"account", req[s].account>> \in held[s]
        /\ <<"account", req[s].account>> \in held[t]
    BY <1>1, <1>7 DEF Own, Deletes
  <2> QED BY <1>2, <2>1 DEF Conflicts
<1> QED BY <1>4, <1>5, <1>6, <1>7

(* A step that ends a session and changes at most one profile keeps what   *)
(* the others rely on, if it leaves alone what is theirs.                  *)
LEMMA OthersKeep ==
    ASSUME ProfilesInv, NEW s \in Sessions, End(s), calls' = calls,
           NEW i \in Ids \cup {0},
           \A j \in Ids \ {i} : profiles'[j] = profiles[j],
           \A t \in Sessions \ {s} :
             /\ found[t] = i => i = 0
             /\ pc[t] # "idle" => call[t] # i
             /\ /\ pc[t] \in {"write", "commit"} /\ req[t].kind = "save"
                /\ handles[req[t].handle] = None
                /\ <<"handle", req[t].handle>> \in held[t]
                => handles'[req[t].handle] = None
             /\ pc[t] \in {"handle", "commit"} /\ found[t] = 0 =>
                  /\ req[t].kind = "save" /\ req[t].account \in accounts =>
                       req[t].account \in accounts'
                  /\ i # 0 /\ profiles'[i] # None => profiles'[i].account # req[t].account
    PROVE  \A t \in Sessions : Own(t)'
<1>1. ASSUME NEW t \in Sessions \ {s} PROVE Own(t)'
  <2>1. /\ pc'[t] = pc[t] /\ req'[t] = req[t] /\ call'[t] = call[t]
        /\ found'[t] = found[t] /\ held'[t] = held[t] /\ Own(t)
    BY Ended DEF ProfilesInv
  <2>2. /\ call[t] \in Ids \cup {0} /\ found[t] \in Ids \cup {0} /\ 0 \notin Ids
        /\ calls \in 0 .. MaxCalls /\ MaxCalls \in Nat
    BY DEF ProfilesInv, Typed, TypeOK, ConstantsTyped, Ids
  <2>3. UnderWay(t)'
    <3>1. ASSUME pc[t] # "idle" PROVE call[t] \in Ids /\ profiles'[call[t]] = None
      <4>1. call[t] \in 1 .. calls /\ profiles[call[t]] = None
        BY <2>1, <3>1 DEF Own, UnderWay
      <4>2. call[t] \in Ids
        BY <2>2, <4>1 DEF Ids
      <4>3. call[t] # i
        BY <3>1
      <4> QED BY <4>1, <4>2, <4>3
    <3>2. \A u \in Sessions \ {t} : pc'[u] # "idle" => u # s /\ pc[u] # "idle" /\ call'[u] = call[u]
      BY Ended
    <3> QED BY <2>1, <3>1, <3>2 DEF Own, UnderWay
  <2>4. found[t] # 0 => profiles'[found[t]] = profiles[found[t]]
    BY <2>2
  <2>5. HasFound(t)'
    BY <2>1, <2>4 DEF Own, HasFound, Active
  <2>6. pc[t] = "write" => req[t].kind = "save"
    BY <2>1 DEF Own, UnderWay
  <2>7. HasHandle(t)'
    BY <2>1, <2>4, <2>6 DEF Own, HasHandle
  <2>8. pc[t] \in {"handle", "commit"} /\ found[t] = 0 /\ ProfileOf(req[t].account) = {} =>
          ProfileOf(req[t].account)' = {}
    BY <2>1, <2>2 DEF ProfileOf, Active
  <2>9. Publishes(t)' /\ Deletes(t)'
    BY <2>1, <2>8 DEF Own, Publishes, Deletes, ProfileOf, Active
  <2> QED BY <2>3, <2>5, <2>7, <2>9 DEF Own
<1> QED BY <1>1, Ended

(* What a save is about to store.                                          *)
LEMMA SaveFacts ==
    ASSUME ProfilesInv, NEW s \in Sessions, pc[s] = "commit", req[s].kind = "save"
    PROVE  LET r == req[s] IN
           /\ r \in Requests /\ r.account \in Accounts /\ r.account # None
           /\ r.handle \in Handles /\ r.visibility \in Visibilities
           /\ call[s] \in 1 .. calls /\ call[s] \in Ids /\ profiles[call[s]] = None
           /\ Target(s) \in Ids /\ Target(s) # 0 /\ NewVersion(s) \in Nat \ {0}
           /\ found[s] = 0 =>
                /\ Target(s) = call[s] /\ NewVersion(s) = 1
                /\ ProfileOf(r.account) = {} /\ r.account \in accounts
           /\ found[s] # 0 =>
                /\ Target(s) = found[s] /\ Active(Target(s))
                /\ profiles[Target(s)].account = r.account
                /\ NewVersion(s) = profiles[Target(s)].version + 1
           /\ \/ /\ found[s] # 0 /\ r.handle = profiles[Target(s)].handle
                 /\ handles[r.handle] # None /\ handles[r.handle].profile = Target(s)
              \/ <<"handle", r.handle>> \in held[s] /\ handles[r.handle] = None
<1> DEFINE r == req[s]
<1>1. Own(s) /\ Typed
  BY DEF ProfilesInv
<1>2. r \in Requests
  BY <1>1 DEF Own, UnderWay
<1>3. r.account \in Accounts /\ r.account # None /\ r.handle \in Handles /\ r.visibility \in Visibilities
  BY <1>1, <1>2, RequestFields DEF Typed
<1>4. call[s] \in 1 .. calls /\ call[s] \in Ids /\ profiles[call[s]] = None
  <2>1. call[s] \in 1 .. calls /\ profiles[call[s]] = None
    BY <1>1 DEF Own, UnderWay
  <2>2. calls \in 0 .. MaxCalls /\ MaxCalls \in Nat
    BY <1>1 DEF Typed, TypeOK, ConstantsTyped
  <2> QED BY <2>1, <2>2 DEF Ids
<1>5. found[s] = 0 =>
        /\ Target(s) = call[s] /\ NewVersion(s) = 1
        /\ ProfileOf(r.account) = {} /\ r.account \in accounts
  BY <1>1 DEF Own, Publishes, Target, NewVersion
<1>6. ASSUME found[s] # 0
      PROVE  /\ Target(s) = found[s] /\ Target(s) \in Ids /\ Active(Target(s))
             /\ profiles[Target(s)].account = r.account
             /\ profiles[Target(s)].version \in Nat \ {0}
             /\ NewVersion(s) = profiles[Target(s)].version + 1
  <2>1. Target(s) = found[s] /\ found[s] \in Ids
    BY <1>1, <1>6 DEF Target, Typed, TypeOK
  <2>2. Active(found[s]) /\ profiles[found[s]].account = r.account
    BY <1>1, <1>6 DEF Own, HasFound
  <2>3. profiles[found[s]].version \in Nat \ {0}
    BY <1>1, <2>1, <2>2, Rows DEF Active
  <2> QED BY <1>6, <2>1, <2>2, <2>3 DEF NewVersion
<1>7. Target(s) \in Ids /\ Target(s) # 0 /\ NewVersion(s) \in Nat \ {0}
  BY <1>4, <1>5, <1>6 DEF Ids
<1>8. \/ /\ found[s] # 0 /\ r.handle = profiles[Target(s)].handle
         /\ handles[r.handle] # None /\ handles[r.handle].profile = Target(s)
      \/ <<"handle", r.handle>> \in held[s] /\ handles[r.handle] = None
  <2>1. CASE found[s] # 0 /\ r.handle = profiles[found[s]].handle
    <3>1. r.handle \in {g \in Handles : /\ handles[g] # None
                                        /\ handles[g].profile = found[s]
                                        /\ ~handles[g].retired}
      BY <1>6, <2>1 DEF ProfilesInv, OneCurrentHandle, Active
    <3> QED BY <1>6, <2>1, <3>1
  <2> QED BY <1>1, <2>1 DEF Own, HasHandle
<1> QED BY <1>2, <1>3, <1>4, <1>5, <1>6, <1>7, <1>8

(* How the tables stand after a save.                                      *)
LEMMA SaveWrites ==
    ASSUME ProfilesInv, NEW s \in Sessions, CommitSave(s)
    PROVE  LET r == req[s] IN
           /\ profiles' \in [Ids -> Profile \cup {None}]
           /\ \A i \in Ids \ {Target(s)} : profiles'[i] = profiles[i]
           /\ profiles'[Target(s)] # None /\ profiles'[Target(s)].account = r.account
           /\ profiles'[Target(s)].handle = r.handle
           /\ profiles'[Target(s)].text = call[s]
           /\ profiles'[Target(s)].version = NewVersion(s)
           /\ handles' \in [Handles -> HandleRow \cup {None}]
           /\ handles'[r.handle] # None /\ handles'[r.handle].profile = Target(s)
           /\ ~handles'[r.handle].retired
           /\ \A g \in Handles \ {r.handle} :
                \/ handles'[g] = handles[g] /\ ~Replaced(s, g)
                \/ /\ handles[g] # None /\ handles[g].profile = Target(s)
                   /\ handles'[g] # None /\ handles'[g].profile = Target(s)
                   /\ handles'[g].retired
<1> DEFINE r == req[s]
           row == [account |-> r.account, handle |-> r.handle,
                   visibility |-> r.visibility, text |-> call[s],
                   version |-> NewVersion(s)]
           new == [profile |-> Target(s), retired |-> FALSE]
<1>1. /\ pc[s] = "commit" /\ r.kind = "save" /\ Typed
      /\ profiles' = [profiles EXCEPT ![Target(s)] = row]
      /\ handles' = [h \in Handles |->
                       IF h = r.handle THEN new
                       ELSE IF Replaced(s, h) THEN Retired(handles[h]) ELSE handles[h]]
  BY DEF CommitSave, Here, ProfilesInv
<1>2. /\ r.account \in Accounts /\ r.handle \in Handles /\ r.visibility \in Visibilities
      /\ call[s] \in Ids /\ Target(s) \in Ids /\ NewVersion(s) \in Nat \ {0}
      /\ found[s] # 0 => Target(s) = found[s]
  BY <1>1, SaveFacts
<1>3. row \in Profile /\ new \in HandleRow /\ None \notin Profile /\ None \notin HandleRow
  BY <1>1, <1>2 DEF Profile, HandleRow, Typed, ConstantsTyped
<1>4. /\ profiles' \in [Ids -> Profile \cup {None}] /\ profiles'[Target(s)] = row
      /\ \A i \in Ids \ {Target(s)} : profiles'[i] = profiles[i]
  BY <1>1, <1>2, <1>3 DEF Typed, TypeOK
<1>5. ASSUME NEW g \in Handles, Replaced(s, g)
      PROVE  /\ Retired(handles[g]) \in HandleRow /\ Retired(handles[g]).retired
             /\ Retired(handles[g]).profile = Target(s)
             /\ handles[g] # None /\ handles[g].profile = Target(s)
  <2>1. handles[g] # None /\ handles[g].profile = Target(s)
    BY <1>2, <1>5 DEF Replaced
  <2>2. handles[g] \in HandleRow
    BY <1>1, <2>1, Rows
  <2> QED BY <2>1, <2>2 DEF Retired, HandleRow
<1>6. /\ handles'[r.handle] = new
      /\ \A g \in Handles \ {r.handle} :
           handles'[g] = IF Replaced(s, g) THEN Retired(handles[g]) ELSE handles[g]
  BY <1>1, <1>2
<1>7. \A g \in Handles : handles'[g] \in HandleRow \cup {None}
  BY <1>1, <1>3, <1>5, <1>6 DEF Typed, TypeOK
<1>8. handles' \in [Handles -> HandleRow \cup {None}]
  <2>1. DOMAIN handles' = Handles /\ handles' = [h \in Handles |-> handles'[h]]
    BY <1>1
  <2> QED BY <1>7, <2>1
<1>9. \A g \in Handles \ {r.handle} :
        \/ handles'[g] = handles[g] /\ ~Replaced(s, g)
        \/ /\ handles[g] # None /\ handles[g].profile = Target(s)
           /\ handles'[g] # None /\ handles'[g].profile = Target(s)
           /\ handles'[g].retired
  BY <1>3, <1>5, <1>6
<1>10. new # None /\ row # None
  BY <1>3
<1> HIDE DEF row, new
<1>11. /\ row.account = r.account /\ row.handle = r.handle /\ row.text = call[s]
       /\ row.version = NewVersion(s) /\ new.profile = Target(s) /\ ~new.retired
  BY DEF row, new
<1> QED BY <1>4, <1>6, <1>8, <1>9, <1>10, <1>11

LEMMA CommitSaveKeeps ==
    ASSUME ProfilesInv, NEW s \in Sessions, CommitSave(s) PROVE ProfilesInv'
<1> DEFINE r == req[s]
<1>0. PICK T, n : T = Target(s) /\ n = NewVersion(s)
  OBVIOUS
<1> DEFINE entry == [profile |-> T, version |-> n, text |-> call[s]]
<1>1. /\ pc[s] = "commit" /\ r.kind = "save" /\ End(s) /\ Typed
      /\ saved' = saved \cup {entry} /\ UNCHANGED <<accounts, linked, calls>>
  BY <1>0 DEF CommitSave, Here, ProfilesInv
<1>2. /\ r \in Requests /\ r.account \in Accounts /\ r.account # None /\ r.handle \in Handles
      /\ call[s] \in 1 .. calls /\ call[s] \in Ids /\ profiles[call[s]] = None
      /\ T \in Ids /\ T # 0 /\ n \in Nat \ {0}
      /\ found[s] = 0 =>
           T = call[s] /\ n = 1 /\ ProfileOf(r.account) = {} /\ r.account \in accounts
      /\ found[s] # 0 =>
           /\ T = found[s] /\ Active(T) /\ profiles[T].account = r.account
           /\ n = profiles[T].version + 1
      /\ \/ /\ found[s] # 0 /\ r.handle = profiles[T].handle
            /\ handles[r.handle] # None /\ handles[r.handle].profile = T
         \/ <<"handle", r.handle>> \in held[s] /\ handles[r.handle] = None
  BY <1>0, <1>1, SaveFacts
<1>3. /\ profiles' \in [Ids -> Profile \cup {None}]
      /\ \A i \in Ids \ {T} : profiles'[i] = profiles[i]
      /\ profiles'[T] # None /\ profiles'[T].account = r.account
      /\ profiles'[T].handle = r.handle /\ profiles'[T].text = call[s]
      /\ profiles'[T].version = n
  BY <1>0, SaveWrites
<1>4. /\ handles' \in [Handles -> HandleRow \cup {None}]
      /\ handles'[r.handle] # None /\ handles'[r.handle].profile = T
      /\ ~handles'[r.handle].retired
      /\ \A g \in Handles \ {r.handle} :
           \/ handles'[g] = handles[g] /\ ~Replaced(s, g)
           \/ /\ handles[g] # None /\ handles[g].profile = T
              /\ handles'[g] # None /\ handles'[g].profile = T /\ handles'[g].retired
  BY <1>0, SaveWrites
<1>5. Typed'
  <2>1. \A g \in Handles : handles'[g] # None => profiles'[handles'[g].profile] # None
    BY <1>1, <1>3, <1>4 DEF Typed, TypeOK, HandleRow
  <2> QED BY <1>1, <1>3, <1>4, <2>1, Ended DEF Typed, TypeOK
<1>6. LocksApart'
  BY <1>1, Ended DEF ProfilesInv, LocksApart
<1>7. NumbersAhead'
  <2>1. ASSUME T > calls PROVE FALSE
    <3>1. profiles[T] = None
      BY <1>2, <2>1 DEF ProfilesInv, NumbersAhead
    <3>2. T = call[s]
      BY <1>2, <3>1 DEF Active
    <3>3. calls \in Nat
      BY <1>1 DEF Typed, TypeOK
    <3> QED BY <1>2, <2>1, <3>2, <3>3
  <2> QED BY <1>1, <1>3, <2>1 DEF ProfilesInv, NumbersAhead
<1>8. SavedStored'
  <2>1. entry \in [profile : Ids, version : Nat \ {0}, text : Ids] /\ entry.profile = T
    BY <1>2
  <2> HIDE DEF entry
  <2>2. \A e \in saved : e.profile \in Ids /\ profiles[e.profile] # None
    BY DEF ProfilesInv, SavedStored
  <2>3. \A e \in saved : profiles'[e.profile] # None
    BY <1>3, <2>2
  <2> QED BY <1>1, <1>3, <2>1, <2>3 DEF ProfilesInv, SavedStored
<1>9. OneCurrentHandle'
  <2> DEFINE Current(i) == {h \in Handles : /\ handles[h] # None /\ handles[h].profile = i
                                            /\ ~handles[h].retired}
             After(i) == {h \in Handles : /\ handles'[h] # None /\ handles'[h].profile = i
                                          /\ ~handles'[h].retired}
  <2>1. ASSUME NEW i \in Ids \ {T}, profiles[i] # None PROVE After(i) = {profiles'[i].handle}
    <3>1. Current(i) = {profiles[i].handle}
      BY <2>1 DEF ProfilesInv, OneCurrentHandle
    <3>2. r.handle \notin Current(i) /\ r.handle \notin After(i)
      BY <1>2, <1>4
    <3>3. ASSUME NEW g \in Handles \ {r.handle} PROVE g \in After(i) <=> g \in Current(i)
      <4>1. CASE handles'[g] = handles[g]
        BY <4>1
      <4>2. CASE handles[g].profile = T /\ handles'[g].profile = T
        BY <4>2
      <4> QED BY <1>4, <4>1, <4>2
    <3>4. After(i) = Current(i)
      BY <3>2, <3>3
    <3> QED BY <1>3, <3>1, <3>4
  <2>2. After(T) = {r.handle}
    <3>1. r.handle \in After(T)
      BY <1>2, <1>4
    <3>2. ASSUME NEW g \in Handles \ {r.handle}, g \in After(T) PROVE FALSE
      <4>1. handles'[g] = handles[g] /\ ~Replaced(s, g)
        BY <1>4, <3>2
      <4>2. handles[g] # None /\ handles[g].profile = T /\ ~handles[g].retired
        BY <3>2, <4>1
      <4>3. profiles[T] # None
        BY <1>1, <4>2, Rows
      <4>4. found[s] # 0 /\ T = found[s]
        BY <1>2, <4>3
      <4> QED BY <3>2, <4>1, <4>2, <4>4 DEF Replaced
    <3> QED BY <3>1, <3>2
  <2> QED BY <1>3, <2>1, <2>2 DEF OneCurrentHandle
<1>10. DeletionComplete'
  <2>1. /\ \A i \in Ids \ {T} : (Active(i)' => Active(i)) /\ (Active(i) => Active(i)')
        /\ Active(T)'
    <3>1. Active(T)'
      BY <1>2, <1>3 DEF Active
    <3>2. ASSUME NEW i \in Ids \ {T}
          PROVE  (Active(i)' => Active(i)) /\ (Active(i) => Active(i)')
      <4>1. profiles'[i] = profiles[i]
        BY <1>3
      <4> QED BY <4>1 DEF Active
    <3> QED BY <3>1, <3>2
  <2>2. r.account \in accounts
    BY <1>2 DEF ProfilesInv, DeletionComplete
  <2>3. ASSUME NEW j \in Ids \ {T}, Active(j), profiles[j].account = r.account PROVE FALSE
    <3>1. j \in ProfileOf(r.account)
      BY <2>3 DEF ProfileOf
    <3> QED BY <1>2, <2>3, <3>1 DEF ProfilesInv, DeletionComplete
  <2>4. ASSUME NEW i \in Ids, Active(i)' PROVE profiles'[i].account \in accounts'
    BY <1>1, <1>3, <2>1, <2>2, <2>4 DEF ProfilesInv, DeletionComplete
  <2>5. ASSUME NEW i \in Ids, NEW j \in Ids, Active(i)', Active(j)',
               profiles'[i].account = profiles'[j].account
        PROVE  i = j
    BY <1>3, <2>1, <2>3, <2>5 DEF ProfilesInv, DeletionComplete
  <2>6. ASSUME NEW i \in Ids, profiles'[i] # None, ~Active(i)'
        PROVE  /\ profiles'[i].text = 0 /\ profiles'[i].visibility = "private"
               /\ i \notin linked'
    <3>1. i # T /\ ~Active(i) /\ profiles'[i] = profiles[i]
      BY <1>3, <2>1, <2>6
    <3> QED BY <1>1, <2>6, <3>1 DEF ProfilesInv, DeletionComplete
  <2> QED BY <2>4, <2>5, <2>6 DEF DeletionComplete
<1>11. SavesInOrder'
  <2>1. entry.profile = T /\ entry.version = n /\ entry.text = call[s]
    OBVIOUS
  <2>2. entry = [profile |-> T, version |-> profiles'[T].version, text |-> profiles'[T].text]
    BY <1>3
  <2> HIDE DEF entry
  <2>3. ASSUME NEW e \in saved, e.profile = T PROVE e.version # n
    <3>1. found[s] # 0 /\ Active(T) /\ n = profiles[T].version + 1
      BY <1>2, <2>3 DEF ProfilesInv, SavedStored
    <3>2. e.version \in 1 .. profiles[T].version
      BY <1>2, <2>3, <3>1 DEF ProfilesInv, SavesInOrder
    <3>3. profiles[T].version \in Nat
      BY <1>1, <1>2, <3>1, Rows DEF Active
    <3> QED BY <3>1, <3>2, <3>3
  <2>4. \A e, f \in saved' : e.profile = f.profile /\ e.version = f.version => e = f
    BY <1>1, <2>1, <2>3 DEF ProfilesInv, SavesInOrder
  <2>5. {e.version : e \in {f \in saved' : f.profile = T}} = 1 .. n
    <3> DEFINE old == {e.version : e \in {f \in saved : f.profile = T}}
    <3>1. {e.version : e \in {f \in saved' : f.profile = T}} = old \cup {n}
      BY <1>1, <2>1
    <3>2. CASE found[s] = 0
      <4>1. \A e \in saved : e.profile # T
        BY <1>2, <3>2 DEF ProfilesInv, SavedStored
      <4>2. old = {}
        BY <4>1
      <4>3. 1 .. 1 = {1}
        OBVIOUS
      <4> QED BY <1>2, <3>1, <3>2, <4>2, <4>3
    <3>3. CASE found[s] # 0
      <4>1. old = 1 .. profiles[T].version
        BY <1>2, <3>3 DEF ProfilesInv, SavesInOrder
      <4>2. profiles[T].version \in Nat
        BY <1>1, <1>2, <3>3, Rows DEF Active
      <4> HIDE DEF old
      <4>3. (1 .. profiles[T].version) \cup {profiles[T].version + 1}
              = 1 .. profiles[T].version + 1
        BY <4>2
      <4> QED BY <1>2, <3>1, <3>3, <4>1, <4>3
    <3> QED BY <3>2, <3>3
  <2>6. ASSUME NEW i \in Ids \ {T}, Active(i)'
        PROVE  /\ {e.version : e \in {f \in saved' : f.profile = i}}
                    = 1 .. profiles'[i].version
               /\ [profile |-> i, version |-> profiles'[i].version,
                   text |-> profiles'[i].text] \in saved'
    <3>1. Active(i) /\ profiles'[i] = profiles[i]
      BY <1>3, <2>6 DEF Active
    <3>2. {f \in saved' : f.profile = i} = {f \in saved : f.profile = i}
      BY <1>1, <2>1
    <3> QED BY <1>1, <3>1, <3>2 DEF ProfilesInv, SavesInOrder
  <2>7. entry \in saved'
    BY <1>1
  <2> QED BY <1>3, <2>2, <2>4, <2>5, <2>6, <2>7 DEF SavesInOrder
<1>12. \A t \in Sessions : Own(t)'
  <2>1. ASSUME NEW t \in Sessions \ {s}
        PROVE  /\ found[t] # T
               /\ pc[t] # "idle" => call[t] # T
               /\ /\ pc[t] \in {"write", "commit"} /\ req[t].kind = "save"
                  /\ handles[req[t].handle] = None
                  /\ <<"handle", req[t].handle>> \in held[t]
                  => handles'[req[t].handle] = None
               /\ pc[t] \in {"handle", "commit"} /\ found[t] = 0 =>
                    profiles'[T].account # req[t].account
    <3>1. Own(t) /\ Own(s) /\ t # s
      BY DEF ProfilesInv
    <3>2. found[t] # T
      BY <1>1, <1>2, <3>1, Apart DEF Own, HasFound, Active
    <3>3. pc[t] # "idle" => call[t] # T
      BY <1>1, <1>2, <3>1 DEF Own, UnderWay, Active
    <3>4. ASSUME pc[t] \in {"write", "commit"}, handles[req[t].handle] = None,
                 <<"handle", req[t].handle>> \in held[t]
          PROVE  handles'[req[t].handle] = None
      <4>1. req[t] \in Requests
        BY <3>1, <3>4 DEF Own, UnderWay
      <4>2. req[t].handle \in Handles
        BY <1>1, <4>1, RequestFields DEF Typed
      <4>3. req[t].handle # r.handle
        BY <1>2, <3>1, <3>4 DEF ProfilesInv, LocksApart, Conflicts
      <4> QED BY <1>4, <3>4, <4>2, <4>3
    <3>5. ASSUME pc[t] \in {"handle", "commit"}, found[t] = 0
          PROVE  req[t].account # r.account
      <4>1. CASE found[s] = 0
        BY <1>1, <3>5, <4>1, Apart
      <4>2. CASE found[s] # 0
        <5>1. T \in ProfileOf(r.account)
          BY <1>2, <4>2 DEF ProfileOf
        <5>2. req[t].kind \in {"save", "delete"}
          BY <1>1, <3>1, <3>5, RequestFields DEF Own, UnderWay, Typed
        <5>3. req[t].kind = "delete" => pc[t] = "commit"
          BY <3>1, <3>5 DEF Own, UnderWay
        <5>4. ProfileOf(req[t].account) = {}
          BY <3>1, <3>5, <5>2, <5>3 DEF Own, Publishes, Deletes
        <5> QED BY <5>1, <5>4
      <4> QED BY <4>1, <4>2
    <3> QED BY <1>3, <3>2, <3>3, <3>4, <3>5
  <2>2. \A t \in Sessions \ {s} :
          /\ found[t] = T => T = 0
          /\ pc[t] # "idle" => call[t] # T
          /\ /\ pc[t] \in {"write", "commit"} /\ req[t].kind = "save"
             /\ handles[req[t].handle] = None
             /\ <<"handle", req[t].handle>> \in held[t]
             => handles'[req[t].handle] = None
          /\ pc[t] \in {"handle", "commit"} /\ found[t] = 0 =>
               /\ req[t].kind = "save" /\ req[t].account \in accounts =>
                    req[t].account \in accounts'
               /\ T # 0 /\ profiles'[T] # None => profiles'[T].account # req[t].account
    BY <1>1, <2>1
  <2>3. T \in Ids \cup {0} /\ calls' = calls /\ End(s)
    BY <1>1, <1>2
  <2> QED BY <1>3, <2>2, <2>3, OthersKeep
<1> QED BY <1>5, <1>6, <1>7, <1>8, <1>9, <1>10, <1>11, <1>12 DEF ProfilesInv

(* What the deletion leaves of a row: its handle and nothing of its owner. *)
LEMMA ErasedRow ==
    ASSUME NEW row \in Profile
    PROVE  /\ Erased(row) \in Profile
           /\ Erased(row).account = None /\ Erased(row).text = 0
           /\ Erased(row).handle = row.handle
           /\ Erased(row).visibility = "private"
<1> DEFINE r1 == [row EXCEPT !.account = None]
           r2 == [r1 EXCEPT !.visibility = "private"]
           r3 == [r2 EXCEPT !.text = 0]
           r4 == [r3 EXCEPT !.version = row.version + 1]
<1>1. row.version + 1 \in Nat \ {0} /\ "private" \in Visibilities
  BY DEF Profile, Visibilities
<1>2. r1 \in Profile /\ r1.account = None /\ r1.handle = row.handle
        /\ r1.version = row.version
  BY DEF Profile
<1>3. r2 \in Profile /\ r2.account = None /\ r2.handle = row.handle
        /\ r2.visibility = "private" /\ r2.version = row.version
  <2> HIDE DEF r1
  <2> QED BY <1>1, <1>2 DEF Profile
<1>4. r3 \in Profile /\ r3.account = None /\ r3.handle = row.handle
        /\ r3.visibility = "private" /\ r3.text = 0 /\ r3.version = row.version
  <2> HIDE DEF r2
  <2> QED BY <1>3 DEF Profile
<1>5. r4 \in Profile /\ r4.account = None /\ r4.handle = row.handle
        /\ r4.visibility = "private" /\ r4.text = 0
  <2> HIDE DEF r3
  <2> QED BY <1>1, <1>4 DEF Profile
<1>6. Erased(row) = r4
  <2>1. r3.version = row.version
    BY <1>4
  <2>2. Erased(row) = [r3 EXCEPT !.version = r3.version + 1]
    BY DEF Erased
  <2> QED BY <2>1, <2>2
<1> QED BY <1>5, <1>6

LEMMA CommitDeleteKeeps ==
    ASSUME ProfilesInv, NEW s \in Sessions, CommitDelete(s) PROVE ProfilesInv'
<1>0. PICK a, F : a = req[s].account /\ F = found[s]
  OBVIOUS
<1>1. /\ pc[s] = "commit" /\ req[s].kind = "delete" /\ End(s) /\ Typed /\ Own(s)
      /\ accounts' = accounts \ {a}
      /\ profiles' = IF F = 0 THEN profiles ELSE [profiles EXCEPT ![F] = Erased(@)]
      /\ linked' = linked \ {F} /\ UNCHANGED <<handles, calls, saved>>
  BY <1>0 DEF CommitDelete, Here, ProfilesInv
<1>2. /\ F \in Ids \cup {0} /\ 0 \notin Ids
      /\ F = 0 => ProfileOf(a) = {}
      /\ F # 0 => F \in Ids /\ Active(F) /\ profiles[F].account = a
  BY <1>0, <1>1 DEF Own, Deletes, HasFound, Typed, TypeOK, Ids
<1>3. /\ profiles' \in [Ids -> Profile \cup {None}]
      /\ \A i \in Ids \ {F} : profiles'[i] = profiles[i]
      /\ F # 0 => /\ profiles'[F] # None /\ profiles'[F].account = None
                  /\ profiles'[F].handle = profiles[F].handle
                  /\ profiles'[F].text = 0 /\ profiles'[F].visibility = "private"
  <2>1. CASE F = 0
    BY <1>1, <2>1 DEF Typed, TypeOK
  <2>2. CASE F # 0
    <3>1. profiles[F] \in Profile /\ profiles[F].version \in Nat \ {0}
      BY <1>1, <1>2, <2>2, Rows DEF Active
    <3>2. /\ Erased(profiles[F]) \in Profile
          /\ Erased(profiles[F]).account = None /\ Erased(profiles[F]).text = 0
          /\ Erased(profiles[F]).handle = profiles[F].handle
          /\ Erased(profiles[F]).visibility = "private"
      BY <3>1, ErasedRow
    <3>3. profiles' = [profiles EXCEPT ![F] = Erased(profiles[F])]
      BY <1>1, <2>2
    <3>4. None \notin Profile
      BY <1>1 DEF Typed, ConstantsTyped
    <3> QED BY <1>1, <1>2, <2>2, <3>2, <3>3, <3>4 DEF Typed, TypeOK
  <2> QED BY <2>1, <2>2
<1>4. ASSUME NEW i \in Ids, Active(i)'
      PROVE  i # F /\ Active(i) /\ profiles'[i] = profiles[i]
  BY <1>2, <1>3, <1>4 DEF Active
<1>5. ASSUME NEW i \in Ids PROVE profiles[i] # None => profiles'[i] # None
  BY <1>2, <1>3
<1>6. Typed'
  <2>1. \A h \in Handles : handles'[h] # None => profiles'[handles'[h].profile] # None
    BY <1>1, <1>5, Rows
  <2>2. accounts' \subseteq Accounts /\ linked' \subseteq Ids
    BY <1>1 DEF Typed, TypeOK
  <2> QED BY <1>1, <1>3, <2>1, <2>2, Ended DEF Typed, TypeOK
<1>7. LocksApart'
  BY <1>1, Ended DEF ProfilesInv, LocksApart
<1>8. NumbersAhead'
  BY <1>1, <1>2, <1>3 DEF ProfilesInv, NumbersAhead, Active
<1>9. SavedStored'
  BY <1>1, <1>5 DEF ProfilesInv, SavedStored
<1>10. OneCurrentHandle'
  <2>1. ASSUME NEW i \in Ids, profiles'[i] # None
        PROVE  profiles[i] # None /\ profiles'[i].handle = profiles[i].handle
    BY <1>2, <1>3, <2>1 DEF Active
  <2> QED BY <1>1, <2>1 DEF ProfilesInv, OneCurrentHandle
<1>11. SavesInOrder'
  BY <1>1, <1>4 DEF ProfilesInv, SavesInOrder
<1>12. DeletionComplete'
  <2>1. ASSUME NEW i \in Ids, Active(i)' PROVE profiles'[i].account \in accounts'
    <3>1. Active(i) /\ profiles'[i] = profiles[i] /\ i # F
      BY <1>4, <2>1
    <3>2. profiles[i].account \in accounts
      BY <3>1 DEF ProfilesInv, DeletionComplete
    <3>3. profiles[i].account # a
      <4>1. SUFFICES ASSUME profiles[i].account = a PROVE FALSE
        OBVIOUS
      <4>2. i \in ProfileOf(a)
        BY <3>1, <4>1 DEF ProfileOf
      <4>3. F # 0 => i = F
        BY <1>2, <3>1, <4>1 DEF ProfilesInv, DeletionComplete
      <4> QED BY <1>2, <3>1, <4>2, <4>3
    <3> QED BY <1>1, <3>1, <3>2, <3>3
  <2>2. ASSUME NEW i \in Ids, NEW j \in Ids, Active(i)', Active(j)',
               profiles'[i].account = profiles'[j].account
        PROVE  i = j
    BY <1>4, <2>2 DEF ProfilesInv, DeletionComplete
  <2>3. ASSUME NEW i \in Ids, profiles'[i] # None, ~Active(i)'
        PROVE  /\ profiles'[i].text = 0 /\ profiles'[i].visibility = "private"
               /\ i \notin linked'
    <3>1. CASE i = F
      BY <1>1, <1>2, <1>3, <3>1
    <3>2. CASE i # F
      <4>1. profiles'[i] = profiles[i] /\ profiles[i] # None /\ ~Active(i)
        BY <1>3, <2>3, <3>2 DEF Active
      <4> QED BY <1>1, <4>1 DEF ProfilesInv, DeletionComplete
    <3> QED BY <3>1, <3>2
  <2> QED BY <2>1, <2>2, <2>3 DEF DeletionComplete
<1>13. \A t \in Sessions : Own(t)'
  <2>1. ASSUME NEW t \in Sessions \ {s}
        PROVE  /\ found[t] = F => F = 0
               /\ pc[t] # "idle" => call[t] # F
               /\ pc[t] \in {"handle", "commit"} /\ found[t] = 0 =>
                    (req[t].kind = "save" /\ req[t].account \in accounts
                       => req[t].account \in accounts')
               /\ F # 0 /\ profiles'[F] # None /\ pc[t] \in {"handle", "commit"} =>
                    profiles'[F].account # req[t].account
    <3>1. Own(t)
      BY DEF ProfilesInv
    <3>2. found[t] = F => F = 0
      BY <1>0, <1>1, Apart
    <3>3. ASSUME pc[t] # "idle" PROVE call[t] # F
      <4>1. call[t] \in 1 .. calls /\ profiles[call[t]] = None
        BY <3>1, <3>3 DEF Own, UnderWay
      <4>2. calls \in Nat
        BY <1>1 DEF Typed, TypeOK
      <4> QED BY <1>2, <4>1, <4>2 DEF Active
    <3>4. pc[t] \in {"handle", "commit"} /\ found[t] = 0 =>
            (req[t].kind = "save" /\ req[t].account \in accounts
               => req[t].account \in accounts')
      BY <1>0, <1>1, Apart
    <3>5. ASSUME F # 0, pc[t] \in {"handle", "commit"}
          PROVE  profiles'[F].account # req[t].account
      <4>1. req[t] \in Requests
        BY <3>1, <3>5 DEF Own, UnderWay
      <4>2. req[t].account # None
        BY <1>1, <4>1, RequestFields DEF Typed
      <4> QED BY <1>3, <3>5, <4>2
    <3> QED BY <3>2, <3>3, <3>4, <3>5
  <2>2. \A t \in Sessions \ {s} :
          /\ found[t] = F => F = 0
          /\ pc[t] # "idle" => call[t] # F
          /\ /\ pc[t] \in {"write", "commit"} /\ req[t].kind = "save"
             /\ handles[req[t].handle] = None
             /\ <<"handle", req[t].handle>> \in held[t]
             => handles'[req[t].handle] = None
          /\ pc[t] \in {"handle", "commit"} /\ found[t] = 0 =>
               /\ req[t].kind = "save" /\ req[t].account \in accounts =>
                    req[t].account \in accounts'
               /\ F # 0 /\ profiles'[F] # None => profiles'[F].account # req[t].account
    BY <1>1, <2>1
  <2>3. F \in Ids \cup {0} /\ calls' = calls /\ End(s)
    BY <1>1, <1>2
  <2> QED BY <1>3, <2>2, <2>3, OthersKeep
<1> QED BY <1>6, <1>7, <1>8, <1>9, <1>10, <1>11, <1>12, <1>13 DEF ProfilesInv

LEMMA LinkKeeps == ASSUME ProfilesInv, NEW i \in Ids, Link(i) PROVE ProfilesInv'
<1>1. /\ Active(i) /\ linked' = linked \cup {i}
      /\ UNCHANGED <<accounts, profiles, handles, calls, pc, req, call, found, held, saved>>
  BY DEF Link, session
<1>2. Typed' /\ LocksApart' /\ NumbersAhead' /\ SavedStored'
  BY <1>1 DEF ProfilesInv, Typed, TypeOK, LocksApart, NumbersAhead, SavedStored
<1>3. OneCurrentHandle' /\ SavesInOrder' /\ DeletionComplete'
  BY <1>1 DEF ProfilesInv, OneCurrentHandle, SavesInOrder, DeletionComplete, Active
<1>4. ASSUME NEW s \in Sessions PROVE Own(s)'
  <2>1. Own(s)
    BY DEF ProfilesInv
  <2> QED BY <1>1, <2>1 DEF Own, UnderWay, HasFound, HasHandle, Publishes, Deletes, Active,
                            ProfileOf
<1> QED BY <1>2, <1>3, <1>4 DEF ProfilesInv

LEMMA ProfilesInit == ASSUME ConstantsTyped, Init PROVE ProfilesInv
<1>1. Typed
  <2>1. 0 \in 0 .. MaxCalls
    BY DEF ConstantsTyped
  <2> QED BY <2>1 DEF Typed, TypeOK, Init, Places
<1>2. LocksApart /\ NumbersAhead /\ SavedStored
  BY DEF Init, LocksApart, NumbersAhead, SavedStored
<1>3. OneCurrentHandle /\ SavesInOrder /\ DeletionComplete
  BY DEF Init, OneCurrentHandle, SavesInOrder, DeletionComplete, Active
<1>4. ASSUME NEW s \in Sessions PROVE Own(s)
  BY DEF Init, Own, UnderWay, HasFound, HasHandle, Publishes, Deletes
<1> QED BY <1>1, <1>2, <1>3, <1>4 DEF ProfilesInv

LEMMA SaveKeeps == ASSUME ProfilesInv, NEW s \in Sessions, Save(s) PROVE ProfilesInv'
BY EnterKeeps, FindNoneKeeps, FindProfileKeeps, ClaimKeeps, InsertProfileKeeps,
   InsertHandleKeeps, UpdateProfileKeeps, CommitSaveKeeps DEF Save

LEMMA DeleteKeeps == ASSUME ProfilesInv, NEW s \in Sessions, Delete(s) PROVE ProfilesInv'
BY LockAccountKeeps, TombstoneKeeps, CommitDeleteKeeps DEF Delete

LEMMA StillKeeps == ASSUME ProfilesInv, UNCHANGED vars PROVE ProfilesInv'
<1>1. UNCHANGED <<accounts, profiles, handles, linked, calls, pc, req, call, found, held, saved>>
  BY DEF vars
<1>2. Typed' /\ LocksApart' /\ NumbersAhead' /\ SavedStored'
  BY <1>1 DEF ProfilesInv, Typed, TypeOK, LocksApart, NumbersAhead, SavedStored
<1>3. OneCurrentHandle' /\ SavesInOrder' /\ DeletionComplete'
  BY <1>1 DEF ProfilesInv, OneCurrentHandle, SavesInOrder, DeletionComplete, Active
<1>4. ASSUME NEW s \in Sessions PROVE Own(s)'
  <2>1. Own(s)
    BY DEF ProfilesInv
  <2> QED BY <1>1, <2>1 DEF Own, UnderWay, HasFound, HasHandle, Publishes, Deletes, Active,
                            ProfileOf
<1> QED BY <1>2, <1>3, <1>4 DEF ProfilesInv

LEMMA ProfilesStep == ASSUME ProfilesInv, [Next]_vars PROVE ProfilesInv'
<1>1. ASSUME NEW s \in Sessions, Call(s) \/ Save(s) \/ Delete(s) \/ Lose(s)
      PROVE  ProfilesInv'
  BY <1>1, CallKeeps, SaveKeeps, DeleteKeeps, RefuseKeeps DEF Lose
<1>2. ASSUME NEW i \in Ids, Link(i) PROVE ProfilesInv'
  BY <1>2, LinkKeeps
<1> QED BY <1>1, <1>2, StillKeeps DEF Next

(* Only the commit of a save writes a handle, and it writes its own or one *)
(* that no profile had.                                                    *)
LEMMA HandlesStay ==
    ASSUME ProfilesInv, [Next]_vars, NEW h \in Handles, handles[h] # None
    PROVE  handles'[h] # None /\ handles'[h].profile = handles[h].profile
<1>1. ASSUME NEW s \in Sessions, CommitSave(s)
      PROVE  handles'[h] # None /\ handles'[h].profile = handles[h].profile
  <2>1. pc[s] = "commit" /\ req[s].kind = "save"
    BY <1>1 DEF CommitSave, Here
  <2>2. h = req[s].handle => handles[h].profile = Target(s)
    BY <2>1, SaveFacts
  <2> QED BY <1>1, <2>2, SaveWrites
<1>2. ASSUME NEW s \in Sessions, Call(s) \/ Save(s) \/ Delete(s) \/ Lose(s), ~CommitSave(s)
      PROVE  handles' = handles
  BY <1>2 DEF Call, Save, Delete, Lose, Refuse, Enter, FindNone, FindProfile, Claim,
              InsertProfile, InsertHandle, UpdateProfile, LockAccount, Tombstone,
              CommitDelete, tables
<1>3. ASSUME NEW i \in Ids, Link(i) PROVE handles' = handles
  BY <1>3 DEF Link
<1> QED BY <1>1, <1>2, <1>3 DEF Next, vars

LEMMA AddressesStep == ASSUME ProfilesInv, [Next]_vars PROVE AddressesKept
BY HandlesStay DEF AddressesKept, ReadBy
=============================================================================
