-------------------------- MODULE MCActivityRetry --------------------------
(* Two sessions serve one account that retries, reuses a key for another   *)
(* request, and asks for the same things under different keys.             *)
EXTENDS ActivityCommands

CONSTANTS alice, lab, garage, erdos, k1, k2, c1, s1, s2

Ask(kind, ws, key, anchor, value) ==
    [account |-> alice, ws |-> ws, key |-> key, kind |-> kind,
     anchor |-> anchor, approach |-> 0, attempt |-> 0, draft |-> 0,
     value |-> value, expected |-> 0]

MCGranted == {<<alice, lab>>}

MCRequests ==
    {Ask("follow.set", lab, k1, erdos, "following"),
     Ask("follow.set", lab, k2, erdos, "following"),
     Ask("follow.set", lab, k2, erdos, "unfollowed"),
     Ask("artifact.attach", lab, k1, erdos, c1),
     Ask("artifact.attach", lab, k2, erdos, c1),
     Ask("crdt_update.append", lab, k2, erdos, c1),
     Ask("crdt_update.append", lab, k1, erdos, c1),
     Ask("workspace.create", garage, k1, None, c1),
     Ask("workspace.create", garage, k2, None, c1),
     Ask("follow.set", garage, k2, erdos, "following")}
=============================================================================
