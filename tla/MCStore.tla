------------------------------ MODULE MCStore ------------------------------
(* Instances for TLC of PlatformKVHot and of SessionNonces over it.  A      *)
(* behaviour is one of the two, chosen at the start: any requests on one    *)
(* key, or the logins and logouts of one user.                              *)
EXTENDS SessionNonces, TLC

CONSTANTS c1, c2, c3

MCClients == {c1, c2, c3}
MCValues == SUBSET MCClients
MCEmpty == {}
\* Too big to be cached; a user's entry never is.
MCBig == {MCClients}

VARIABLE focus

storeVars == <<vars, focus>>

\* Of the values, the plain requests use a small and the big one.
PlainSet == \A t \in Threads : th'[t].at = "set" => th'[t].val \in {{c3}, MCClients}

StoreInit == Init /\ focus \in {"plain", "sessions"}

StoreNext ==
    /\ \/ focus = "plain" /\ KVNext /\ PlainSet /\ UNCHANGED <<want, online, excused>>
       \/ focus = "sessions" /\ Next
    /\ UNCHANGED focus

StoreSpec == StoreInit /\ [][StoreNext]_storeVars

\* Without what no later step reads: the value of a thread that is idle or a plain
\* one that got it, the clock of one that does not dial any more, a session's quiet.
LiveThread(c) == CASE th[c].at = "idle" -> "idle"
                   [] th[c].at = "got" -> IF focus = "plain" THEN "idle" ELSE <<"got", th[c].val>>
                   [] th[c].at \in {"set", "filling", "mirroring"} -> <<th[c].at, th[c].val>>
                   [] OTHER -> th[c]
LiveView ==
    <<focus, store, cache, [c \in Clients |-> LiveThread(c)], racy,
      IF focus = "plain" THEN quiet ELSE <<want, online, excused>>>>

Symmetry == Permutations({c1, c2})
=============================================================================
