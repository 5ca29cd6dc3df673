--------------------------- MODULE SessionRegistry ---------------------------
(***************************************************************************)
(* What the session store (internal/session) promises its callers, without *)
(* Redis: a session is granted at most once, ends only after somebody has  *)
(* asked for its end (or its lifetime is over), and never comes back.      *)
(***************************************************************************)
CONSTANT Sid                    \* session ids; each is generated once (uuid)

VARIABLES
    granted,                    \* sessions whose Register has returned nil
    doomed,                     \* sessions somebody asked to end, or lapsed
    live                        \* granted sessions that Validate accepts

rvars == <<granted, doomed, live>>

RInit == granted = {} /\ doomed = {} /\ live = {}

(* A doomed session may end at once, later, or, if the call that dooms it   *)
(* fails, never.                                                            *)
EndSome(S) == \E T \in SUBSET doomed' : live' = S \ T

(* A login grants a new session. It may be doomed already: a revoke-all may *)
(* have seen it while its registration was still running.                   *)
Grant(s) ==
    /\ s \notin granted
    /\ granted' = granted \cup {s}
    /\ doomed' = doomed
    /\ EndSome(live \cup {s})

(* A logout, a revoke-all or the clock turns against the sessions S.        *)
Doom(S) ==
    /\ granted' = granted
    /\ doomed' = doomed \cup S
    /\ EndSome(live)

RNext == (\E s \in Sid : Grant(s)) \/ (\E S \in SUBSET Sid : Doom(S))

RSpec == RInit /\ [][RNext]_rvars
==============================================================================
