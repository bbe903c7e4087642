----------------------------- MODULE RequestPath -----------------------------
(***************************************************************************)
(* The way of a GET request through the two caches: AccessGuard keeps the  *)
(* answer "is active" of the user table, AppCacheInterceptor the responses *)
(* of the handlers.  Each await is a step, so that a status or data change *)
(* can fall between reading the database and filling a cache; nothing      *)
(* deletes an entry when its source changes, entries only expire.          *)
(*                                                                         *)
(* A definition marked SLIP is not the code's: it is the one after it with *)
(* a mistake such code invites, kept to see that a property notices it.    *)
(***************************************************************************)
EXTENDS Integers

CONSTANTS Requests, Users,
          None,
          AccessTtl,      \* cacheTtl of AccessGuard, in ticks
          ResponseTtl,    \* how long CacheModule keeps an entry by default
          Delay           \* ticks a request may take from reading the
                          \* database to filling the cache

ASSUME DurationsAssumption == /\ AccessTtl \in Nat \ {0}
                              /\ ResponseTtl \in Nat \ {0}
                              /\ Delay \in Nat

\* A response: whose data it shows, and since when these are outdated: 0 while
\* they are not, else the ticks since they changed, plus one.
Response == [of: Users, outdated: 0..(ResponseTtl + Delay + 1)]

\* url: "me" for URLs with /me, keyed by user; "list" for all others.
Request == [user: Users, url: {"me", "list"}]
CacheKeys == {"me"} \X Users \cup {<<"list">>}

ASSUME RequestNone == None \notin Request \cup Response

VARIABLES
    active,      \* user.status = Active
    access,      \* per user: ticks the cached "true" is still good, 0 for none
                 \* (a cached "false" is read like no entry)
    cache, left, \* per key: the cached response or None; ticks it is good
    pc, request, \* per request: next step, and what was asked
    answer,      \* the response its handler has built
    took,        \* ticks since it read the database
    since        \* history: ticks since the user was blocked

vars == <<active, access, cache, left, pc, request, answer, took, since>>
caches == <<access, cache, left>>

SinceLimit == AccessTtl + Delay + 1

Init == /\ active = [u \in Users |-> TRUE]
        /\ access = [u \in Users |-> 0]
        /\ cache = [k \in CacheKeys |-> None]
        /\ left = [k \in CacheKeys |-> 0]
        /\ pc = [r \in Requests |-> "idle"]
        /\ request = [r \in Requests |-> None]
        /\ answer = [r \in Requests |-> None]
        /\ took = [r \in Requests |-> 0]
        /\ since = [u \in Users |-> 0]

-----------------------------------------------------------------------------
(* AccessGuard.validate.                                                   *)

Goto(r, step) == pc' = [pc EXCEPT ![r] = step]

End(r) == /\ Goto(r, "idle")
          /\ request' = [request EXCEPT ![r] = None]
          /\ answer' = [answer EXCEPT ![r] = None]
          /\ took' = [took EXCEPT ![r] = 0]

RenewingArrive(r, q) ==                                      \* SLIP
    /\ pc[r] = "idle"
    /\ request' = [request EXCEPT ![r] = q]
    /\ access' = [access EXCEPT ![q.user] = IF @ > 0 THEN AccessTtl ELSE @]
    /\ Goto(r, IF access[q.user] > 0 THEN "lookup" ELSE "status")
    /\ UNCHANGED <<active, cache, left, answer, took, since>>

Arrive(r, q) ==
    /\ pc[r] = "idle"
    /\ request' = [request EXCEPT ![r] = q]
    /\ Goto(r, IF access[q.user] > 0 THEN "lookup" ELSE "status")
    /\ UNCHANGED <<active, caches, answer, took, since>>

ReadStatus(r) ==
    /\ pc[r] = "status"
    /\ Goto(r, IF active[request[r].user] THEN "admit" ELSE "deny")
    /\ took' = [took EXCEPT ![r] = 0]
    /\ UNCHANGED <<active, caches, request, answer, since>>

Admit(r) == /\ pc[r] = "admit"
            /\ access' = [access EXCEPT ![request[r].user] = AccessTtl]
            /\ took' = [took EXCEPT ![r] = 0]
            /\ Goto(r, "lookup")
            /\ UNCHANGED <<active, cache, left, request, answer, since>>

Deny(r) == /\ pc[r] = "deny"
           /\ access' = [access EXCEPT ![request[r].user] = 0]
           /\ End(r)
           /\ UNCHANGED <<active, cache, left, since>>

-----------------------------------------------------------------------------
(* AppCacheInterceptor: trackBy chooses the key, CacheInterceptor the rest. *)

TrackBy(q) == IF q.url = "me" THEN <<"me", q.user>> ELSE <<"list">>

Lookup(r) ==
    /\ pc[r] = "lookup"
    /\ \/ /\ cache[TrackBy(request[r])] # None
          /\ End(r)
       \/ /\ cache[TrackBy(request[r])] = None
          /\ Goto(r, "handle")
          /\ UNCHANGED <<request, answer, took>>
    /\ UNCHANGED <<active, caches, since>>

Handle(r) == /\ pc[r] = "handle"
             /\ answer' = [answer EXCEPT ![r] = [of |-> request[r].user, outdated |-> 0]]
             /\ took' = [took EXCEPT ![r] = 0]
             /\ Goto(r, "store")
             /\ UNCHANGED <<active, caches, request, since>>

Store(r) == /\ pc[r] = "store"
            /\ cache' = [cache EXCEPT ![TrackBy(request[r])] = answer[r]]
            /\ left' = [left EXCEPT ![TrackBy(request[r])] = ResponseTtl]
            /\ End(r)
            /\ UNCHANGED <<active, access, since>>

-----------------------------------------------------------------------------
(* What happens beside the requests.                                       *)

\* UsersService.setStatus writes the user table and leaves the caches alone.
SetStatus(u, status) ==
    /\ active' = [active EXCEPT ![u] = status]
    /\ since' = [since EXCEPT ![u] = IF status = active[u] THEN @ ELSE 0]
    /\ UNCHANGED <<caches, pc, request, answer, took>>

\* A POST, PUT, PATCH or DELETE of u is not cached and clears no entry.
Outdate(x, u) ==
    IF x # None /\ x.of = u /\ x.outdated = 0 THEN [x EXCEPT !.outdated = 1] ELSE x

Change(u) == /\ cache' = [k \in CacheKeys |-> Outdate(cache[k], u)]
             /\ answer' = [r \in Requests |-> Outdate(answer[r], u)]
             /\ UNCHANGED <<active, access, left, pc, request, took, since>>

Older(x) == IF x # None /\ x.outdated > 0 THEN [x EXCEPT !.outdated = @ + 1] ELSE x

NeverExpires(n) == n                                         \* SLIP
Expire(n) == IF n > 0 THEN n - 1 ELSE 0

\* No request takes more than Delay from the database to the cache.
Tick == /\ \A r \in Requests : pc[r] \in {"admit", "deny", "store"} => took[r] < Delay
        /\ access' = [u \in Users |-> Expire(access[u])]
        /\ left' = [k \in CacheKeys |-> Expire(left[k])]
        /\ cache' = [k \in CacheKeys |->
                       IF Expire(left[k]) > 0 THEN Older(cache[k]) ELSE None]
        /\ answer' = [r \in Requests |-> Older(answer[r])]
        /\ took' = [r \in Requests |->
                      IF pc[r] \in {"admit", "deny", "store"} THEN took[r] + 1 ELSE took[r]]
        /\ since' = [u \in Users |-> IF active[u] \/ since[u] = SinceLimit
                                     THEN since[u] ELSE since[u] + 1]
        /\ UNCHANGED <<active, pc, request>>

-----------------------------------------------------------------------------
Serve(r) == \/ \E q \in Request : Arrive(r, q)
            \/ ReadStatus(r) \/ Admit(r) \/ Deny(r)
            \/ Lookup(r) \/ Handle(r) \/ Store(r)

Next == \/ \E r \in Requests : Serve(r)
        \/ \E u \in Users, status \in BOOLEAN : SetStatus(u, status)
        \/ \E u \in Users : Change(u)
        \/ Tick

Spec == Init /\ [][Next]_vars

-----------------------------------------------------------------------------
(* Properties.                                                             *)

TypeOK ==
    /\ active \in [Users -> BOOLEAN]
    /\ access \in [Users -> 0..AccessTtl]
    /\ cache \in [CacheKeys -> Response \cup {None}]
    /\ left \in [CacheKeys -> 0..ResponseTtl]
    /\ pc \in [Requests -> {"idle", "status", "admit", "deny", "lookup", "handle", "store"}]
    /\ request \in [Requests -> Request \cup {None}]
    /\ answer \in [Requests -> Response \cup {None}]
    /\ took \in [Requests -> 0..Delay]
    /\ since \in [Users -> 0..SinceLimit]

\* A blocked user gets past the guard for AccessTtl after the block at most,
\* plus what a check that was running then took to fill the cache, also when
\* checks of several requests overwrite each other's entry.
BlockedIsLockedOut ==
    [][\A r \in Requests :
          pc[r] \in {"idle", "admit"} /\ pc'[r] = "lookup" /\ ~active[request'[r].user]
             => since[request'[r].user] <= AccessTtl + Delay]_vars

\* A response in the cache, or about to be sent, shows data that were changed
\* ResponseTtl ago at most, plus what its handler took.
ResponsesAreRecent ==
    /\ \A k \in CacheKeys : cache[k] # None => cache[k].outdated <= ResponseTtl + Delay
    /\ \A r \in Requests : answer[r] # None => answer[r].outdated <= Delay + 1

=============================================================================
