-------------------------- MODULE RequestPathProofs --------------------------
(***************************************************************************)
(* Proofs about RequestPath: how stale the caches can be, for every number *)
(* of users and requests and every duration.                               *)
(***************************************************************************)
EXTENDS RequestPath, TLAPS

\* An entry that lets a blocked user in has been running out since the block,
\* but for the ticks its check took.
AccessInv == \A u \in Users :
    ~active[u] /\ access[u] > 0 => since[u] + access[u] <= AccessTtl + Delay

\* An entry that shows outdated data has been running out since they changed.
CacheInv == \A k \in CacheKeys : cache[k] # None =>
    left[k] > 0 /\ cache[k].outdated + left[k] <= ResponseTtl + Delay + 1

\* A request on its way: what it has read is no older than the ticks it took.
RequestInv(r) ==
    /\ pc[r] # "idle" => request[r] # None
    /\ pc[r] = "admit" /\ ~active[request[r].user] => since[request[r].user] <= took[r]
    /\ pc[r] = "store" => answer[r] # None /\ answer[r].outdated <= took[r] + 1
    /\ pc[r] # "store" => answer[r] = None

IInv == TypeOK /\ AccessInv /\ CacheInv /\ \A r \in Requests : RequestInv(r)

USE DEF caches, vars

-----------------------------------------------------------------------------
\* Every request has a key in the cache.
LEMMA Keys == ASSUME NEW q \in Request PROVE TrackBy(q) \in CacheKeys
  BY DEF TrackBy, CacheKeys, Request

\* Empty caches satisfy the invariant.
LEMMA StartInv == Init => IInv
  BY DurationsAssumption
  DEF Init, IInv, TypeOK, AccessInv, CacheInv, RequestInv, SinceLimit

\* What a request that is under way is about.
LEMMA UnderWay ==
  ASSUME IInv, NEW r \in Requests, pc[r] # "idle"
  PROVE  /\ request[r] \in Request /\ request[r].user \in Users
         /\ TrackBy(request[r]) \in CacheKeys
  BY Keys DEF IInv, TypeOK, RequestInv, Request

-----------------------------------------------------------------------------
(* The guard.                                                              *)

\* An arriving request finds an entry or goes to the database.
LEMMA ArriveInv ==
  ASSUME IInv, NEW r \in Requests, NEW q \in Request, Arrive(r, q) PROVE IInv'
  <1>1. TypeOK'
    BY DEF IInv, TypeOK, Arrive, Goto
  <1>2. AccessInv' /\ CacheInv'
    BY DEF IInv, AccessInv, CacheInv, Arrive
  <1>3. ASSUME NEW s \in Requests PROVE RequestInv(s)'
    BY RequestNone DEF IInv, TypeOK, RequestInv, Arrive, Goto
  <1> QED BY <1>1, <1>2, <1>3 DEF IInv

\* A status just read is as old as the request says: 0 ticks.
LEMMA ReadStatusInv ==
  ASSUME IInv, NEW r \in Requests, ReadStatus(r) PROVE IInv'
  <1>1. TypeOK'
    BY DurationsAssumption DEF IInv, TypeOK, ReadStatus, Goto
  <1>2. AccessInv' /\ CacheInv'
    BY DEF IInv, AccessInv, CacheInv, ReadStatus
  <1>3. ASSUME NEW s \in Requests PROVE RequestInv(s)'
    BY DEF IInv, TypeOK, RequestInv, ReadStatus, Goto
  <1> QED BY <1>1, <1>2, <1>3 DEF IInv

\* The entry a check makes runs out AccessTtl after it, so a block that fell
\* between the read and the write is not outlived by more than Delay.
LEMMA AdmitInv ==
  ASSUME IInv, NEW r \in Requests, Admit(r) PROVE IInv'
  <1> DEFINE v == request[r].user
  <1>0. v \in Users /\ pc[r] = "admit"
    BY UnderWay DEF Admit
  <1>1. TypeOK'
    <2>1. AccessTtl \in 0..AccessTtl /\ 0 \in 0..Delay
      BY DurationsAssumption
    <2>2. access' \in [Users -> 0..AccessTtl] /\ took' \in [Requests -> 0..Delay]
      BY <2>1 DEF IInv, TypeOK, Admit
    <2> QED BY <2>2 DEF IInv, TypeOK, Admit, Goto
  <1>2. ASSUME NEW u \in Users, ~active'[u], access'[u] > 0
        PROVE  since'[u] + access'[u] <= AccessTtl + Delay
    <2>1. active' = active /\ since' = since /\ access' = [access EXCEPT ![v] = AccessTtl]
      BY DEF Admit
    <2>2. CASE u = v
      <3>1. since[v] <= took[r] /\ took[r] \in 0..Delay /\ since[v] \in Nat
        BY <1>0, <1>2, <2>1, <2>2, DurationsAssumption
        DEF IInv, TypeOK, RequestInv, SinceLimit
      <3> QED BY <1>0, <2>1, <2>2, <3>1, DurationsAssumption DEF IInv, TypeOK
    <2>3. CASE u # v
      BY <1>2, <2>1, <2>3 DEF IInv, TypeOK, AccessInv
    <2> QED BY <2>2, <2>3
  <1>3. CacheInv'
    BY DEF IInv, CacheInv, Admit
  <1>4. ASSUME NEW s \in Requests PROVE RequestInv(s)'
    BY <1>0 DEF IInv, TypeOK, RequestInv, Admit, Goto
  <1> QED BY <1>1, <1>2, <1>3, <1>4 DEF IInv, AccessInv

\* A refused request takes its entry and its state away.
LEMMA DenyInv ==
  ASSUME IInv, NEW r \in Requests, Deny(r) PROVE IInv'
  <1>0. request[r].user \in Users /\ pc[r] = "deny"
    BY UnderWay DEF Deny
  <1>1. TypeOK'
    <2>1. 0 \in 0..AccessTtl /\ 0 \in 0..Delay
      BY DurationsAssumption
    <2>2. access' \in [Users -> 0..AccessTtl] /\ took' \in [Requests -> 0..Delay]
      BY <2>1 DEF IInv, TypeOK, Deny, End
    <2> QED BY <2>2 DEF IInv, TypeOK, Deny, End, Goto
  <1>2. AccessInv'
    BY <1>0, DurationsAssumption DEF IInv, TypeOK, AccessInv, Deny
  <1>3. CacheInv'
    BY DEF IInv, CacheInv, Deny
  <1>4. ASSUME NEW s \in Requests PROVE RequestInv(s)'
    BY <1>0 DEF IInv, TypeOK, RequestInv, Deny, End, Goto
  <1> QED BY <1>1, <1>2, <1>3, <1>4 DEF IInv

-----------------------------------------------------------------------------
(* The interceptor.                                                        *)

\* A lookup changes no entry.
LEMMA LookupInv ==
  ASSUME IInv, NEW r \in Requests, Lookup(r) PROVE IInv'
  <1>0. pc[r] = "lookup"
    BY DEF Lookup
  <1>1. TypeOK'
    BY DurationsAssumption DEF IInv, TypeOK, Lookup, End, Goto
  <1>2. AccessInv' /\ CacheInv'
    BY DEF IInv, AccessInv, CacheInv, Lookup
  <1>3. ASSUME NEW s \in Requests PROVE RequestInv(s)'
    BY <1>0 DEF IInv, TypeOK, RequestInv, Lookup, End, Goto
  <1> QED BY <1>1, <1>2, <1>3 DEF IInv

\* A response just built shows the data as they are.
LEMMA HandleInv ==
  ASSUME IInv, NEW r \in Requests, Handle(r) PROVE IInv'
  <1> DEFINE x == [of |-> request[r].user, outdated |-> 0]
  <1>0. pc[r] = "handle" /\ x \in Response /\ x # None /\ x.outdated = 0
    <2>1. 0 \in 0..(ResponseTtl + Delay + 1)
      BY DurationsAssumption
    <2> QED BY <2>1, UnderWay, RequestNone DEF Handle, Response
  <1>1. answer' = [answer EXCEPT ![r] = x]
    BY DEF Handle
  <1> HIDE DEF x
  <1>2. TypeOK'
    BY <1>0, <1>1, DurationsAssumption DEF IInv, TypeOK, Handle, Goto
  <1>3. AccessInv' /\ CacheInv'
    BY DEF IInv, AccessInv, CacheInv, Handle
  <1>4. ASSUME NEW s \in Requests PROVE RequestInv(s)'
    BY <1>0, <1>1, DurationsAssumption DEF IInv, TypeOK, RequestInv, Handle, Goto
  <1> QED BY <1>2, <1>3, <1>4 DEF IInv

\* The entry of a response lasts ResponseTtl from its being stored.
LEMMA StoreInv ==
  ASSUME IInv, NEW r \in Requests, Store(r) PROVE IInv'
  <1> DEFINE k == TrackBy(request[r])
  <1>0. k \in CacheKeys /\ pc[r] = "store" /\ answer[r] # None /\ answer[r] \in Response
    BY UnderWay DEF Store, IInv, TypeOK, RequestInv
  <1>1. /\ cache' = [cache EXCEPT ![k] = answer[r]]
        /\ left' = [left EXCEPT ![k] = ResponseTtl]
    BY DEF Store
  <1>2. answer[r].outdated <= Delay + 1 /\ answer[r].outdated \in Nat
    <2>1. answer[r].outdated <= took[r] + 1 /\ took[r] \in 0..Delay
      BY <1>0 DEF IInv, TypeOK, RequestInv
    <2>2. answer[r].outdated \in Nat
      BY <1>0, DurationsAssumption DEF Response
    <2> QED BY <2>1, <2>2, DurationsAssumption
  <1> HIDE DEF k
  <1>3. TypeOK'
    <2>1. ResponseTtl \in 0..ResponseTtl /\ 0 \in 0..Delay
      BY DurationsAssumption
    <2>2. /\ cache' \in [CacheKeys -> Response \cup {None}]
          /\ left' \in [CacheKeys -> 0..ResponseTtl]
          /\ took' \in [Requests -> 0..Delay]
      BY <1>0, <1>1, <2>1 DEF IInv, TypeOK, Store, End
    <2> QED BY <2>2 DEF IInv, TypeOK, Store, End, Goto
  <1>4. AccessInv'
    BY DEF IInv, AccessInv, Store
  <1>5. CacheInv'
    BY <1>0, <1>1, <1>2, DurationsAssumption DEF IInv, TypeOK, CacheInv
  <1>6. ASSUME NEW s \in Requests PROVE RequestInv(s)'
    BY <1>0 DEF IInv, TypeOK, RequestInv, Store, End, Goto
  <1> QED BY <1>3, <1>4, <1>5, <1>6 DEF IInv

-----------------------------------------------------------------------------
(* Changes of the database, and time.                                      *)

\* A change of status restarts the clock of the block only.
LEMMA SetStatusInv ==
  ASSUME IInv, NEW u \in Users, NEW status \in BOOLEAN, SetStatus(u, status) PROVE IInv'
  <1>1. active' \in [Users -> BOOLEAN] /\ since' \in [Users -> 0..SinceLimit]
    BY DurationsAssumption DEF IInv, TypeOK, SetStatus, SinceLimit
  <1>2. TypeOK'
    BY <1>1 DEF IInv, TypeOK, SetStatus
  <1>3. \A v \in Users : ~active'[v] =>
           since'[v] = 0 \/ (~active[v] /\ since'[v] = since[v])
    <2>1. CASE status = active[u]
      BY <2>1 DEF IInv, TypeOK, SetStatus
    <2>2. CASE status # active[u]
      BY <2>2 DEF IInv, TypeOK, SetStatus
    <2> QED BY <2>1, <2>2
  <1>4. AccessInv'
    <2> SUFFICES ASSUME NEW v \in Users, ~active'[v], access'[v] > 0
                 PROVE  since'[v] + access'[v] <= AccessTtl + Delay
      BY DEF AccessInv
    <2>1. access' = access /\ access[v] \in 0..AccessTtl
      BY DEF IInv, TypeOK, SetStatus
    <2>2. CASE since'[v] = 0
      BY <2>1, <2>2, DurationsAssumption
    <2>3. CASE ~active[v] /\ since'[v] = since[v]
      BY <2>1, <2>3 DEF IInv, AccessInv
    <2> QED BY <1>3, <2>2, <2>3
  <1>5. CacheInv'
    BY DEF IInv, CacheInv, SetStatus
  <1>6. ASSUME NEW r \in Requests PROVE RequestInv(r)'
    <2>1. UNCHANGED <<pc, request, answer, took>> /\ took[r] \in 0..Delay
      BY DEF SetStatus, IInv, TypeOK
    <2>2. pc[r] # "idle" => request[r].user \in Users
      BY UnderWay
    <2>3. RequestInv(r)
      BY DEF IInv
    <2> QED BY <1>3, <2>1, <2>2, <2>3, DurationsAssumption DEF RequestInv
  <1> QED BY <1>2, <1>4, <1>5, <1>6 DEF IInv

\* Marking a response as outdated leaves it a response.
LEMMA OutdateType ==
  ASSUME NEW x \in Response \cup {None}, NEW u \in Users
  PROVE  /\ Outdate(x, u) \in Response \cup {None}
         /\ Outdate(x, u) = None <=> x = None
         /\ x # None => /\ x.outdated \in Nat
                        /\ Outdate(x, u).outdated = x.outdated \/ Outdate(x, u).outdated = 1
  <1>1. CASE x # None /\ x.of = u /\ x.outdated = 0
    <2>1. 1 \in 0..(ResponseTtl + Delay + 1)
      BY DurationsAssumption
    <2>2. Outdate(x, u) = [x EXCEPT !.outdated = 1]
      BY <1>1 DEF Outdate
    <2>3. Outdate(x, u) \in Response /\ Outdate(x, u).outdated = 1
      BY <1>1, <2>1, <2>2 DEF Response
    <2> QED BY <1>1, <2>3, RequestNone
  <1>2. CASE ~(x # None /\ x.of = u /\ x.outdated = 0)
    BY <1>2, DurationsAssumption DEF Outdate, Response
  <1> QED BY <1>1, <1>2

\* A change of data makes the responses that show them outdated by one.
LEMMA ChangeInv ==
  ASSUME IInv, NEW u \in Users, Change(u) PROVE IInv'
  <1>1. /\ cache' = [k \in CacheKeys |-> Outdate(cache[k], u)]
        /\ answer' = [r \in Requests |-> Outdate(answer[r], u)]
        /\ UNCHANGED <<active, access, left, pc, request, took, since>>
    BY DEF Change
  <1>2. /\ \A k \in CacheKeys : cache[k] \in Response \cup {None} /\ left[k] \in 0..ResponseTtl
        /\ \A r \in Requests : answer[r] \in Response \cup {None} /\ took[r] \in 0..Delay
    BY DEF IInv, TypeOK
  <1>3. TypeOK'
    BY <1>1, <1>2, OutdateType DEF IInv, TypeOK
  <1>4. AccessInv'
    BY <1>1 DEF IInv, AccessInv
  <1>5. CacheInv'
    <2> SUFFICES ASSUME NEW k \in CacheKeys, cache'[k] # None
                 PROVE  left'[k] > 0 /\ cache'[k].outdated + left'[k] <= ResponseTtl + Delay + 1
      BY DEF CacheInv
    <2>1. cache[k] # None /\ cache[k].outdated \in Nat
          /\ (cache'[k].outdated = cache[k].outdated \/ cache'[k].outdated = 1)
      BY <1>1, <1>2, OutdateType
    <2> QED BY <1>1, <1>2, <2>1, DurationsAssumption DEF IInv, CacheInv
  <1>6. ASSUME NEW r \in Requests PROVE RequestInv(r)'
    <2>1. RequestInv(r)
      BY DEF IInv
    <2>2. answer'[r] = None <=> answer[r] = None
      BY <1>1, <1>2, OutdateType
    <2>3. answer[r] # None =>
             answer'[r].outdated = answer[r].outdated \/ answer'[r].outdated = 1
      BY <1>1, <1>2, OutdateType
    <2> QED BY <1>1, <1>2, <2>1, <2>2, <2>3, DurationsAssumption DEF RequestInv
  <1> QED BY <1>3, <1>4, <1>5, <1>6 DEF IInv

\* A response that gets older is a response while there is room for its age.
LEMMA OlderType ==
  ASSUME NEW x \in Response \cup {None}, x # None => x.outdated <= ResponseTtl + Delay
  PROVE  /\ Older(x) \in Response \cup {None}
         /\ Older(x) = None <=> x = None
         /\ x # None => /\ x.outdated \in Nat
                        /\ Older(x).outdated \in Nat
                        /\ Older(x).outdated <= x.outdated + 1
  <1>1. CASE x # None /\ x.outdated > 0
    <2>1. x \in Response /\ x.outdated + 1 \in 0..(ResponseTtl + Delay + 1)
      BY <1>1, DurationsAssumption DEF Response
    <2>2. Older(x) = [x EXCEPT !.outdated = @ + 1]
      BY <1>1 DEF Older
    <2>3. Older(x) \in Response /\ Older(x).outdated = x.outdated + 1
      BY <2>1, <2>2 DEF Response
    <2> QED BY <1>1, <2>1, <2>3, RequestNone, DurationsAssumption DEF Response
  <1>2. CASE ~(x # None /\ x.outdated > 0)
    BY <1>2, DurationsAssumption DEF Older, Response
  <1> QED BY <1>1, <1>2

\* Time ages blocks and responses as much as it takes from their entries.
LEMMA TickInv == ASSUME IInv, Tick PROVE IInv'
  <1>1. /\ \A k \in CacheKeys : cache[k] \in Response \cup {None} /\ left[k] \in 0..ResponseTtl
        /\ \A r \in Requests : answer[r] \in Response \cup {None} /\ took[r] \in 0..Delay
        /\ \A u \in Users : /\ access[u] \in 0..AccessTtl /\ since[u] \in 0..SinceLimit
                            /\ active[u] \in BOOLEAN
    BY DEF IInv, TypeOK
  <1>2. \A u \in Users : /\ access'[u] = IF access[u] > 0 THEN access[u] - 1 ELSE 0
                         /\ since'[u] = since[u]
                               \/ (~active[u] /\ since[u] # SinceLimit /\ since'[u] = since[u] + 1)
                         /\ active'[u] = active[u]
    BY DEF Tick, Expire
  <1>3. \A k \in CacheKeys :
           /\ left'[k] = IF left[k] > 0 THEN left[k] - 1 ELSE 0
           /\ cache'[k] = IF left'[k] > 0 THEN Older(cache[k]) ELSE None
    BY DEF Tick, Expire
  <1>4. \A r \in Requests :
           /\ answer'[r] = Older(answer[r])
           /\ took'[r] = IF pc[r] \in {"admit", "deny", "store"} THEN took[r] + 1 ELSE took[r]
           /\ pc[r] \in {"admit", "deny", "store"} => took[r] < Delay
    BY DEF Tick
  <1>5. UNCHANGED <<active, pc, request>>
    BY DEF Tick
  <1>6. ASSUME NEW k \in CacheKeys, cache[k] # None
        PROVE  left[k] > 0 /\ cache[k].outdated + left[k] <= ResponseTtl + Delay + 1
    BY <1>6 DEF IInv, CacheInv
  <1>7. ASSUME NEW k \in CacheKeys
        PROVE  /\ Older(cache[k]) \in Response \cup {None}
               /\ Older(cache[k]) = None <=> cache[k] = None
               /\ cache[k] # None => /\ cache[k].outdated \in Nat
                                     /\ Older(cache[k]).outdated \in Nat
                                     /\ Older(cache[k]).outdated <= cache[k].outdated + 1
    <2>1. cache[k] # None => cache[k].outdated \in Nat
      BY <1>1, DurationsAssumption DEF Response
    <2>2. cache[k] # None => cache[k].outdated <= ResponseTtl + Delay
      BY <1>1, <1>6, <2>1, DurationsAssumption
    <2> QED BY <1>1, <2>2, OlderType
  <1>8. ASSUME NEW r \in Requests
        PROVE  /\ answer[r] # None => pc[r] = "store" /\ answer[r].outdated <= took[r] + 1
               /\ Older(answer[r]) \in Response \cup {None}
               /\ Older(answer[r]) = None <=> answer[r] = None
               /\ answer[r] # None => /\ answer[r].outdated \in Nat
                                      /\ Older(answer[r]).outdated <= answer[r].outdated + 1
    <2>1. answer[r] # None => pc[r] = "store" /\ answer[r].outdated <= took[r] + 1
      BY DEF IInv, RequestInv
    <2>2. answer[r] # None => answer[r].outdated \in Nat
      BY <1>1, DurationsAssumption DEF Response
    <2>3. answer[r] # None => answer[r].outdated <= ResponseTtl + Delay
      BY <1>1, <1>4, <2>1, <2>2, DurationsAssumption
    <2> QED BY <1>1, <2>1, <2>3, OlderType
  <1>9. TypeOK'
    <2>1. access' \in [Users -> 0..AccessTtl]
      BY <1>1, <1>2, DurationsAssumption DEF Tick
    <2>2. left' \in [CacheKeys -> 0..ResponseTtl]
      BY <1>1, <1>3, DurationsAssumption DEF Tick
    <2>3. cache' \in [CacheKeys -> Response \cup {None}]
      BY <1>3, <1>7 DEF Tick
    <2>4. answer' \in [Requests -> Response \cup {None}]
      BY <1>4, <1>8 DEF Tick
    <2>5. took' \in [Requests -> 0..Delay]
      BY <1>1, <1>4, DurationsAssumption DEF Tick
    <2>6. \A u \in Users : since'[u] \in 0..SinceLimit
      BY <1>1, <1>2, DurationsAssumption DEF SinceLimit
    <2>7. since' \in [Users -> 0..SinceLimit]
      BY <2>6 DEF Tick
    <2> QED BY <1>5, <2>1, <2>2, <2>3, <2>4, <2>5, <2>7 DEF IInv, TypeOK
  <1>10. AccessInv'
    <2> SUFFICES ASSUME NEW u \in Users, ~active'[u], access'[u] > 0
                 PROVE  since'[u] + access'[u] <= AccessTtl + Delay
      BY DEF AccessInv
    <2>1. ~active[u] /\ access[u] > 0 /\ access'[u] = access[u] - 1
      BY <1>1, <1>2
    <2>2. since[u] + access[u] <= AccessTtl + Delay
      BY <2>1 DEF IInv, AccessInv
    <2>3. since'[u] = since[u] \/ since'[u] = since[u] + 1
      BY <1>2
    <2> QED BY <1>1, <2>1, <2>2, <2>3, DurationsAssumption DEF SinceLimit
  <1>11. CacheInv'
    <2> SUFFICES ASSUME NEW k \in CacheKeys, cache'[k] # None
                 PROVE  left'[k] > 0 /\ cache'[k].outdated + left'[k] <= ResponseTtl + Delay + 1
      BY DEF CacheInv
    <2>1. left'[k] > 0 /\ cache'[k] = Older(cache[k]) /\ cache[k] # None
      BY <1>1, <1>3, <1>7
    <2>2. left'[k] = left[k] - 1
      BY <1>1, <1>3, <2>1
    <2> QED BY <1>1, <1>6, <1>7, <2>1, <2>2, DurationsAssumption
  <1>12. ASSUME NEW r \in Requests PROVE RequestInv(r)'
    <2>1. RequestInv(r)
      BY DEF IInv
    <2>2. pc[r] = "admit" /\ ~active[request[r].user] =>
             since'[request[r].user] <= took'[r]
      <3> SUFFICES ASSUME pc[r] = "admit", ~active[request[r].user]
                   PROVE  since'[request[r].user] <= took'[r]
        OBVIOUS
      <3>1. request[r].user \in Users
        BY UnderWay
      <3>2. since[request[r].user] <= took[r]
        BY <2>1 DEF RequestInv
      <3> QED BY <1>1, <1>2, <1>4, <3>1, <3>2, DurationsAssumption DEF SinceLimit
    <2>3. pc[r] = "store" => answer'[r] # None /\ answer'[r].outdated <= took'[r] + 1
      <3> SUFFICES ASSUME pc[r] = "store"
                   PROVE  answer'[r] # None /\ answer'[r].outdated <= took'[r] + 1
        OBVIOUS
      <3>1. answer[r] # None
        BY <2>1 DEF RequestInv
      <3>2. /\ answer'[r] # None /\ answer'[r] \in Response
            /\ answer'[r].outdated <= answer[r].outdated + 1
            /\ answer[r].outdated \in Nat /\ answer[r].outdated <= took[r] + 1
            /\ took'[r] = took[r] + 1 /\ took[r] \in Nat
        BY <1>1, <1>4, <1>8, <3>1, DurationsAssumption
      <3>3. answer'[r].outdated \in Nat
        BY <3>2, DurationsAssumption DEF Response
      <3> QED BY <3>2, <3>3
    <2>4. pc[r] # "store" => answer'[r] = None
      BY <1>4, <1>8, <2>1 DEF RequestInv
    <2> QED BY <1>5, <2>1, <2>2, <2>3, <2>4 DEF RequestInv
  <1> QED BY <1>9, <1>10, <1>11, <1>12 DEF IInv

-----------------------------------------------------------------------------
\* Every step keeps the invariant.
LEMMA StepInv == IInv /\ [Next]_vars => IInv'
  <1> SUFFICES ASSUME IInv, [Next]_vars PROVE IInv' OBVIOUS
  <1>1. CASE \E r \in Requests : Serve(r)
    BY <1>1, ArriveInv, ReadStatusInv, AdmitInv, DenyInv, LookupInv, HandleInv, StoreInv
    DEF Serve
  <1>2. CASE \E u \in Users, status \in BOOLEAN : SetStatus(u, status)
    BY <1>2, SetStatusInv
  <1>3. CASE \E u \in Users : Change(u)
    BY <1>3, ChangeInv
  <1>4. CASE Tick
    BY <1>4, TickInv
  <1>5. CASE UNCHANGED vars
    BY <1>5 DEF IInv, TypeOK, AccessInv, CacheInv, RequestInv
  <1> QED BY <1>1, <1>2, <1>3, <1>4, <1>5 DEF Next

\* The invariant holds always.
LEMMA AlwaysIInv == Spec => []IInv
  BY StartInv, StepInv, PTL DEF Spec

\* The caches and the requests keep their types, counters included.
THEOREM TypesAreKept == Spec => []TypeOK
  BY AlwaysIInv, PTL DEF IInv

\* No cached or unsent response is more outdated than the entry can last.
THEOREM ResponsesStayRecent == Spec => []ResponsesAreRecent
  <1>1. IInv => ResponsesAreRecent
    <2> SUFFICES ASSUME IInv PROVE ResponsesAreRecent OBVIOUS
    <2>1. ASSUME NEW k \in CacheKeys, cache[k] # None
          PROVE  cache[k].outdated <= ResponseTtl + Delay
      <3>1. cache[k] \in Response /\ left[k] \in 0..ResponseTtl
        BY <2>1 DEF IInv, TypeOK
      <3>2. left[k] > 0 /\ cache[k].outdated + left[k] <= ResponseTtl + Delay + 1
        BY <2>1 DEF IInv, CacheInv
      <3>3. cache[k].outdated \in Nat
        BY <3>1, DurationsAssumption DEF Response
      <3> QED BY <3>1, <3>2, <3>3, DurationsAssumption
    <2>2. ASSUME NEW r \in Requests, answer[r] # None
          PROVE  answer[r].outdated <= Delay + 1
      <3>1. answer[r].outdated <= took[r] + 1 /\ took[r] \in 0..Delay
        BY <2>2 DEF IInv, TypeOK, RequestInv
      <3>2. answer[r].outdated \in Nat
        BY <2>2, DurationsAssumption DEF IInv, TypeOK, Response
      <3> QED BY <3>1, <3>2, DurationsAssumption
    <2> QED BY <2>1, <2>2 DEF ResponsesAreRecent
  <1> QED BY <1>1, AlwaysIInv, PTL

\* A step past the guard for a blocked user finds an entry, or a check, that
\* is no older than the block allows.
LEMMA StepLocksOut ==
  ASSUME IInv, [Next]_vars, NEW r \in Requests,
         pc[r] \in {"idle", "admit"}, pc'[r] = "lookup", ~active[request'[r].user]
  PROVE  since[request'[r].user] <= AccessTtl + Delay
  <1>1. CASE \E q \in Request : Arrive(r, q)
    <2> PICK q \in Request : Arrive(r, q) BY <1>1
    <2>1. request'[r] = q /\ access[q.user] > 0 /\ q.user \in Users
      BY DEF Arrive, Goto, IInv, TypeOK, Request
    <2>2. since[q.user] + access[q.user] <= AccessTtl + Delay
      BY <2>1 DEF IInv, AccessInv
    <2>3. access[q.user] \in Nat /\ since[q.user] \in Nat
      BY <2>1, DurationsAssumption DEF IInv, TypeOK, SinceLimit
    <2> QED BY <2>1, <2>2, <2>3, DurationsAssumption
  <1>2. CASE Admit(r)
    <2>1. request' = request /\ pc[r] = "admit" /\ request[r].user \in Users
      BY <1>2, UnderWay DEF Admit
    <2>2. since[request[r].user] <= took[r] /\ took[r] \in 0..Delay
      BY <2>1 DEF IInv, TypeOK, RequestInv
    <2>3. since[request[r].user] \in Nat
      BY <2>1, DurationsAssumption DEF IInv, TypeOK, SinceLimit
    <2> QED BY <2>1, <2>2, <2>3, DurationsAssumption
  <1>3. pc'[r] # pc[r] => (\E q \in Request : Arrive(r, q)) \/ Admit(r) \/ pc'[r] # "lookup"
    <2> SUFFICES ASSUME pc'[r] # pc[r], \A q \in Request : ~Arrive(r, q), ~Admit(r)
                 PROVE  pc'[r] # "lookup"
      OBVIOUS
    <2>1. PICK s \in Requests : Serve(s)
      BY DEF Next, SetStatus, Change, Tick
    <2>2. s = r
      BY <2>1 DEF Serve, Arrive, ReadStatus, Admit, Deny, Lookup, Handle, Store, End, Goto,
                  IInv, TypeOK
    <2> QED BY <2>1, <2>2 DEF Serve, Arrive, ReadStatus, Deny, Lookup, Handle, Store, End,
                              Goto, IInv, TypeOK
  <1> QED BY <1>1, <1>2, <1>3

\* However checks interleave, a block takes effect within AccessTtl plus the
\* time one check takes.
THEOREM BlocksTakeEffect == Spec => BlockedIsLockedOut
  <1>1. IInv /\ [Next]_vars =>
           [\A r \in Requests :
               pc[r] \in {"idle", "admit"} /\ pc'[r] = "lookup" /\ ~active[request'[r].user]
                  => since[request'[r].user] <= AccessTtl + Delay]_vars
    BY StepLocksOut
  <1> QED BY <1>1, AlwaysIInv, PTL DEF Spec, BlockedIsLockedOut

=============================================================================
