---------------------------- MODULE Sharing_proofs ----------------------------
(***************************************************************************)
(* Proofs about what we share and search, in two parts without a common    *)
(* variable.                                                               *)
(*                                                                         *)
(* Announce, for any set of search objects, supernodes, hashes and any     *)
(* size of the id space: what the tables of the search manager hold, what  *)
(* ids given out too early can do, and that every search and every SIGHUP  *)
(* is served.  What a result does depends on whether the query a supernode *)
(* still keeps belongs to the search the id table leads to; AskedOK states *)
(* that, IdsOK what follows while ids are not reused.                      *)
(*                                                                         *)
(* UploadMan, for any number of peers, uploads and slots.                  *)
(***************************************************************************)
EXTENDS Announce, UploadMan, ListFacts, FunctionTheorems


(* The tables lead to live searches of their key, and a hash search is     *)
(* found by its hash.                                                      *)
TablesOK ==
    /\ \A i \in Ids : byId[i] # None =>
          byId[i] \in Alive /\ search[byId[i]].id = i
    /\ \A f \in Hashes : byHash[f] # None =>
          /\ byHash[f] \in Alive
          /\ search[byHash[f]].kind = "locate" /\ search[byHash[f]].hash = f
    /\ \A s \in Alive : search[s].kind = "locate" =>
          search[s].hash \in Hashes /\ byHash[search[s].hash] = s

(* While no id in use was given out the id table finds every search. *)
IdsOK ==
    /\ "taken" \notin clash => \A s \in Alive : byId[search[s].id] = s
    /\ "zero" \notin clash =>
          \A s \in Alive : search[s].kind = "query" =>
              search[s].id # INVALID_SEARCH_ID

(* What a supernode keeps of a search that is alive fits that search. *)
Fits(q) ==
    /\ q.slot \in Alive /\ q.kind = search[q.slot].kind
    /\ q.hash = search[q.slot].hash
    /\ q.kind = "query" => q.id = search[q.slot].id

(* An id some supernode still answers for leads to the search it was       *)
(* asked for, or nowhere, as long as no such id was given out again.       *)
AskedOK ==
    \A h \in Hosts : \A q \in asked[h] :
       /\ q.slot # None => Fits(q)
       /\ q.kind = "locate" => q.slot # None
       /\ "stale" \notin clash /\ q.kind = "query" /\ byId[q.id] # None =>
             byId[q.id] = q.slot

SearchInv ==
    /\ SearchTypeOK /\ connected \subseteq Hosts
    /\ TablesOK /\ IdsOK /\ AskedOK
    /\ OnlyIdReuseHurts
    /\ SentToAll

(* What the file server knows of its shares file: a SIGHUP during a load is
   the newest of those, so until there is one the version that is read, or was
   refused, is the newest version. *)
ServerOK ==
    /\ DOMAIN server = {"flag", "load", "hups", "read", "seen", "late", "refused"}
    /\ server.flag \in BOOLEAN
    /\ server.hups \in Nat
    /\ server.load = "reading" => server.read = server.hups \/ server.late = server.hups
    /\ server.load = "refused" => server.hups \in {server.refused, server.late}
    /\ ~server.flag => \/ server.seen = server.hups
                       \/ server.hups \in {server.late, server.refused}

-----------------------------------------------------------------------------
(* What the operators of the search manager do to a search.                *)

(* Sending changes who has had the search and its timeout, nothing else. *)
LEMMA SentToFacts ==
  ASSUME NEW r \in SearchRec, NEW g \in SUBSET Hosts
  PROVE  /\ SentTo(r, g) \in SearchRec
         /\ SentTo(r, g).alive = r.alive /\ SentTo(r, g).kind = r.kind
         /\ SentTo(r, g).id = r.id /\ SentTo(r, g).hash = r.hash
         /\ SentTo(r, g).finished = r.finished
         /\ SentTo(r, g).sent = r.sent \cup g
  BY DEF SearchRec, SentTo

(* A query as the supernode keeps it. *)
LEMMA QueryFacts ==
  ASSUME NEW s \in Slots, NEW r \in SearchRec
  PROVE  /\ QueryOf(s, r) \in Query
         /\ QueryOf(s, r).slot = s /\ QueryOf(s, r).kind = r.kind
         /\ QueryOf(s, r).hash = r.hash
         /\ r.kind = "query" => QueryOf(s, r).id = r.id
<1>1. INVALID_SEARCH_ID \in Ids
  BY IdAssumption DEF INVALID_SEARCH_ID, Ids
<1> QED BY <1>1 DEF SearchRec, Query, QueryOf

(* A search object that is not in use. *)
LEMMA NoSearchFacts ==
  /\ NoSearch \in SearchRec /\ NoSearch.alive = FALSE
  /\ DOMAIN NoSearch = {"alive", "kind", "id", "hash", "owner", "finished",
                        "timer", "sent"}
<1>1. 0 \in Ids
  BY IdAssumption DEF Ids
<1> QED BY <1>1 DEF SearchRec, NoSearch, Owners

(* The records of new searches. *)
NewQuery(owner) == [NoSearch EXCEPT !.alive = TRUE, !.id = nextId,
                                    !.owner = owner]
NewLocate(owner, hash) ==
    [NoSearch EXCEPT !.alive = TRUE, !.id = nextId, !.hash = hash,
                     !.kind = "locate", !.owner = owner]

LEMMA NewFacts ==
  ASSUME NEW owner \in Owners, NEW hash \in Hashes, nextId \in Ids
  PROVE  /\ NewQuery(owner) \in SearchRec /\ NewLocate(owner, hash) \in SearchRec
         /\ NewQuery(owner).alive = TRUE /\ NewLocate(owner, hash).alive = TRUE
         /\ NewQuery(owner).id = nextId /\ NewLocate(owner, hash).id = nextId
         /\ NewQuery(owner).kind = "query"
         /\ NewLocate(owner, hash).kind = "locate"
         /\ NewLocate(owner, hash).hash = hash
  BY NoSearchFacts DEF SearchRec, NoSearch, NewQuery, NewLocate

-----------------------------------------------------------------------------
(* A search is started. *)

(* A step that makes s a search with the record new, sent to some sessions. *)
StartStep(s, new, bad) ==
    /\ s \in Slots \ Alive /\ bad \in SUBSET connected
    /\ new \in SearchRec /\ new.alive = TRUE /\ new.id = nextId
    /\ \/ new.kind = "query" /\ byHash' = byHash
       \/ /\ new.kind = "locate" /\ new.hash \in Hashes
          /\ byHash[new.hash] = None
          /\ byHash' = [byHash EXCEPT ![new.hash] = s]
    /\ Started(s, new, bad)
    /\ connected' = connected

(* What such a step leaves, seen from each variable. *)
LEMMA StartFacts ==
  ASSUME SearchInv, NEW s, NEW new, NEW bad, StartStep(s, new, bad)
  PROVE  /\ search' \in [Slots -> SearchRec]
         /\ \A t \in Slots \ {s} : search'[t] = search[t]
         /\ search'[s].id = nextId /\ search'[s].kind = new.kind
         /\ search'[s].hash = new.hash
         /\ Alive' = Alive \cup {s}
         /\ byId' = [byId EXCEPT ![nextId] = s]
         /\ \A h \in Hosts :
               /\ h \in connected \ bad =>
                    asked'[h] = asked[h] \cup {QueryOf(s, search'[s])}
               /\ h \notin connected \ bad => asked'[h] = asked[h]
         /\ asked' \in [Hosts -> SUBSET Query]
         /\ missed' = missed \cup {<<s, h>> : h \in bad}
         /\ clash' = clash \cup Clashes(nextId, new.kind)
         /\ UNCHANGED <<foreign, lost, failed>>
         /\ nextId \in Ids /\ nextId' \in Ids
<1> DEFINE good == connected \ bad
           rec == SentTo(new, good)
<1>1. good \in SUBSET Hosts
  BY DEF SearchInv
<1>2. /\ rec \in SearchRec /\ rec.alive = TRUE /\ rec.kind = new.kind
      /\ rec.id = nextId /\ rec.hash = new.hash
  BY <1>1, SentToFacts DEF StartStep
<1>3. /\ search' = [search EXCEPT ![s] = rec]
      /\ byId' = [byId EXCEPT ![nextId] = s]
      /\ nextId' = (nextId + 1) % IdSpace
      /\ asked' = [h \in Hosts |-> IF h \in good
                                   THEN asked[h] \cup {QueryOf(s, rec)}
                                   ELSE asked[h]]
      /\ missed' = missed \cup {<<s, h>> : h \in bad}
      /\ clash' = clash \cup Clashes(nextId, new.kind)
      /\ UNCHANGED <<foreign, lost, failed>>
  BY DEF StartStep, Started
<1> HIDE DEF rec
<1>4. s \in Slots /\ search \in [Slots -> SearchRec] /\ asked \in [Hosts -> SUBSET Query]
      /\ nextId \in Ids
  BY DEF StartStep, SearchInv, SearchTypeOK
<1>5. /\ search' \in [Slots -> SearchRec] /\ search'[s] = rec
      /\ \A t \in Slots \ {s} : search'[t] = search[t]
  BY <1>2, <1>3, <1>4
<1>6. Alive' = Alive \cup {s}
  BY <1>2, <1>4, <1>5 DEF Alive
<1>7. asked' \in [Hosts -> SUBSET Query]
  BY <1>2, <1>3, <1>4, QueryFacts
<1>8. nextId' \in Ids
  BY <1>3, <1>4, IdAssumption DEF Ids
<1> QED BY <1>2, <1>3, <1>4, <1>5, <1>6, <1>7, <1>8

LEMMA StartType ==
  ASSUME SearchInv, NEW s, NEW new, NEW bad, StartStep(s, new, bad)
  PROVE  SearchTypeOK' /\ connected' \subseteq Hosts
<1>0. /\ s \in Slots /\ bad \subseteq Hosts
      /\ byId \in [Ids -> Slots \cup {None}] /\ missed \subseteq Slots \X Hosts
      /\ clash \subseteq {"taken", "stale", "zero"}
  BY DEF StartStep, SearchInv, SearchTypeOK
<1>1. byId' \in [Ids -> Slots \cup {None}]
  BY <1>0, StartFacts
<1>2. byHash' \in [Hashes -> Slots \cup {None}]
  BY DEF StartStep, SearchInv, SearchTypeOK
<1>3. missed' \subseteq Slots \X Hosts
  BY <1>0, StartFacts
<1>4. clash' \subseteq {"taken", "stale", "zero"}
  <2>1. Clashes(nextId, new.kind) \subseteq {"taken", "stale", "zero"}
    BY DEF Clashes
  <2>2. clash' = clash \cup Clashes(nextId, new.kind)
    BY StartFacts
  <2> QED BY <1>0, <2>1, <2>2
<1>5. foreign' \subseteq Slots /\ lost' \subseteq Slots /\ failed' \in BOOLEAN
  BY StartFacts DEF SearchInv, SearchTypeOK
<1>6. connected' \subseteq Hosts
  BY DEF StartStep, SearchInv
<1> QED BY <1>1, <1>2, <1>3, <1>4, <1>5, <1>6, StartFacts DEF SearchTypeOK

(* An older entry of the id is replaced, its search stays alive; the hash  *)
(* was free.                                                               *)
LEMMA StartTables ==
  ASSUME SearchInv, NEW s, NEW new, NEW bad, StartStep(s, new, bad)
  PROVE  TablesOK'
<1>1. s \in Slots /\ s \notin Alive /\ s # None
  BY IdAssumption DEF StartStep
<1>2. byId \in [Ids -> Slots \cup {None}] /\ byHash \in [Hashes -> Slots \cup {None}]
      /\ Alive \subseteq Slots
  BY DEF SearchInv, SearchTypeOK, Alive
<1>3. ASSUME NEW i \in Ids, byId'[i] # None
      PROVE  byId'[i] \in Alive' /\ search'[byId'[i]].id = i
  BY <1>1, <1>2, <1>3, StartFacts DEF SearchInv, TablesOK
<1>4. ASSUME NEW f \in Hashes, byHash'[f] # None
      PROVE  /\ byHash'[f] \in Alive'
             /\ search'[byHash'[f]].kind = "locate" /\ search'[byHash'[f]].hash = f
  <2>1. CASE byHash'[f] = byHash[f]
    BY <1>1, <1>2, <1>4, <2>1, StartFacts DEF SearchInv, TablesOK
  <2>2. CASE new.kind = "locate" /\ f = new.hash /\ byHash'[f] = s
    BY <2>2, StartFacts
  <2> QED BY <1>2, <2>1, <2>2 DEF StartStep
<1>5. ASSUME NEW t \in Alive', search'[t].kind = "locate"
      PROVE  search'[t].hash \in Hashes /\ byHash'[search'[t].hash] = t
  <2>1. CASE t = s
    <3>1. new.kind = "locate" /\ search'[t].hash = new.hash
      BY <1>5, <2>1, StartFacts
    <3>2. new.hash \in Hashes /\ byHash' = [byHash EXCEPT ![new.hash] = s]
      BY <3>1 DEF StartStep
    <3> QED BY <1>2, <2>1, <3>1, <3>2
  <2>2. CASE t # s
    <3>1. t \in Alive /\ t \in Slots /\ search'[t] = search[t] /\ t # None
      BY <1>2, <2>2, StartFacts, IdAssumption
    <3>2. search[t].hash \in Hashes /\ byHash[search[t].hash] = t
      BY <1>5, <3>1 DEF SearchInv, TablesOK
    <3> QED BY <1>2, <3>1, <3>2 DEF StartStep
  <2> QED BY <2>1, <2>2
<1> QED BY <1>3, <1>4, <1>5 DEF TablesOK

LEMMA StartIds ==
  ASSUME SearchInv, NEW s, NEW new, NEW bad, StartStep(s, new, bad)
  PROVE  IdsOK'
<1>1. s \in Slots /\ s \notin Alive /\ Alive \subseteq Slots
      /\ byId \in [Ids -> Slots \cup {None}] /\ search \in [Slots -> SearchRec]
  BY DEF StartStep, SearchInv, SearchTypeOK, Alive
<1>2. ASSUME "taken" \notin clash', NEW t \in Alive'
      PROVE  byId'[search'[t].id] = t
  <2>1. "taken" \notin clash /\ byId[nextId] = None
    BY <1>2, StartFacts DEF Clashes
  <2>2. CASE t = s
    BY <1>1, <2>2, StartFacts
  <2>3. CASE t # s
    <3>1. t \in Alive /\ search'[t] = search[t] /\ t # None
      BY <1>1, <2>3, StartFacts, IdAssumption
    <3>2. byId[search[t].id] = t /\ search[t].id \in Ids
      BY <1>1, <2>1, <3>1 DEF SearchInv, IdsOK, SearchRec
    <3> QED BY <1>1, <2>1, <3>1, <3>2, StartFacts
  <2> QED BY <2>2, <2>3
<1>3. ASSUME "zero" \notin clash', NEW t \in Alive', search'[t].kind = "query"
      PROVE  search'[t].id # INVALID_SEARCH_ID
  <2>1. "zero" \notin clash /\ (new.kind = "query" => nextId # INVALID_SEARCH_ID)
    BY <1>3, StartFacts DEF Clashes
  <2>2. CASE t = s
    BY <1>3, <2>1, <2>2, StartFacts
  <2>3. CASE t # s
    BY <1>1, <1>3, <2>1, <2>3, StartFacts DEF SearchInv, IdsOK
  <2> QED BY <2>2, <2>3
<1> QED BY <1>2, <1>3 DEF IdsOK

LEMMA StartAsked ==
  ASSUME SearchInv, NEW s, NEW new, NEW bad, StartStep(s, new, bad)
  PROVE  AskedOK'
<1>1. s \in Slots /\ s \notin Alive /\ Alive \subseteq Slots /\ s # None
      /\ byId \in [Ids -> Slots \cup {None}] /\ search \in [Slots -> SearchRec]
      /\ asked \in [Hosts -> SUBSET Query]
  BY IdAssumption DEF StartStep, SearchInv, SearchTypeOK, Alive
<1>2. ASSUME NEW h \in Hosts, NEW q \in asked'[h]
      PROVE  /\ q.slot # None => Fits(q)'
             /\ q.kind = "locate" => q.slot # None
             /\ "stale" \notin clash' /\ q.kind = "query" /\ byId'[q.id] # None =>
                   byId'[q.id] = q.slot
  <2>1. CASE q = QueryOf(s, search'[s])
    <3>1. search'[s] \in SearchRec
      BY <1>1, StartFacts
    <3>2. /\ q.slot = s /\ q.kind = search'[s].kind /\ q.hash = search'[s].hash
          /\ q.kind = "query" => q.id = nextId
      BY <1>1, <2>1, <3>1, QueryFacts, StartFacts
    <3>3. Fits(q)'
      BY <1>1, <3>2, StartFacts DEF Fits
    <3> QED BY <1>1, <3>2, <3>3, StartFacts
  <2>2. CASE q \in asked[h]
    <3>1. q \in Query /\ q.id \in Ids
      BY <1>1, <2>2 DEF Query
    <3>2. q.slot # None => Fits(q)
      BY <2>2 DEF SearchInv, AskedOK
    <3>3. q.slot # None => Fits(q)'
      BY <1>1, <3>2, StartFacts DEF Fits
    <3>4. "stale" \notin clash' => "stale" \notin clash
                                   /\ (q.kind = "query" => q.id # nextId)
      BY <2>2, StartFacts DEF Clashes
    <3>5. "stale" \notin clash' /\ q.kind = "query" => byId'[q.id] = byId[q.id]
      BY <1>1, <3>1, <3>4, StartFacts
    <3> QED BY <2>2, <3>3, <3>4, <3>5 DEF SearchInv, AskedOK
  <2> QED BY <2>1, <2>2, StartFacts
<1> QED BY <1>2 DEF AskedOK

LEMMA StartSent ==
  ASSUME SearchInv, NEW s, NEW new, NEW bad, StartStep(s, new, bad)
  PROVE  SentToAll'
<1>1. s \in Slots /\ s \notin Alive /\ Alive \subseteq Slots /\ connected \subseteq Hosts
      /\ byId \in [Ids -> Slots \cup {None}] /\ search \in [Slots -> SearchRec]
      /\ connected' = connected /\ bad \subseteq connected
  BY DEF StartStep, SearchInv, SearchTypeOK, Alive
<1>2. ASSUME NEW t \in Alive', NEW h \in connected',
             byId'[search'[t].id] = t, ~search'[t].finished
      PROVE  (\E q \in asked'[h] : q.slot = t) \/ <<t, h>> \in missed'
  <2>1. CASE t = s /\ h \in bad
    BY <2>1, StartFacts
  <2>2. CASE t = s /\ h \notin bad
    <3>1. QueryOf(s, search'[s]) \in asked'[h]
      BY <1>1, <2>2, StartFacts
    <3>2. QueryOf(s, search'[s]).slot = s
      BY <1>1, StartFacts, QueryFacts
    <3> QED BY <2>2, <3>1, <3>2
  <2>3. CASE t # s
    <3>1. t \in Alive /\ search'[t] = search[t] /\ h \in Hosts
      BY <1>1, <2>3, StartFacts
    <3>2. search[t].id \in Ids
      BY <1>1, <3>1 DEF SearchRec
    <3>3. byId[search[t].id] = t
      BY <1>1, <1>2, <2>3, <3>1, <3>2, StartFacts
    <3>4. (\E q \in asked[h] : q.slot = t) \/ <<t, h>> \in missed
      BY <1>1, <1>2, <3>1, <3>3 DEF SearchInv, SentToAll
    <3> QED BY <3>1, <3>4, StartFacts
  <2> QED BY <2>1, <2>2, <2>3
<1> QED BY <1>2 DEF SentToAll

LEMMA StartOK ==
  ASSUME SearchInv, NEW s, NEW new, NEW bad, StartStep(s, new, bad)
  PROVE  SearchInv'
<1>1. OnlyIdReuseHurts'
  BY StartFacts DEF SearchInv, OnlyIdReuseHurts
<1> QED BY <1>1, StartType, StartTables, StartIds, StartAsked, StartSent
        DEF SearchInv

-----------------------------------------------------------------------------
(* A search is removed.                                                    *)

(* as_searchman_remove of a search both tables hold: afterwards neither    *)
(* leads to it, and no supernode's query is taken for another search's.    *)
RemoveStep(s) ==
    /\ s \in Alive
    /\ byId[search[s].id] = s
    /\ search[s].kind = "locate" => byHash[search[s].hash] = s
    /\ byId' = [byId EXCEPT ![search[s].id] = None]
    /\ byHash' = IF search[s].kind = "locate"
                 THEN [byHash EXCEPT ![search[s].hash] = None] ELSE byHash
    /\ Freed(s) /\ failed' = failed
    /\ connected' = connected

LEMMA RemoveFacts ==
  ASSUME SearchInv, NEW s, RemoveStep(s)
  PROVE  /\ s \in Slots /\ s # None /\ search[s].id \in Ids
         /\ Alive \subseteq Slots /\ Alive' = Alive \ {s}
         /\ search' \in [Slots -> SearchRec]
         /\ \A t \in Slots \ {s} : search'[t] = search[t]
         /\ byId' \in [Ids -> Slots \cup {None}]
         /\ byHash' \in [Hashes -> Slots \cup {None}]
         /\ \A i \in Ids \ {search[s].id} : byId'[i] = byId[i]
         /\ byId'[search[s].id] = None
         /\ UNCHANGED <<nextId, clash, failed, connected>>
<1>1. /\ s \in Slots /\ s # None /\ Alive \subseteq Slots
      /\ search \in [Slots -> SearchRec] /\ search[s] \in SearchRec
      /\ byId \in [Ids -> Slots \cup {None}]
      /\ byHash \in [Hashes -> Slots \cup {None}]
  BY IdAssumption DEF RemoveStep, Alive, SearchInv, SearchTypeOK
<1>2. search[s].id \in Ids
  BY <1>1 DEF SearchRec
<1>3. search' = [search EXCEPT ![s] = NoSearch] /\ UNCHANGED <<nextId, clash>>
  BY DEF RemoveStep, Freed
<1>4. /\ search' \in [Slots -> SearchRec] /\ search'[s] = NoSearch
      /\ \A t \in Slots \ {s} : search'[t] = search[t]
  BY <1>1, <1>3, NoSearchFacts
<1>5. Alive' = Alive \ {s}
  BY <1>1, <1>4, NoSearchFacts DEF Alive
<1>6. byId' \in [Ids -> Slots \cup {None}] /\ byId'[search[s].id] = None
      /\ \A i \in Ids \ {search[s].id} : byId'[i] = byId[i]
  BY <1>1, <1>2 DEF RemoveStep
<1>7. byHash' \in [Hashes -> Slots \cup {None}]
  BY <1>1 DEF RemoveStep
<1> QED BY <1>1, <1>2, <1>3, <1>4, <1>5, <1>6, <1>7 DEF RemoveStep

(* The queries that are left, and those whose search is gone now. *)
LEMMA RemoveAsked ==
  ASSUME SearchInv, NEW s, RemoveStep(s)
  PROVE  /\ asked' \in [Hosts -> SUBSET Query]
         /\ \A h \in Hosts : \A q \in asked'[h] :
               \/ q \in asked[h] /\ q.slot # s
               \/ \E r \in asked[h] : /\ r.slot = s /\ r.kind = "query"
                                      /\ q.slot = None /\ q.kind = "query"
                                      /\ q.id = r.id
         /\ \A h \in Hosts : \A q \in asked[h] :
               q.slot # s => q \in asked'[h]
<1>1. asked \in [Hosts -> SUBSET Query]
  BY DEF SearchInv, SearchTypeOK
<1>2. asked' = [h \in Hosts |->
                 {[q EXCEPT !.slot = IF q.slot = s THEN None ELSE q.slot] :
                    q \in {r \in asked[h] : ~(r.kind = "locate" /\ r.slot = s)}}]
  BY DEF RemoveStep, Freed
<1>3. ASSUME NEW q \in Query
      PROVE  /\ q.slot # s => [q EXCEPT !.slot = IF q.slot = s THEN None ELSE q.slot] = q
             /\ [q EXCEPT !.slot = IF q.slot = s THEN None ELSE q.slot] \in Query
             /\ q.kind # "locate" => q.kind = "query"
             /\ [q EXCEPT !.slot = None].slot = None
             /\ [q EXCEPT !.slot = None].kind = q.kind
             /\ [q EXCEPT !.slot = None].id = q.id
  BY DEF Query
<1>4. ASSUME NEW h \in Hosts, NEW q \in asked'[h]
      PROVE  /\ \/ q \in asked[h] /\ q.slot # s
                \/ \E r \in asked[h] : /\ r.slot = s /\ r.kind = "query"
                                       /\ q.slot = None /\ q.kind = "query"
                                       /\ q.id = r.id
             /\ q \in Query
  <2>1. PICK r \in asked[h] :
           /\ ~(r.kind = "locate" /\ r.slot = s)
           /\ q = [r EXCEPT !.slot = IF r.slot = s THEN None ELSE r.slot]
    BY <1>2, <1>4
  <2>2. r \in Query
    BY <1>1
  <2>3. CASE r.slot # s
    BY <1>3, <2>1, <2>2, <2>3
  <2>4. CASE r.slot = s
    <3>1. q = [r EXCEPT !.slot = None]
      BY <2>1, <2>4
    <3> QED BY <1>3, <2>1, <2>2, <2>4, <3>1
  <2> QED BY <2>3, <2>4
<1>5. ASSUME NEW h \in Hosts, NEW q \in asked[h], q.slot # s
      PROVE  q \in asked'[h]
  <2>1. q \in Query /\ q = [q EXCEPT !.slot = IF q.slot = s THEN None ELSE q.slot]
    BY <1>1, <1>3, <1>5
  <2> QED BY <1>2, <1>5, <2>1
<1>6. asked' \in [Hosts -> SUBSET Query]
  BY <1>2, <1>4
<1> QED BY <1>4, <1>5, <1>6

LEMMA RemoveTables ==
  ASSUME SearchInv, NEW s, RemoveStep(s)
  PROVE  TablesOK'
<1>1. byId \in [Ids -> Slots \cup {None}] /\ byHash \in [Hashes -> Slots \cup {None}]
      /\ s \in Alive
  BY DEF SearchInv, SearchTypeOK, RemoveStep
<1>2. ASSUME NEW i \in Ids, byId'[i] # None
      PROVE  byId'[i] \in Alive' /\ search'[byId'[i]].id = i
  BY <1>1, <1>2, RemoveFacts DEF SearchInv, TablesOK
<1>3. ASSUME NEW f \in Hashes, byHash'[f] # None
      PROVE  /\ byHash'[f] \in Alive'
             /\ search'[byHash'[f]].kind = "locate" /\ search'[byHash'[f]].hash = f
  <2>1. byHash'[f] = byHash[f] /\ (search[s].kind = "locate" => f # search[s].hash)
    BY <1>1, <1>3 DEF RemoveStep
  <2>2. /\ byHash[f] \in Alive /\ search[byHash[f]].kind = "locate"
        /\ search[byHash[f]].hash = f
    BY <1>3, <2>1 DEF SearchInv, TablesOK
  <2>3. byHash[f] # s
    BY <2>1, <2>2
  <2> QED BY <2>1, <2>2, <2>3, RemoveFacts
<1>4. ASSUME NEW t \in Alive', search'[t].kind = "locate"
      PROVE  search'[t].hash \in Hashes /\ byHash'[search'[t].hash] = t
  <2>1. t \in Alive /\ t # s /\ search'[t] = search[t]
    BY RemoveFacts
  <2>2. search[t].hash \in Hashes /\ byHash[search[t].hash] = t
    BY <1>4, <2>1 DEF SearchInv, TablesOK
  <2> QED BY <1>1, <2>1, <2>2 DEF RemoveStep
<1> QED BY <1>2, <1>3, <1>4 DEF TablesOK

LEMMA RemoveIds ==
  ASSUME SearchInv, NEW s, RemoveStep(s)
  PROVE  IdsOK'
<1>1. ASSUME "taken" \notin clash', NEW t \in Alive'
      PROVE  byId'[search'[t].id] = t
  <2>1. t \in Alive /\ t # s /\ search'[t] = search[t] /\ t \in Slots
    BY RemoveFacts
  <2>2. byId[search[t].id] = t /\ search[t].id \in Ids
    BY <1>1, <2>1, RemoveFacts DEF SearchInv, IdsOK, SearchTypeOK, SearchRec
  <2>3. search[t].id # search[s].id
    BY <2>1, <2>2 DEF RemoveStep
  <2> QED BY <2>1, <2>2, <2>3, RemoveFacts
<1>2. ASSUME "zero" \notin clash', NEW t \in Alive', search'[t].kind = "query"
      PROVE  search'[t].id # INVALID_SEARCH_ID
  BY <1>2, RemoveFacts DEF SearchInv, IdsOK
<1> QED BY <1>1, <1>2 DEF IdsOK

LEMMA RemoveQueries ==
  ASSUME SearchInv, NEW s, RemoveStep(s)
  PROVE  AskedOK'
<1>1. ASSUME NEW h \in Hosts, NEW q \in asked'[h]
      PROVE  /\ q.slot # None => Fits(q)'
             /\ q.kind = "locate" => q.slot # None
             /\ "stale" \notin clash' /\ q.kind = "query" /\ byId'[q.id] # None =>
                   byId'[q.id] = q.slot
  <2>1. CASE q \in asked[h] /\ q.slot # s
    <3>1. q.slot # None => Fits(q)
      BY <2>1 DEF SearchInv, AskedOK
    <3>2. q.slot # None => Fits(q)'
      BY <2>1, <3>1, RemoveFacts DEF Fits
    <3>3. q.id \in Ids
      BY <2>1 DEF SearchInv, SearchTypeOK, Query
    <3> QED BY <2>1, <3>2, <3>3, RemoveFacts DEF SearchInv, AskedOK
  <2>2. ASSUME NEW r \in asked[h], r.slot = s, r.kind = "query",
               q.slot = None, q.kind = "query", q.id = r.id
        PROVE  byId'[q.id] = None
    <3>1. Fits(r)
      BY <2>2, RemoveFacts DEF SearchInv, AskedOK
    <3> QED BY <2>2, <3>1, RemoveFacts DEF Fits
  <2> QED BY <1>1, <2>1, <2>2, RemoveAsked
<1> QED BY <1>1 DEF AskedOK

LEMMA RemoveSent ==
  ASSUME SearchInv, NEW s, RemoveStep(s)
  PROVE  SentToAll'
<1>1. ASSUME NEW t \in Alive', NEW h \in connected',
             byId'[search'[t].id] = t, ~search'[t].finished
      PROVE  (\E q \in asked'[h] : q.slot = t) \/ <<t, h>> \in missed'
  <2>1. /\ t \in Alive /\ t # s /\ search'[t] = search[t] /\ t \in Slots
        /\ t # None /\ h \in Hosts /\ h \in connected
    BY RemoveFacts, IdAssumption DEF SearchInv
  <2>2. search[t].id \in Ids
    BY <2>1 DEF SearchInv, SearchTypeOK, SearchRec
  <2>3. byId[search[t].id] = t
    BY <1>1, <2>1, <2>2, RemoveFacts
  <2>4. (\E q \in asked[h] : q.slot = t) \/ <<t, h>> \in missed
    BY <1>1, <2>1, <2>3 DEF SearchInv, SentToAll
  <2>5. missed' = {p \in missed : p[1] # s}
    BY DEF RemoveStep, Freed
  <2> QED BY <2>1, <2>4, <2>5, RemoveAsked
<1> QED BY <1>1 DEF SentToAll

LEMMA RemoveOK ==
  ASSUME SearchInv, NEW s, RemoveStep(s)
  PROVE  SearchInv'
<1>1. /\ missed' \subseteq missed /\ foreign' \subseteq foreign
      /\ lost' \subseteq lost
  BY DEF RemoveStep, Freed
<1>2. SearchTypeOK' /\ connected' \subseteq Hosts
  BY <1>1, RemoveFacts, RemoveAsked DEF SearchInv, SearchTypeOK
<1>3. OnlyIdReuseHurts'
  BY <1>1, RemoveFacts DEF SearchInv, OnlyIdReuseHurts
<1> QED BY <1>2, <1>3, RemoveTables, RemoveIds, RemoveQueries, RemoveSent
        DEF SearchInv

(* as_searchman_remove: its asserts hold unless an id in use was taken. *)
LEMMA RemoveSearchOK ==
  ASSUME SearchInv, NEW s \in Alive, RemoveSearch(s), connected' = connected
  PROVE  SearchInv'
<1>1. search[s].kind = "locate" => byHash[search[s].hash] = s
  BY DEF SearchInv, TablesOK
<1>2. CASE byId[search[s].id] # s
  <2>1. "taken" \in clash
    BY <1>2 DEF SearchInv, IdsOK
  <2>2. /\ failed' = TRUE
        /\ UNCHANGED <<search, byId, byHash, nextId, asked, missed, clash,
                       foreign, lost>>
    BY <1>2 DEF RemoveSearch
  <2>3. Alive' = Alive
    BY <2>2 DEF Alive
  <2> QED BY <2>1, <2>2, <2>3 DEF SearchInv, SearchTypeOK, TablesOK, IdsOK,
             AskedOK, Fits, OnlyIdReuseHurts, SentToAll
<1>3. CASE byId[search[s].id] = s
  <2>1. RemoveStep(s)
    BY <1>1, <1>3 DEF RemoveSearch, RemoveStep
  <2> QED BY <2>1, RemoveOK
<1> QED BY <1>2, <1>3

-----------------------------------------------------------------------------
(* Steps that leave every search what it is.                               *)

(* Only who has had a search, its timeout and whether it is finished may   *)
(* change: the tables and ids are as good as before.                       *)
SameSearches ==
    /\ search' \in [Slots -> SearchRec]
    /\ Alive' = Alive
    /\ \A s \in Slots : /\ search'[s].kind = search[s].kind
                        /\ search'[s].id = search[s].id
                        /\ search'[s].hash = search[s].hash
    /\ UNCHANGED <<byId, byHash, nextId, clash, failed>>

LEMMA SameOK ==
  ASSUME SearchInv, SameSearches
  PROVE  TablesOK' /\ IdsOK'
<1>1. Alive \subseteq Slots /\ byId \in [Ids -> Slots \cup {None}]
      /\ byHash \in [Hashes -> Slots \cup {None}]
  BY DEF Alive, SearchInv, SearchTypeOK
<1>2. TablesOK'
  BY <1>1 DEF SearchInv, TablesOK, SameSearches
<1>3. IdsOK'
  BY <1>1 DEF SearchInv, IdsOK, SameSearches
<1> QED BY <1>2, <1>3

(* SESSION_CONNECTED: what waits is sent to the new supernode. *)
LEMMA SessionUpOK ==
  ASSUME SearchInv, NEW h \in Hosts, SessionUp(h)
  PROVE  SearchInv'
<1>1. PICK bad \in SUBSET ToSend(h) :
         /\ search' = [s \in Slots |-> IF s \in ToSend(h) \ bad
                                        THEN SentTo(search[s], {h}) ELSE search[s]]
         /\ asked' = [asked EXCEPT ![h] =
                         {QueryOf(s, search[s]) : s \in ToSend(h) \ bad}]
         /\ missed' = missed \cup {<<s, h>> : s \in bad}
                      \cup {<<s, h>> : s \in {t \in Alive : h \in search[t].sent}}
         /\ UNCHANGED <<byId, byHash, nextId, clash, foreign, lost, failed>>
  BY DEF SessionUp, SearchNewSession
<1>2. connected' = connected \cup {h} /\ h \notin connected
  BY DEF SessionUp
<1>3. /\ search \in [Slots -> SearchRec] /\ asked \in [Hosts -> SUBSET Query]
      /\ missed \subseteq Slots \X Hosts /\ Alive \subseteq Slots
      /\ ToSend(h) \subseteq Alive
      /\ \A s \in ToSend(h) : byId[search[s].id] = s
  BY DEF SearchInv, SearchTypeOK, Alive, ToSend
<1>4. ASSUME NEW s \in Slots
      PROVE  /\ search'[s] \in SearchRec
             /\ search'[s].alive = search[s].alive
             /\ search'[s].kind = search[s].kind /\ search'[s].id = search[s].id
             /\ search'[s].hash = search[s].hash
             /\ search'[s].finished = search[s].finished
  <2>1. search[s] \in SearchRec /\ {h} \in SUBSET Hosts
    BY <1>3
  <2> QED BY <1>1, <2>1, SentToFacts
<1>5. Alive' = Alive
  BY <1>4 DEF Alive
<1>6. SameSearches
  <2>1. search' \in [Slots -> SearchRec]
    BY <1>1, <1>4
  <2> QED BY <1>1, <1>4, <1>5, <2>1 DEF SameSearches
<1>7. SearchTypeOK' /\ connected' \subseteq Hosts
  <2>1. {QueryOf(s, search[s]) : s \in ToSend(h) \ bad} \subseteq Query
    BY <1>3, QueryFacts
  <2>2. asked' \in [Hosts -> SUBSET Query]
    BY <1>1, <1>3, <2>1
  <2>3. missed' \subseteq Slots \X Hosts
    BY <1>1, <1>3
  <2> QED BY <1>1, <1>2, <1>6, <2>2, <2>3
          DEF SameSearches, SearchInv, SearchTypeOK
<1>8. AskedOK'
  <2>1. ASSUME NEW g \in Hosts, NEW q \in asked'[g]
        PROVE  /\ q.slot # None => Fits(q)'
               /\ q.kind = "locate" => q.slot # None
               /\ "stale" \notin clash' /\ q.kind = "query" /\ byId'[q.id] # None =>
                     byId'[q.id] = q.slot
    <3>1. CASE g # h
      <4>1. q \in asked[g]
        BY <1>1, <1>3, <2>1, <3>1
      <4>2. q.slot # None => Fits(q)
        BY <4>1 DEF SearchInv, AskedOK
      <4>3. q.slot # None => Fits(q)'
        BY <1>3, <1>4, <1>5, <4>2 DEF Fits
      <4> QED BY <1>1, <4>1, <4>3 DEF SearchInv, AskedOK
    <3>2. CASE g = h
      <4>1. PICK s \in ToSend(h) \ bad : q = QueryOf(s, search[s])
        BY <1>1, <1>3, <2>1, <3>2
      <4>2. s \in Alive /\ s \in Slots /\ s # None /\ search[s] \in SearchRec
            /\ byId[search[s].id] = s
        BY <1>3, <4>1, IdAssumption
      <4>3. /\ q.slot = s /\ q.kind = search[s].kind /\ q.hash = search[s].hash
            /\ q.kind = "query" => q.id = search[s].id
        BY <4>1, <4>2, QueryFacts
      <4>4. Fits(q)'
        BY <1>4, <1>5, <4>2, <4>3 DEF Fits
      <4> QED BY <1>1, <4>2, <4>3, <4>4
    <3> QED BY <3>1, <3>2
  <2> QED BY <2>1 DEF AskedOK
<1>9. SentToAll'
  <2>1. ASSUME NEW t \in Alive', NEW g \in connected',
               byId'[search'[t].id] = t, ~search'[t].finished
        PROVE  (\E q \in asked'[g] : q.slot = t) \/ <<t, g>> \in missed'
    <3>1. t \in Alive /\ t \in Slots /\ byId[search[t].id] = t
          /\ ~search[t].finished /\ search[t] \in SearchRec
      BY <1>1, <1>3, <1>4, <1>5, <2>1
    <3>2. CASE g # h
      BY <1>1, <1>2, <1>3, <2>1, <3>1, <3>2 DEF SearchInv, SentToAll
    <3>3. CASE g = h /\ t \in ToSend(h) \ bad
      <4>1. QueryOf(t, search[t]) \in asked'[h]
        BY <1>1, <1>3, <3>3
      <4>2. QueryOf(t, search[t]).slot = t
        BY <3>1, QueryFacts
      <4> QED BY <3>3, <4>1, <4>2
    <3>4. CASE g = h /\ t \in bad
      BY <1>1, <3>4
    <3>5. CASE g = h /\ t \notin ToSend(h)
      <4>1. h \in search[t].sent
        BY <3>1, <3>5 DEF ToSend
      <4> QED BY <1>1, <3>1, <3>5, <4>1
    <3> QED BY <3>2, <3>3, <3>4, <3>5
  <2> QED BY <2>1 DEF SentToAll
<1>10. OnlyIdReuseHurts'
  BY <1>1 DEF SearchInv, OnlyIdReuseHurts
<1> QED BY <1>6, <1>7, <1>8, <1>9, <1>10, SameOK DEF SearchInv

(* A session ends: its supernode answers nothing any more. *)
LEMMA SessionDownOK ==
  ASSUME SearchInv, NEW h \in Hosts, SessionDown(h)
  PROVE  SearchInv'
<1>1. /\ connected' = connected \ {h} /\ asked' = [asked EXCEPT ![h] = {}]
      /\ UNCHANGED <<search, byId, byHash, nextId, missed, clash, foreign, lost,
                     failed>>
  BY DEF SessionDown, SearchLostSession
<1>2. Alive' = Alive
  BY <1>1 DEF Alive
<1>3. asked \in [Hosts -> SUBSET Query]
  BY DEF SearchInv, SearchTypeOK
<1>4. \A g \in Hosts : asked'[g] \subseteq asked[g] /\ (g # h => asked'[g] = asked[g])
  BY <1>1, <1>3
<1>5. SearchTypeOK' /\ connected' \subseteq Hosts
  BY <1>1, <1>3 DEF SearchInv, SearchTypeOK
<1>6. TablesOK' /\ IdsOK' /\ OnlyIdReuseHurts'
  BY <1>1, <1>2 DEF SearchInv, TablesOK, IdsOK, OnlyIdReuseHurts
<1>7. AskedOK'
  BY <1>1, <1>2, <1>4 DEF SearchInv, AskedOK, Fits
<1>8. SentToAll'
  BY <1>1, <1>2, <1>4 DEF SearchInv, SentToAll
<1> QED BY <1>5, <1>6, <1>7, <1>8 DEF SearchInv

(* aresdll's callback only marks the search. *)
LEMMA DllFinishedOK ==
  ASSUME SearchInv, NEW s \in Alive, DllFinished(s), connected' = connected
  PROVE  SearchInv'
<1>1. /\ search' = [search EXCEPT ![s] = [search[s] EXCEPT !.finished = TRUE,
                                                           !.timer = FALSE]]
      /\ UNCHANGED <<byId, byHash, nextId, asked, missed, clash, foreign, lost,
                     failed>>
  BY DEF DllFinished
<1>2. s \in Slots /\ search \in [Slots -> SearchRec] /\ Alive \subseteq Slots
  BY DEF Alive, SearchInv, SearchTypeOK
<1> DEFINE r == [search[s] EXCEPT !.finished = TRUE, !.timer = FALSE]
<1>3. /\ r \in SearchRec /\ r.alive = search[s].alive
      /\ r.kind = search[s].kind /\ r.id = search[s].id
      /\ r.hash = search[s].hash /\ r.finished = TRUE
  BY <1>2 DEF SearchRec
<1> HIDE DEF r
<1>4. /\ search' \in [Slots -> SearchRec] /\ search'[s] = r
      /\ \A t \in Slots \ {s} : search'[t] = search[t]
  BY <1>1, <1>2, <1>3 DEF r
<1>5. Alive' = Alive
  BY <1>2, <1>3, <1>4 DEF Alive
<1>6. SameSearches
  BY <1>1, <1>2, <1>3, <1>4, <1>5 DEF SameSearches
<1>7. SearchTypeOK' /\ OnlyIdReuseHurts'
  BY <1>1, <1>4 DEF SearchInv, SearchTypeOK, OnlyIdReuseHurts
<1>8. AskedOK'
  BY <1>1, <1>2, <1>5, <1>6 DEF SameSearches, SearchInv, AskedOK, Fits
<1>9. SentToAll'
  <2>1. ASSUME NEW t \in Alive', NEW g \in connected',
               byId'[search'[t].id] = t, ~search'[t].finished
        PROVE  (\E q \in asked'[g] : q.slot = t) \/ <<t, g>> \in missed'
    <3>1. t # s
      BY <1>3, <1>4, <2>1
    <3>2. t \in Alive /\ t \in Slots /\ search'[t] = search[t]
      BY <1>2, <1>4, <1>5, <3>1
    <3> QED BY <1>1, <2>1, <3>2 DEF SearchInv, SentToAll
  <2> QED BY <2>1 DEF SentToAll
<1> QED BY <1>6, <1>7, <1>8, <1>9, SameOK DEF SearchInv

-----------------------------------------------------------------------------
(* Results.                                                                *)

(* as_searchman_result finds the search a result was meant for, and no     *)
(* other, unless an id was given out too early.                            *)
LEMMA ResultOK ==
  ASSUME SearchInv, NEW h \in Hosts, NEW hash \in Hashes, NEW q \in asked[h],
         Result(h, q, hash), connected' = connected
  PROVE  SearchInv'
<1> DEFINE t == Target(q, hash)
           takes == t # None /\ ~search[t].finished
           meant == q.slot # None /\ ~search[q.slot].finished
<1>1. /\ foreign' = IF takes /\ t # q.slot
                       /\ ~(search[t].kind = "locate" /\ search[t].hash = hash)
                    THEN foreign \cup {t} ELSE foreign
      /\ lost' = IF meant /\ t # q.slot THEN lost \cup {q.slot} ELSE lost
      /\ q.kind = "locate" => hash = q.hash
      /\ UNCHANGED <<search, byId, byHash, nextId, asked, missed, clash, failed>>
  BY DEF Result
<1>2. q \in Query /\ byId \in [Ids -> Slots \cup {None}]
      /\ byHash \in [Hashes -> Slots \cup {None}]
      /\ foreign \subseteq Slots /\ lost \subseteq Slots
  BY DEF SearchInv, SearchTypeOK
<1>3. q.id \in Ids /\ q.slot \in Slots \cup {None} /\ q.kind \in {"query", "locate"}
  BY <1>2 DEF Query
<1>4. t \in Slots \cup {None}
  BY <1>2, <1>3 DEF Target
<1>5. foreign' \subseteq Slots /\ lost' \subseteq Slots
  BY <1>1, <1>2, <1>3, <1>4
<1>6. ASSUME t # None, t # q.slot, "stale" \notin clash
      PROVE  search[t].kind = "locate" /\ search[t].hash = hash
  <2>1. CASE q.kind = "locate" \/ q.id = INVALID_SEARCH_ID
    BY <1>6, <2>1 DEF Target, SearchInv, TablesOK
  <2>2. CASE q.kind = "query" /\ q.id # INVALID_SEARCH_ID
    BY <1>6, <2>2 DEF Target, SearchInv, AskedOK
  <2> QED BY <1>3, <2>1, <2>2
<1>7. ASSUME q.slot # None, "taken" \notin clash, "zero" \notin clash
      PROVE  t = q.slot
  <2>1. Fits(q)
    BY <1>7 DEF SearchInv, AskedOK
  <2>2. CASE q.kind = "locate"
    <3>1. /\ q.slot \in Alive /\ search[q.slot].kind = "locate"
          /\ search[q.slot].hash = hash
      BY <1>1, <2>1, <2>2 DEF Fits
    <3>2. byHash[hash] = q.slot
      BY <3>1 DEF SearchInv, TablesOK
    <3> QED BY <2>2, <3>2 DEF Target
  <2>3. CASE q.kind = "query"
    <3>1. q.id # INVALID_SEARCH_ID /\ byId[q.id] = q.slot
      BY <1>7, <2>1, <2>3 DEF Fits, SearchInv, IdsOK
    <3> QED BY <2>3, <3>1 DEF Target
  <2> QED BY <1>3, <2>2, <2>3
<1> HIDE DEF t
<1>8. OnlyIdReuseHurts'
  <2>1. "stale" \notin clash => foreign' = foreign
    BY <1>1, <1>6
  <2>2. "taken" \notin clash /\ "zero" \notin clash => lost' = lost
    BY <1>1, <1>7
  <2> QED BY <1>1, <2>1, <2>2 DEF SearchInv, OnlyIdReuseHurts
<1>9. Alive' = Alive
  BY <1>1 DEF Alive
<1> QED BY <1>1, <1>5, <1>8, <1>9 DEF SearchInv, SearchTypeOK, TablesOK, IdsOK,
           AskedOK, Fits, SentToAll

-----------------------------------------------------------------------------
(* Every step keeps the invariant.                                         *)

(* as_searchman_search and as_searchman_locate are StartSteps. *)
LEMMA SearchedOK ==
  ASSUME SearchInv, NEW s \in Slots, NEW owner \in Owners, Searched(s, owner),
         connected' = connected
  PROVE  SearchInv'
<1>1. nextId \in Ids
  BY DEF SearchInv, SearchTypeOK
<1>2. PICK bad \in SUBSET connected : Started(s, NewQuery(owner), bad)
  BY DEF Searched, NewQuery
<1>3. s \notin Alive /\ byHash' = byHash
  BY DEF Searched
<1>4. NewQuery(owner) \in SearchRec /\ NewQuery(owner).alive = TRUE
      /\ NewQuery(owner).id = nextId /\ NewQuery(owner).kind = "query"
  <2>1. CASE Hashes # {}
    BY <1>1, <2>1, NewFacts
  <2>2. CASE Hashes = {}
    BY <1>1, NoSearchFacts DEF SearchRec, NewQuery, NoSearch
  <2> QED BY <2>1, <2>2
<1>5. StartStep(s, NewQuery(owner), bad)
  BY <1>2, <1>3, <1>4 DEF StartStep
<1> QED BY <1>5, StartOK

LEMMA LocatedOK ==
  ASSUME SearchInv, NEW s \in Slots, NEW owner \in Owners, NEW hash \in Hashes,
         Located(s, owner, hash), connected' = connected
  PROVE  SearchInv'
<1>1. nextId \in Ids
  BY DEF SearchInv, SearchTypeOK
<1>2. PICK bad \in SUBSET connected : Started(s, NewLocate(owner, hash), bad)
  BY DEF Located, NewLocate
<1>3. s \notin Alive /\ byHash' = [byHash EXCEPT ![hash] = s] /\ byHash[hash] = None
  BY DEF Located, Unlocated
<1>4. StartStep(s, NewLocate(owner, hash), bad)
  BY <1>1, <1>2, <1>3, NewFacts DEF StartStep
<1> QED BY <1>4, StartOK

LEMMA SearchStepOK ==
  ASSUME SearchInv, SearchStep, connected' = connected
  PROVE  SearchInv'
<1>0. "gift" \in Owners /\ "dll" \in Owners /\ "download" \in Owners
  BY DEF Owners
<1>1. ASSUME NEW s \in Slots, GiftSearch(s) \/ DllSearch(s)
      PROVE  SearchInv'
  BY <1>0, <1>1, SearchedOK DEF GiftSearch, DllSearch
<1>2. ASSUME NEW s \in Slots, NEW f \in Hashes, GiftLocate(s, f) \/ FindSources(s, f)
      PROVE  SearchInv'
  BY <1>0, <1>2, LocatedOK DEF GiftLocate, FindSources
<1>3. ASSUME NEW s \in Slots, GiftCancel(s) \/ DllRemove(s) \/ DownloadEnds(s)
      PROVE  SearchInv'
  BY <1>3, RemoveSearchOK DEF GiftCancel, DllRemove, DownloadEnds, Removes
<1>4. ASSUME NEW s \in Slots, FinishTimer(s) \/ Stop(s)
      PROVE  SearchInv'
  BY <1>4, RemoveSearchOK, DllFinishedOK
     DEF FinishTimer, Stop, Finish, GiftFinished, DownloadFinished
<1>5. ASSUME NEW h \in Hosts, NEW f \in Hashes, NEW q \in asked[h], Result(h, q, f)
      PROVE  SearchInv'
  BY <1>5, ResultOK
<1> QED BY <1>1, <1>2, <1>3, <1>4, <1>5 DEF SearchStep

(* Nothing the searches depend on changes. *)
LEMMA SearchUnchanged ==
  ASSUME SearchInv, UNCHANGED <<searchVars, connected>>
  PROVE  SearchInv'
<1>1. Alive' = Alive
  BY DEF searchVars, Alive
<1> QED BY <1>1 DEF searchVars, SearchInv, SearchTypeOK, TablesOK, IdsOK, AskedOK,
           Fits, OnlyIdReuseHurts, SentToAll

(* SearchInv is an inductive invariant of the specification. *)
THEOREM SearchInvariance == AnnSpec => []SearchInv
<1>1. AnnInit => SearchInv
  <2> SUFFICES ASSUME AnnInit PROVE SearchInv
    OBVIOUS
  <2>1. SearchInit /\ connected = {}
    BY DEF AnnInit
  <2>2. Alive = {}
    BY <2>1, NoSearchFacts DEF SearchInit, Alive
  <2>3. 1 \in Ids
    BY IdAssumption DEF Ids
  <2>4. SearchTypeOK
    <3>1. search \in [Slots -> SearchRec]
      BY <2>1, NoSearchFacts DEF SearchInit
    <3>2. nextId \in Ids
      BY <2>1, <2>3 DEF SearchInit, INVALID_SEARCH_ID
    <3>3. failed \in BOOLEAN
      BY <2>1 DEF SearchInit
    <3> QED BY <2>1, <3>1, <3>2, <3>3 DEF SearchInit, SearchTypeOK
  <2>5. TablesOK /\ IdsOK
    BY <2>1, <2>2 DEF SearchInit, TablesOK, IdsOK
  <2> QED BY <2>1, <2>2, <2>4, <2>5 DEF SearchInit, SearchInv, AskedOK,
             OnlyIdReuseHurts, SentToAll
<1>2. SearchInv /\ [AnnNext]_annVars => SearchInv'
  <2> SUFFICES ASSUME SearchInv, [AnnNext]_annVars PROVE SearchInv'
    OBVIOUS
  <2>1. CASE UNCHANGED annVars
    BY <2>1, SearchUnchanged DEF annVars
  <2>2. CASE AnnNext
    BY <2>2, SessionUpOK, SessionDownOK, SearchStepOK, SearchUnchanged DEF AnnNext
  <2> QED BY <2>1, <2>2
<1> QED BY <1>1, <1>2, PTL DEF AnnSpec

(* Neither table of the search manager leads to a search that was freed or *)
(* has another key, and every hash search alive is found by its hash,      *)
(* whatever is searched, answered, cancelled or disconnected, and even     *)
(* when the 16 bit ids wrap around.                                        *)
THEOREM TablesSafe == AnnSpec => []TablesLive
<1>1. SearchInv => TablesLive
  BY DEF SearchInv, TablesOK, TablesLive
<1> QED BY <1>1, SearchInvariance, PTL

(* The asserts of as_searchman_remove and the delivery of results depend   *)
(* on nothing but ids not being given out too early.                       *)
THEOREM IdReuse == AnnSpec => []OnlyIdReuseHurts
<1>1. SearchInv => OnlyIdReuseHurts
  BY DEF SearchInv
<1> QED BY <1>1, SearchInvariance, PTL

(* Every search reaches every supernode, whichever came first, unless a    *)
(* packet could not be sent or the supernode had it before.                *)
THEOREM SentSafe == AnnSpec => []SentToAll
<1>1. SearchInv => SentToAll
  BY DEF SearchInv
<1> QED BY <1>1, SearchInvariance, PTL

-----------------------------------------------------------------------------
(* The file server.                                                        *)

(* Steps of the others leave the server's record alone. *)
LEMMA ServerStep ==
  ASSUME [AnnNext]_annVars
  PROVE  UNCHANGED server \/ SigHup \/ LoadBegin \/ LoadRefused \/ LoadEnd
  BY DEF AnnNext, annVars, shareVars, SessionUp, SessionDown, SharesNewSession,
         SharesLostSession, SharesStep, GiftAdd, GiftRemove, ShareAdd, GiftSubmit,
         ShareBegin, ShareEnd

(* ServerOK is an invariant of the specification, whatever the library    *)
(* does meanwhile.                                                         *)
THEOREM ServerInvariance == AnnSpec => []ServerOK
<1>1. AnnInit => ServerOK
  BY DEF AnnInit, SharesInit, ServerOK
<1>2. ServerOK /\ [AnnNext]_annVars => ServerOK'
  <2> SUFFICES ASSUME ServerOK, [AnnNext]_annVars PROVE ServerOK'
    OBVIOUS
  <2>1. CASE UNCHANGED server
    BY <2>1 DEF ServerOK
  <2>2. CASE SigHup
    <3>1. server' = [server EXCEPT !.flag = TRUE, !.hups = server.hups + 1,
                        !.late = IF server.load = "none" THEN server.late
                                 ELSE server.hups + 1]
      BY <2>2 DEF SigHup
    <3>2. CASE server.load = "none"
      BY <3>1, <3>2 DEF ServerOK
    <3>3. CASE server.load # "none"
      BY <3>1, <3>3 DEF ServerOK
    <3> QED BY <3>2, <3>3
  <2>3. CASE LoadBegin
    <3>1. server' = [server EXCEPT !.load = "reading", !.read = server.hups]
          /\ server.flag
      BY <2>3 DEF LoadBegin
    <3> QED BY <3>1 DEF ServerOK
  <2>4. CASE LoadRefused
    <3>1. server' = [server EXCEPT !.load = "refused", !.refused = server.hups]
          /\ server.flag
      BY <2>4 DEF LoadRefused
    <3> QED BY <3>1 DEF ServerOK
  <2>5. CASE LoadEnd
    <3>1. \/ /\ server' = [server EXCEPT !.load = "none", !.flag = FALSE,
                                        !.seen = server.read]
             /\ server.load = "reading"
          \/ /\ server' = [server EXCEPT !.load = "none", !.flag = FALSE]
             /\ server.load = "refused"
      BY <2>5 DEF LoadEnd
    <3> QED BY <3>1 DEF ServerOK
  <2> QED BY <2>1, <2>2, <2>3, <2>4, <2>5, ServerStep
<1> QED BY <1>1, <1>2, PTL DEF AnnSpec

(* A version of the shares file that was not read is still to be read,     *)
(* unless the newest SIGHUP came during a load or the file could not be    *)
(* opened for it, however many there are.                                  *)
THEOREM HupsSafe == AnnSpec => []HupsServed
<1>1. ServerOK => HupsServed
  BY DEF ServerOK, HupsServed
<1> QED BY <1>1, ServerInvariance, PTL

-----------------------------------------------------------------------------
(* The shares.                                                             *)

ManagerType ==
    [shares : Seq(Files), table : [{HashOf[f] : f \in Files} -> Files \cup {NoShare}],
     nshares : Nat]

(* The list and the table of a manager hold the same shares.               *)
ManagerOK(m) ==
    /\ m \in ManagerType /\ IsInjective(m.shares)
    /\ \A f \in Files : f \in ToSet(m.shares) <=> m.table[HashOf[f]] = f
    /\ \A h \in DOMAIN m.table : m.table[h] # NoShare => HashOf[m.table[h]] = h

(* A file that has its hash for itself.                                    *)
OnlyOne(f) == \A g \in Files \ {f} : HashOf[g] # HashOf[f]

(* What the three programs keep: the file server has no session; nshares   *)
(* counts the shares of the others; giFT's shares are in the manager or    *)
(* wait for the timer.                                                     *)
ClientOK ==
    /\ client = "server" => connected = {}
    /\ client # "server" => nshares = Len(shares)
    /\ client = "gift" =>
          /\ ToSet(shares) \cup ToSet(pending) \subseteq offered
          /\ ~batching => pending = <<>>
          /\ \A f \in offered : OnlyOne(f) => f \in ToSet(shares) \cup ToSet(pending)

(* The inductive invariant of the shares.                                  *)
ShareInv ==
    /\ SharesTypeOK
    /\ ManagerOK(Manager)
    /\ ClientOK
    /\ connected \subseteq Hosts
    /\ \A h \in connected : ToSet(shares) \subseteq told[h] \cup unsent[h]

LEMMA AddType ==
    ASSUME NEW m \in ManagerType, NEW f \in Files
    PROVE  Add(m, f) \in ManagerType
BY DEF Add, ManagerType

(* as_shareman_add keeps list and table together; a file that has its hash *)
(* for itself is a share afterwards.                                       *)
LEMMA AddFacts ==
    ASSUME NEW m, ManagerOK(m), NEW f \in Files
    PROVE  /\ ManagerOK(Add(m, f))
           /\ ToSet(m.shares) \subseteq ToSet(Add(m, f).shares)
           /\ ToSet(Add(m, f).shares) \subseteq ToSet(m.shares) \cup {f}
           /\ OnlyOne(f) => f \in ToSet(Add(m, f).shares)
           /\ m.nshares = Len(m.shares) => Add(m, f).nshares = Len(Add(m, f).shares)
<1>1. /\ m.shares \in Seq(Files) /\ IsInjective(m.shares)
      /\ m.table \in [{HashOf[g] : g \in Files} -> Files \cup {NoShare}]
      /\ m.nshares \in Nat /\ m \in ManagerType
  BY DEF ManagerOK, ManagerType
<1>2. HashOf[f] \in DOMAIN m.table
  BY <1>1
<1>3. CASE m.table[HashOf[f]] # NoShare
  <2>1. Add(m, f) = m
    BY <1>3 DEF Add
  <2>2. OnlyOne(f) => m.table[HashOf[f]] = f
    BY <1>1, <1>2, <1>3 DEF ManagerOK, OnlyOne
  <2>3. OnlyOne(f) => f \in ToSet(m.shares)
    BY <2>2 DEF ManagerOK
  <2> QED BY <2>1, <2>3
<1>4. CASE m.table[HashOf[f]] = NoShare
  <2> DEFINE n == Add(m, f)
  <2>1. /\ n.shares = <<f>> \o m.shares
        /\ n.table = [m.table EXCEPT ![HashOf[f]] = f]
        /\ n.nshares = m.nshares + 1
    BY <1>4 DEF Add
  <2>2. n \in ManagerType
    BY <1>1, AddType
  <2> HIDE DEF n
  <2>3. f \notin ToSet(m.shares)
    BY <1>4, SharesAssumption DEF ManagerOK
  <2>4. /\ Len(n.shares) = Len(m.shares) + 1
        /\ ToSet(n.shares) = {f} \cup ToSet(m.shares)
        /\ IsInjective(n.shares)
    BY <1>1, <2>1, <2>3, ListConsFacts
  <2>5. \A g \in Files : g \in ToSet(n.shares) <=> n.table[HashOf[g]] = g
    <3> SUFFICES ASSUME NEW g \in Files
                 PROVE  g \in ToSet(n.shares) <=> n.table[HashOf[g]] = g
      OBVIOUS
    <3>1. HashOf[g] \in DOMAIN m.table
      BY <1>1
    <3>2. g \in ToSet(m.shares) <=> m.table[HashOf[g]] = g
      BY DEF ManagerOK
    <3>3. HashOf[g] = HashOf[f] => m.table[HashOf[g]] # g
      BY <1>4, SharesAssumption
    <3> QED BY <2>1, <2>4, <1>1, <3>1, <3>2, <3>3
  <2>6. \A h \in DOMAIN n.table : n.table[h] # NoShare => HashOf[n.table[h]] = h
    BY <1>1, <2>1 DEF ManagerOK
  <2>7. ManagerOK(n)
    BY <2>2, <2>4, <2>5, <2>6 DEF ManagerOK
  <2> QED BY <2>1, <2>4, <2>7 DEF n
<1> QED BY <1>3, <1>4

(* The manager after each share of a list.                                 *)
LEMMA AddAllSteps ==
    ASSUME NEW m \in ManagerType, NEW list \in Seq(Files)
    PROVE  \E g \in [0 .. Len(list) -> ManagerType] :
              /\ g[0] = m
              /\ \A n \in 1 .. Len(list) : g[n] = Add(g[n - 1], list[n])
              /\ AddAll(m, list) = g[Len(list)]
<1> DEFINE N == Len(list)
           step == [n \in 1 .. N |-> [x \in ManagerType |-> Add(x, list[n])]]
<1>1. N \in Nat /\ \A n \in 1 .. N : list[n] \in Files
  OBVIOUS
<1>2. step \in Steps(N, ManagerType)
  BY <1>1, AddType DEF Steps
<1>3. PICK h \in [0 .. N -> ManagerType] : IsRun(h, N, m, step)
  <2>1. m \in ManagerType
    OBVIOUS
  <2> HIDE DEF step, N
  <2> QED BY <1>1, <1>2, <2>1, PlaceRecursion
<1>4. h = [n \in 0 .. N |-> IF n = 0 THEN m ELSE Add(h[n - 1], list[n])]
  <2>1. \A n \in 1 .. N : h[n - 1] \in ManagerType
    BY <1>1
  <2>2. \A n \in 0 .. N : n # 0 => n \in 1 .. N
    BY <1>1
  <2>3. \A n \in 1 .. N : step[n][h[n - 1]] = Add(h[n - 1], list[n])
    BY <2>1
  <2>4. h[0] = m /\ \A n \in 1 .. N : h[n] = step[n][h[n - 1]]
    BY <1>3 DEF IsRun
  <2> HIDE DEF step, N
  <2> QED BY <1>3, <2>2, <2>3, <2>4
<1> DEFINE g == CHOOSE g : g = [n \in 0 .. N |-> IF n = 0 THEN m
                                               ELSE Add(g[n - 1], list[n])]
<1>5. g = [n \in 0 .. N |-> IF n = 0 THEN m ELSE Add(g[n - 1], list[n])]
  BY <1>4
<1>6. AddAll(m, list) = g[N]
  BY DEF AddAll
<1> HIDE DEF g, N, step
<1>7. g[0] = m /\ \A n \in 1 .. N : g[n] = Add(g[n - 1], list[n])
  <2>1. \A n \in 0 .. N : g[n] = IF n = 0 THEN m ELSE Add(g[n - 1], list[n])
    BY <1>5
  <2>2. 0 \in 0 .. N /\ \A n \in 1 .. N : n \in 0 .. N /\ n # 0
    BY <1>1
  <2> QED BY <2>1, <2>2
<1>8. g \in [0 .. N -> ManagerType]
  <2> DEFINE P == {n \in 0 .. N : g[n] \in ManagerType}
  <2>1. 0 \in P
    BY <1>1, <1>7
  <2>2. ASSUME NEW n \in 1 .. N, n - 1 \in P PROVE n \in P
    <3>1. n \in 0 .. N /\ list[n] \in Files /\ g[n - 1] \in ManagerType
      BY <1>1, <2>2
    <3>2. Add(g[n - 1], list[n]) \in ManagerType
      BY <3>1, AddType
    <3> QED BY <1>7, <3>1, <3>2
  <2> HIDE DEF P
  <2>3. \A n \in 0 .. N : n \in P
    BY <1>1, <2>1, <2>2, PlaceInduction
  <2> USE DEF P
  <2>4. \A n \in 0 .. N : g[n] \in ManagerType
    BY <2>3
  <2> QED BY <1>5, <2>4
<1> QED BY <1>6, <1>7, <1>8 DEF N

(* Adding a list keeps list and table together.                            *)
LEMMA AddAllFacts ==
    ASSUME NEW m, ManagerOK(m), NEW list \in Seq(Files)
    PROVE  /\ ManagerOK(AddAll(m, list))
           /\ ToSet(m.shares) \subseteq ToSet(AddAll(m, list).shares)
           /\ ToSet(AddAll(m, list).shares) \subseteq ToSet(m.shares) \cup ToSet(list)
           /\ \A f \in ToSet(list) : OnlyOne(f) => f \in ToSet(AddAll(m, list).shares)
           /\ m.nshares = Len(m.shares) =>
                AddAll(m, list).nshares = Len(AddAll(m, list).shares)
<1> DEFINE N == Len(list)
<1>0. m \in ManagerType
  BY DEF ManagerOK
<1>1. N \in Nat /\ DOMAIN list = 1 .. N /\ \A n \in 1 .. N : list[n] \in Files
  OBVIOUS
<1>2. PICK g \in [0 .. N -> ManagerType] :
         /\ g[0] = m
         /\ \A n \in 1 .. N : g[n] = Add(g[n - 1], list[n])
         /\ AddAll(m, list) = g[N]
  BY <1>0, AddAllSteps
<1> HIDE DEF N
<1> DEFINE Good(n) ==
      /\ ManagerOK(g[n])
      /\ ToSet(m.shares) \subseteq ToSet(g[n].shares)
      /\ ToSet(g[n].shares) \subseteq ToSet(m.shares) \cup ToSet(list)
      /\ \A i \in 1 .. n : OnlyOne(list[i]) => list[i] \in ToSet(g[n].shares)
      /\ m.nshares = Len(m.shares) => g[n].nshares = Len(g[n].shares)
           P == {n \in 0 .. N : Good(n)}
<1>3. 0 \in P
  <2>1. 0 \in 0 .. N /\ 1 .. 0 = {}
    BY <1>1
  <2>2. Good(0)
    BY <1>2, <2>1
  <2> QED BY <2>1, <2>2
<1>4. ASSUME NEW n \in 1 .. N, n - 1 \in P PROVE n \in P
  <2>1. Good(n - 1) /\ n \in 0 .. N
    BY <1>1, <1>4
  <2>2. list[n] \in Files /\ list[n] \in ToSet(list)
    BY <1>1 DEF ToSet
  <2>3. ManagerOK(g[n - 1]) /\ g[n] = Add(g[n - 1], list[n])
    BY <1>2, <2>1
  <2>4. /\ ManagerOK(g[n])
        /\ ToSet(g[n - 1].shares) \subseteq ToSet(g[n].shares)
        /\ ToSet(g[n].shares) \subseteq ToSet(g[n - 1].shares) \cup {list[n]}
        /\ OnlyOne(list[n]) => list[n] \in ToSet(g[n].shares)
        /\ g[n - 1].nshares = Len(g[n - 1].shares) => g[n].nshares = Len(g[n].shares)
    <3> DEFINE x == g[n - 1]
               f == list[n]
    <3>1. ManagerOK(x) /\ f \in Files /\ g[n] = Add(x, f)
      BY <2>2, <2>3
    <3> HIDE DEF x, f
    <3>2. /\ ManagerOK(g[n])
          /\ ToSet(x.shares) \subseteq ToSet(g[n].shares)
          /\ ToSet(g[n].shares) \subseteq ToSet(x.shares) \cup {f}
          /\ OnlyOne(f) => f \in ToSet(g[n].shares)
          /\ x.nshares = Len(x.shares) => g[n].nshares = Len(g[n].shares)
      BY <3>1, AddFacts
    <3> QED BY <3>2 DEF x, f
  <2>5. \A i \in 1 .. n : i = n \/ i \in 1 .. n - 1
    BY <1>1
  <2>6. ASSUME NEW i \in 1 .. n, OnlyOne(list[i]) PROVE list[i] \in ToSet(g[n].shares)
    BY <2>1, <2>4, <2>5, <2>6
  <2>7. Good(n)
    BY <2>1, <2>2, <2>4, <2>6
  <2> QED BY <2>1, <2>7
<1>5. Good(N)
  <2> HIDE DEF P
  <2>1. \A n \in 0 .. N : n \in P
    BY <1>1, <1>3, <1>4, PlaceInduction
  <2>2. N \in P
    BY <1>1, <2>1
  <2> QED BY <2>2 DEF P
<1>6. \A f \in ToSet(list) : \E i \in 1 .. N : f = list[i]
  BY <1>1 DEF ToSet
<1> QED BY <1>2, <1>5, <1>6

(* as_shareman_remove keeps list and table together.                       *)
LEMMA RemovedFacts ==
    ASSUME NEW m, ManagerOK(m), m.nshares = Len(m.shares),
           NEW f \in Files, m.table[HashOf[f]] = f
    PROVE  /\ ManagerOK(Removed(m, f))
           /\ ToSet(Removed(m, f).shares) = ToSet(m.shares) \ {f}
           /\ Removed(m, f).nshares = Len(Removed(m, f).shares)
<1>1. /\ m.shares \in Seq(Files) /\ IsInjective(m.shares)
      /\ m.table \in [{HashOf[g] : g \in Files} -> Files \cup {NoShare}]
  BY DEF ManagerOK, ManagerType
<1> DEFINE n == Removed(m, f)
<1>2. /\ n.shares = RemoveFirst(m.shares, f)
      /\ n.table = [m.table EXCEPT ![HashOf[f]] = NoShare]
      /\ n.nshares = m.nshares - 1
      /\ n = [shares |-> n.shares, table |-> n.table, nshares |-> n.nshares]
  BY DEF Removed
<1> HIDE DEF n
<1>3. f \in ToSet(m.shares)
  BY DEF ManagerOK
<1>4. /\ n.shares \in Seq(Files) /\ IsInjective(n.shares)
      /\ ToSet(n.shares) = ToSet(m.shares) \ {f}
      /\ Len(n.shares) = Len(m.shares) - 1
  BY <1>1, <1>2, <1>3, ListRemoveFacts
<1>5. n.nshares = Len(n.shares)
  BY <1>2, <1>4
<1>6. n \in ManagerType
  <2>1. n.nshares \in Nat
    BY <1>4, <1>5
  <2>2. n.table \in [{HashOf[g] : g \in Files} -> Files \cup {NoShare}]
    BY <1>1, <1>2
  <2> QED BY <1>2, <1>4, <2>1, <2>2 DEF ManagerType
<1>7. \A g \in Files : g \in ToSet(n.shares) <=> n.table[HashOf[g]] = g
  <2> SUFFICES ASSUME NEW g \in Files
               PROVE  g \in ToSet(n.shares) <=> n.table[HashOf[g]] = g
    OBVIOUS
  <2>1. HashOf[g] \in DOMAIN m.table
    BY <1>1
  <2>2. g \in ToSet(m.shares) <=> m.table[HashOf[g]] = g
    BY DEF ManagerOK
  <2> QED BY <1>1, <1>2, <1>4, <2>1, <2>2, SharesAssumption
<1>8. \A h \in DOMAIN n.table : n.table[h] # NoShare => HashOf[n.table[h]] = h
  BY <1>1, <1>2 DEF ManagerOK
<1> QED BY <1>4, <1>5, <1>6, <1>7, <1>8 DEF ManagerOK, n

PacketsType == [out : SUBSET SUBSET Files, glob : SUBSET Files, size : Nat]

NoPackets == [out |-> {}, glob |-> {}, size |-> 0]

(* The shares of the packets that were sent and of the one being made.     *)
Packed(g) == (UNION g.out) \cup g.glob

LEMMA AssimilateType ==
    ASSUME NEW g \in PacketsType, NEW f \in Files \cup {NoShare}
    PROVE  Assimilate(g, f) \in PacketsType
<1>1. g.out \in SUBSET SUBSET Files /\ g.glob \in SUBSET Files /\ g.size \in Nat
  BY DEF PacketsType
<1>2. CASE f = NoShare
  BY <1>2 DEF Assimilate
<1>3. CASE f # NoShare
  <2>1. SizeOf[f] \in Nat
    BY <1>3, SharesAssumption
  <2>2. g.size + SizeOf[f] \in Nat /\ g.glob \cup {f} \in SUBSET Files
    BY <1>1, <1>3, <2>1
  <2> QED BY <1>1, <1>3, <2>2 DEF Assimilate, PacketsType
<1> QED BY <1>2, <1>3

LEMMA AssimilateFacts ==
    ASSUME NEW g \in PacketsType, NEW f \in Files \cup {NoShare}
    PROVE  Packed(Assimilate(g, f)) = Packed(g) \cup ({f} \ {NoShare})
<1>1. CASE f = NoShare
  BY <1>1 DEF Assimilate
<1>2. CASE f # NoShare
  <2> DEFINE glob == g.glob \cup {f}
             n == Assimilate(g, f)
  <2>1. \/ n.out = g.out \cup {glob} /\ n.glob = {}
        \/ n.out = g.out /\ n.glob = glob
    BY <1>2 DEF Assimilate
  <2>2. glob = g.glob \cup ({f} \ {NoShare})
    BY <1>2
  <2> HIDE DEF glob, n
  <2>3. UNION (g.out \cup {glob}) = (UNION g.out) \cup glob
    OBVIOUS
  <2>4. Packed(n) = (UNION g.out) \cup glob
    <3>1. CASE n.out = g.out \cup {glob} /\ n.glob = {}
      <4>1. UNION n.out = (UNION g.out) \cup glob
        BY <2>3, <3>1, Zenon
      <4>2. Packed(n) = (UNION n.out) \cup n.glob
        BY DEF Packed
      <4> QED BY <3>1, <4>1, <4>2
    <3>2. CASE n.out = g.out /\ n.glob = glob
      BY <3>2 DEF Packed
    <3> QED BY <2>1, <3>1, <3>2
  <2>5. Packed(g) = (UNION g.out) \cup g.glob
    BY DEF Packed
  <2> HIDE DEF Packed
  <2>6. Packed(n) = Packed(g) \cup ({f} \ {NoShare})
    BY <2>2, <2>4, <2>5
  <2> QED BY <2>6 DEF n
<1> QED BY <1>1, <1>2

(* The packets after each share of a list.                                 *)
LEMMA AssimilateSteps ==
    ASSUME NEW list \in Seq(Files \cup {NoShare})
    PROVE  \E g \in [0 .. Len(list) -> PacketsType] :
              /\ g[0] = NoPackets
              /\ \A n \in 1 .. Len(list) : g[n] = Assimilate(g[n - 1], list[n])
              /\ AssimilateAll(list) = g[Len(list)]
<1> DEFINE N == Len(list)
           step == [n \in 1 .. N |-> [x \in PacketsType |-> Assimilate(x, list[n])]]
<1>1. N \in Nat /\ \A n \in 1 .. N : list[n] \in Files \cup {NoShare}
  OBVIOUS
<1>2. step \in Steps(N, PacketsType)
  BY <1>1, AssimilateType DEF Steps
<1>3. PICK h \in [0 .. N -> PacketsType] : IsRun(h, N, NoPackets, step)
  <2>1. NoPackets \in PacketsType
    BY DEF NoPackets, PacketsType
  <2> HIDE DEF step, N
  <2> QED BY <1>1, <1>2, <2>1, PlaceRecursion
<1>4. h = [n \in 0 .. N |-> IF n = 0 THEN NoPackets ELSE Assimilate(h[n - 1], list[n])]
  <2>1. \A n \in 1 .. N : h[n - 1] \in PacketsType
    BY <1>1
  <2>2. \A n \in 0 .. N : n # 0 => n \in 1 .. N
    BY <1>1
  <2>3. \A n \in 1 .. N : step[n][h[n - 1]] = Assimilate(h[n - 1], list[n])
    BY <2>1
  <2>4. h[0] = NoPackets /\ \A n \in 1 .. N : h[n] = step[n][h[n - 1]]
    BY <1>3 DEF IsRun
  <2> HIDE DEF step, N
  <2> QED BY <1>3, <2>2, <2>3, <2>4
<1> DEFINE g == CHOOSE g : g = [n \in 0 .. N |-> IF n = 0 THEN NoPackets
                                               ELSE Assimilate(g[n - 1], list[n])]
<1>5. g = [n \in 0 .. N |-> IF n = 0 THEN NoPackets ELSE Assimilate(g[n - 1], list[n])]
  BY <1>4
<1>6. AssimilateAll(list) = g[N]
  BY DEF AssimilateAll, NoPackets
<1> HIDE DEF g, N, step
<1>7. g[0] = NoPackets /\ \A n \in 1 .. N : g[n] = Assimilate(g[n - 1], list[n])
  <2>1. \A n \in 0 .. N : g[n] = IF n = 0 THEN NoPackets ELSE Assimilate(g[n - 1], list[n])
    BY <1>5
  <2>2. 0 \in 0 .. N /\ \A n \in 1 .. N : n \in 0 .. N /\ n # 0
    BY <1>1
  <2> QED BY <2>1, <2>2
<1>8. g \in [0 .. N -> PacketsType]
  <2> DEFINE P == {n \in 0 .. N : g[n] \in PacketsType}
  <2>1. 0 \in P
    <3>1. NoPackets \in PacketsType
      BY DEF NoPackets, PacketsType
    <3> QED BY <1>1, <1>7, <3>1
  <2>2. ASSUME NEW n \in 1 .. N, n - 1 \in P PROVE n \in P
    <3>1. n \in 0 .. N /\ list[n] \in Files \cup {NoShare} /\ g[n - 1] \in PacketsType
      BY <1>1, <2>2
    <3>2. Assimilate(g[n - 1], list[n]) \in PacketsType
      BY <3>1, AssimilateType
    <3> QED BY <1>7, <3>1, <3>2
  <2> HIDE DEF P
  <2>3. \A n \in 0 .. N : n \in P
    BY <1>1, <2>1, <2>2, PlaceInduction
  <2> USE DEF P
  <2>4. \A n \in 0 .. N : g[n] \in PacketsType
    BY <2>3
  <2> QED BY <1>5, <2>4
<1> QED BY <1>6, <1>7, <1>8 DEF N

(* The packets for a list carry its shares, no more and no less.           *)
LEMMA ConglobulateFacts ==
    ASSUME NEW list \in Seq(Files \cup {NoShare})
    PROVE  /\ UNION Conglobulate(list) = ToSet(list) \ {NoShare}
           /\ Conglobulate(list) \in SUBSET SUBSET Files
<1> DEFINE N == Len(list)
           end == AssimilateAll(list)
<1>1. /\ N \in Nat /\ DOMAIN list = 1 .. N
      /\ \A n \in 1 .. N : list[n] \in Files \cup {NoShare}
  OBVIOUS
<1>2. PICK g \in [0 .. N -> PacketsType] :
         /\ g[0] = NoPackets
         /\ \A n \in 1 .. N : g[n] = Assimilate(g[n - 1], list[n])
         /\ AssimilateAll(list) = g[N]
  BY AssimilateSteps
<1> HIDE DEF N
<1> DEFINE Good(n) == Packed(g[n]) = {list[i] : i \in 1 .. n} \ {NoShare}
           P == {n \in 0 .. N : Good(n)}
<1>3. 0 \in P
  <2>1. 0 \in 0 .. N /\ 1 .. 0 = {}
    BY <1>1
  <2>2. Packed(NoPackets) = {}
    BY DEF Packed, NoPackets
  <2> QED BY <1>2, <2>1, <2>2
<1>4. ASSUME NEW n \in 1 .. N, n - 1 \in P PROVE n \in P
  <2>1. Good(n - 1) /\ n \in 0 .. N /\ n - 1 \in 0 .. N
    BY <1>1, <1>4
  <2>2. g[n - 1] \in PacketsType /\ list[n] \in Files \cup {NoShare}
    BY <1>1, <2>1
  <2>3. Packed(Assimilate(g[n - 1], list[n])) = Packed(g[n - 1]) \cup ({list[n]} \ {NoShare})
    BY <2>2, AssimilateFacts
  <2>4. 1 .. n = (1 .. n - 1) \cup {n}
    BY <1>1
  <2>5. {list[i] : i \in 1 .. n} = {list[i] : i \in 1 .. n - 1} \cup {list[n]}
    BY <2>4
  <2>6. Good(n)
    BY <1>2, <2>1, <2>3, <2>5
  <2> QED BY <2>1, <2>6
<1>5. Good(N)
  <2> HIDE DEF P
  <2>1. \A n \in 0 .. N : n \in P
    BY <1>1, <1>3, <1>4, PlaceInduction
  <2>2. N \in P
    BY <1>1, <2>1
  <2> QED BY <2>2 DEF P
<1>6. ToSet(list) = {list[i] : i \in 1 .. N}
  BY <1>1 DEF ToSet
<1>7. end \in PacketsType /\ Packed(end) = ToSet(list) \ {NoShare}
  BY <1>1, <1>2, <1>5, <1>6
<1>8. Conglobulate(list) = IF end.glob = {} THEN end.out ELSE end.out \cup {end.glob}
  BY DEF Conglobulate
<1> HIDE DEF end
<1>9. UNION Conglobulate(list) = Packed(end)
  <2>1. UNION (end.out \cup {end.glob}) = (UNION end.out) \cup end.glob
    OBVIOUS
  <2>2. CASE end.glob = {}
    BY <1>8, <2>2 DEF Packed
  <2>3. CASE end.glob # {}
    <3>1. UNION Conglobulate(list) = (UNION end.out) \cup end.glob
      BY <1>8, <2>1, <2>3, Zenon
    <3> QED BY <3>1 DEF Packed
  <2> QED BY <2>2, <2>3
<1>10. end.out \in SUBSET SUBSET Files /\ end.glob \in SUBSET Files
  BY <1>7 DEF PacketsType
<1> QED BY <1>7, <1>8, <1>9, <1>10

(* Without the shares that have no packet, a list still holds the others.  *)
LEMMA MadeFacts ==
    ASSUME NEW list \in Seq(Files \cup {NoShare}), NEW nil
    PROVE  /\ Made(list, nil) \in Seq(Files \cup {NoShare})
           /\ ToSet(Made(list, nil)) \ {NoShare} = (ToSet(list) \ {NoShare}) \ nil
<1>1. /\ DOMAIN list = 1 .. Len(list) /\ Len(list) \in Nat
      /\ \A i \in DOMAIN list : list[i] \in Files \cup {NoShare}
  OBVIOUS
<1>2. Made(list, nil) \in Seq(Files \cup {NoShare})
  BY <1>1 DEF Made
<1>3. /\ DOMAIN Made(list, nil) = DOMAIN list
      /\ \A i \in DOMAIN list :
            Made(list, nil)[i] = IF list[i] \in nil THEN NoShare ELSE list[i]
  BY DEF Made
<1>4. ToSet(Made(list, nil)) \ {NoShare} = (ToSet(list) \ {NoShare}) \ nil
  BY <1>3 DEF ToSet
<1> QED BY <1>2, <1>4

(* What submit_share_list tells a supernode stays told, and each share of  *)
(* the list is told or unsent.                                             *)
LEMMA SubmitFacts ==
    ASSUME SharesTypeOK, NEW hs \in SUBSET Hosts,
           NEW list \in Seq(Files \cup {NoShare}),
           NEW fails \in [hs -> Failures(list)], Submit(hs, list, fails)
    PROVE  /\ told' \in [Hosts -> SUBSET Files] /\ unsent' \in [Hosts -> SUBSET Files]
           /\ \A h \in Hosts : told[h] \cup unsent[h] \subseteq told'[h] \cup unsent'[h]
           /\ \A h \in hs : ToSet(list) \ {NoShare} \subseteq told'[h] \cup unsent'[h]
<1>1. told \in [Hosts -> SUBSET Files] /\ unsent \in [Hosts -> SUBSET Files]
  BY DEF SharesTypeOK
<1>2. ToSet(list) \ {NoShare} \subseteq Files
  BY DEF ToSet
<1>3. ASSUME NEW h \in hs
      PROVE  /\ Sent(list, fails[h]) \subseteq Files /\ NotSent(fails[h]) \subseteq Files
             /\ ToSet(list) \ {NoShare} \subseteq Sent(list, fails[h]) \cup NotSent(fails[h])
  <2>1. fails[h] \in Failures(list)
    OBVIOUS
  <2>2. PICK nil \in SUBSET (ToSet(list) \ {NoShare}) :
           \E bad \in SUBSET Conglobulate(Made(list, nil)) :
              fails[h] = [nil |-> nil, bad |-> bad]
    BY <2>1 DEF Failures
  <2>3. PICK bad \in SUBSET Conglobulate(Made(list, nil)) :
           fails[h] = [nil |-> nil, bad |-> bad]
    BY <2>2
  <2> DEFINE C == Conglobulate(Made(list, nil))
  <2>4. Made(list, nil) \in Seq(Files \cup {NoShare})
    BY MadeFacts
  <2>5. UNION C = (ToSet(list) \ {NoShare}) \ nil /\ C \in SUBSET SUBSET Files
    BY <2>4, ConglobulateFacts, MadeFacts
  <2>6. Sent(list, fails[h]) = UNION (C \ bad) /\ NotSent(fails[h]) = nil \cup UNION bad
    BY <2>3 DEF Sent, NotSent
  <2>7. bad \in SUBSET C
    BY <2>3
  <2> HIDE DEF C
  <2>8. \A y \in C : y \subseteq Files
    BY <2>5
  <2>9. UNION (C \ bad) \subseteq Files /\ UNION bad \subseteq Files
    BY <2>7, <2>8
  <2>10. UNION C \subseteq (UNION (C \ bad)) \cup (UNION bad)
    OBVIOUS
  <2>11. nil \subseteq Files
    BY <1>2, <2>2
  <2> QED BY <2>5, <2>6, <2>9, <2>10, <2>11
<1>4. /\ told' = [h \in Hosts |-> IF h \in hs THEN told[h] \cup Sent(list, fails[h])
                                             ELSE told[h]]
      /\ unsent' = [h \in Hosts |-> IF h \in hs
                       THEN (unsent[h] \ told'[h]) \cup NotSent(fails[h]) ELSE unsent[h]]
  BY DEF Submit
<1>5. ASSUME NEW h \in Hosts
      PROVE  /\ told'[h] = IF h \in hs THEN told[h] \cup Sent(list, fails[h]) ELSE told[h]
             /\ unsent'[h] = IF h \in hs
                       THEN (unsent[h] \ told'[h]) \cup NotSent(fails[h]) ELSE unsent[h]
  BY <1>4
<1>6. ASSUME NEW h \in Hosts
      PROVE  told'[h] \in SUBSET Files /\ unsent'[h] \in SUBSET Files
  <2>1. told[h] \in SUBSET Files /\ unsent[h] \in SUBSET Files
    BY <1>1
  <2>2. CASE h \in hs
    BY <1>3, <1>5, <2>1, <2>2
  <2>3. CASE h \notin hs
    BY <1>5, <2>1, <2>3
  <2> QED BY <2>2, <2>3
<1>7. told' \in [Hosts -> SUBSET Files] /\ unsent' \in [Hosts -> SUBSET Files]
  BY <1>4, <1>6
<1>8. \A h \in Hosts : told[h] \cup unsent[h] \subseteq told'[h] \cup unsent'[h]
  BY <1>5
<1>9. \A h \in hs : ToSet(list) \ {NoShare} \subseteq told'[h] \cup unsent'[h]
  BY <1>3, <1>5
<1> QED BY <1>7, <1>8, <1>9

(* Setting the manager's variables.                                        *)
LEMMA SetManagerFacts ==
    ASSUME NEW m \in ManagerType, SetManager(m)
    PROVE  /\ Manager' = m
           /\ shares' = m.shares /\ table' = m.table /\ nshares' = m.nshares
           /\ shares' \in Seq(Files) /\ nshares' \in Nat
           /\ table' \in [{HashOf[f] : f \in Files} -> Files \cup {NoShare}]
  BY DEF SetManager, Manager, ManagerType

LEMMA AddAndSubmitFacts ==
    ASSUME ShareInv, NEW list \in Seq(Files), AddAndSubmit(list)
    PROVE  /\ ManagerOK(Manager)'
           /\ ToSet(shares') \subseteq ToSet(shares) \cup ToSet(list)
           /\ ToSet(shares) \subseteq ToSet(shares')
           /\ \A f \in ToSet(list) : OnlyOne(f) => f \in ToSet(shares')
           /\ nshares = Len(shares) => nshares' = Len(shares')
           /\ shares' \in Seq(Files) /\ nshares' \in Nat
           /\ table' \in [{HashOf[f] : f \in Files} -> Files \cup {NoShare}]
           /\ told' \in [Hosts -> SUBSET Files] /\ unsent' \in [Hosts -> SUBSET Files]
           /\ \A h \in connected : ToSet(shares') \subseteq told'[h] \cup unsent'[h]
<1> DEFINE m == AddAll(Manager, list)
           new == [i \in DOMAIN list |->
                     IF m.table[HashOf[list[i]]] = list[i] /\ table[HashOf[list[i]]] # list[i]
                     THEN list[i] ELSE NoShare]
<1>1. ManagerOK(Manager)
  BY DEF ShareInv
<1>2. Manager.shares = shares /\ Manager.table = table /\ Manager.nshares = nshares
  BY DEF Manager
<1>3. /\ ManagerOK(m)
      /\ ToSet(shares) \subseteq ToSet(m.shares)
      /\ ToSet(m.shares) \subseteq ToSet(shares) \cup ToSet(list)
      /\ \A f \in ToSet(list) : OnlyOne(f) => f \in ToSet(m.shares)
      /\ nshares = Len(shares) => m.nshares = Len(m.shares)
  BY <1>1, <1>2, AddAllFacts
<1>4. SetManager(m) /\ \E fails \in [connected -> Failures(new)] : Submit(connected, new, fails)
  BY DEF AddAndSubmit
<1> HIDE DEF m
<1>5. m \in ManagerType
  BY <1>3 DEF ManagerOK
<1>6. /\ Manager' = m
      /\ shares' = m.shares /\ table' = m.table /\ nshares' = m.nshares
      /\ shares' \in Seq(Files) /\ nshares' \in Nat
      /\ table' \in [{HashOf[f] : f \in Files} -> Files \cup {NoShare}]
  BY <1>4, <1>5, SetManagerFacts
<1>7. DOMAIN list = 1 .. Len(list) /\ Len(list) \in Nat
      /\ \A i \in DOMAIN list : list[i] \in Files
  OBVIOUS
<1>8. new \in Seq(Files \cup {NoShare})
  BY <1>7
<1>9. ToSet(m.shares) \ ToSet(shares) \subseteq ToSet(new) \ {NoShare}
  <2> SUFFICES ASSUME NEW f \in ToSet(m.shares), f \notin ToSet(shares)
               PROVE  f \in ToSet(new) /\ f # NoShare
    OBVIOUS
  <2>1. PICK i \in DOMAIN list : f = list[i]
    BY <1>3 DEF ToSet
  <2>2. f \in Files
    BY <1>7, <2>1
  <2>3. m.table[HashOf[f]] = f /\ table[HashOf[f]] # f
    BY <1>1, <1>2, <1>3, <2>2 DEF ManagerOK
  <2>4. new[i] = f /\ i \in DOMAIN new
    BY <2>1, <2>3
  <2> HIDE DEF new
  <2> QED BY <2>2, <2>4, SharesAssumption DEF ToSet
<1> HIDE DEF new
<1>10. SharesTypeOK /\ connected \in SUBSET Hosts
  BY DEF ShareInv
<1>11. /\ told' \in [Hosts -> SUBSET Files] /\ unsent' \in [Hosts -> SUBSET Files]
       /\ \A h \in Hosts : told[h] \cup unsent[h] \subseteq told'[h] \cup unsent'[h]
       /\ \A h \in connected : ToSet(new) \ {NoShare} \subseteq told'[h] \cup unsent'[h]
  BY <1>4, <1>8, <1>10, SubmitFacts
<1>12. ASSUME NEW h \in connected PROVE ToSet(shares') \subseteq told'[h] \cup unsent'[h]
  <2>1. ToSet(shares) \subseteq told[h] \cup unsent[h]
    BY DEF ShareInv
  <2> QED BY <1>6, <1>9, <1>10, <1>11, <2>1
<1>13. ManagerOK(Manager)'
  BY <1>3, <1>6 DEF ManagerOK, ManagerType
<1> QED BY <1>3, <1>6, <1>11, <1>12, <1>13

-----------------------------------------------------------------------------
(* Every step preserves ShareInv.                                          *)

(* Steps that leave the shares and the sessions alone.                     *)
LEMMA SharesUnchanged ==
    ASSUME ShareInv,
           UNCHANGED <<shares, table, nshares, offered, pending, batching, told, unsent,
                       connected, client>>
    PROVE  ShareInv'
  BY DEF ShareInv, SharesTypeOK, ManagerOK, ManagerType, Manager, ClientOK

LEMMA SharesSessionUp ==
    ASSUME ShareInv, NEW h \in Hosts, SharesNewSession(h), client # "server",
           connected' = connected \cup {h}, UNCHANGED client
    PROVE  ShareInv'
<1>1. /\ SharesTypeOK /\ ManagerOK(Manager) /\ ClientOK /\ connected \subseteq Hosts
      /\ \A g \in connected : ToSet(shares) \subseteq told[g] \cup unsent[g]
  BY DEF ShareInv
<1>2. UNCHANGED <<shares, table, nshares, offered, pending, batching>>
  BY DEF SharesNewSession
<1>3. shares \in Seq(Files)
  BY <1>1 DEF SharesTypeOK
<1>4. shares \in Seq(Files \cup {NoShare})
  BY <1>3
<1>5. PICK fails \in [{h} -> Failures(shares)] : Submit({h}, shares, fails)
  BY DEF SharesNewSession
<1>6. /\ told' \in [Hosts -> SUBSET Files] /\ unsent' \in [Hosts -> SUBSET Files]
      /\ \A g \in Hosts : told[g] \cup unsent[g] \subseteq told'[g] \cup unsent'[g]
      /\ ToSet(shares) \ {NoShare} \subseteq told'[h] \cup unsent'[h]
  <2>1. {h} \in SUBSET Hosts
    OBVIOUS
  <2> DEFINE hs == {h}
  <2> HIDE DEF hs
  <2>2. /\ told' \in [Hosts -> SUBSET Files] /\ unsent' \in [Hosts -> SUBSET Files]
        /\ \A g \in Hosts : told[g] \cup unsent[g] \subseteq told'[g] \cup unsent'[g]
        /\ \A g \in hs : ToSet(shares) \ {NoShare} \subseteq told'[g] \cup unsent'[g]
    BY <1>1, <1>4, <1>5, <2>1, SubmitFacts DEF hs
  <2> QED BY <2>2 DEF hs
<1>7. NoShare \notin ToSet(shares)
  BY <1>3, SharesAssumption DEF ToSet
<1>8. \A g \in connected' : ToSet(shares') \subseteq told'[g] \cup unsent'[g]
  BY <1>1, <1>2, <1>6, <1>7
<1>9. SharesTypeOK'
  BY <1>1, <1>2, <1>6 DEF SharesTypeOK
<1>10. ManagerOK(Manager)'
  BY <1>1, <1>2 DEF ManagerOK, ManagerType, Manager
<1>11. ClientOK'
  BY <1>1, <1>2 DEF ClientOK
<1> QED BY <1>1, <1>8, <1>9, <1>10, <1>11 DEF ShareInv

LEMMA SharesSessionDown ==
    ASSUME ShareInv, NEW h \in Hosts, SharesLostSession(h),
           connected' = connected \ {h}, UNCHANGED client
    PROVE  ShareInv'
<1>1. /\ UNCHANGED <<shares, table, nshares, offered, pending, batching>>
      /\ told' = [told EXCEPT ![h] = {}] /\ unsent' = [unsent EXCEPT ![h] = {}]
  BY DEF SharesLostSession
<1>2. SharesTypeOK' /\ ManagerOK(Manager)' /\ ClientOK' /\ connected' \subseteq Hosts
  BY <1>1 DEF ShareInv, SharesTypeOK, ManagerOK, ManagerType, Manager, ClientOK
<1>3. ASSUME NEW g \in connected' PROVE ToSet(shares') \subseteq told'[g] \cup unsent'[g]
  <2>1. g \in Hosts /\ g # h
    BY DEF ShareInv
  <2>2. told'[g] = told[g] /\ unsent'[g] = unsent[g]
    BY <1>1, <2>1 DEF ShareInv, SharesTypeOK
  <2> QED BY <1>1, <2>2 DEF ShareInv
<1> QED BY <1>2, <1>3 DEF ShareInv

LEMMA GiftAddOK ==
    ASSUME ShareInv, NEW f \in Files, GiftAdd(f), UNCHANGED <<connected, client>>
    PROVE  ShareInv'
<1>1. /\ client = "gift" /\ offered' = offered \cup {f} /\ batching' = TRUE
      /\ UNCHANGED <<shares, table, nshares, told, unsent>>
  BY DEF GiftAdd
<1>2. pending \in Seq(Files)
  BY DEF ShareInv, SharesTypeOK
<1>3. PICK i \in 1 .. Len(pending) + 1 : pending' = InsertAt(pending, i, f)
  BY DEF GiftAdd
<1>4. pending' \in Seq(Files) /\ ToSet(pending') = {f} \cup ToSet(pending)
  BY <1>2, <1>3, ListInsertFacts
<1>5. SharesTypeOK'
  BY <1>1, <1>4 DEF ShareInv, SharesTypeOK
<1>6. ManagerOK(Manager)'
  BY <1>1 DEF ShareInv, ManagerOK, ManagerType, Manager
<1>7. ClientOK'
  BY <1>1, <1>4 DEF ShareInv, ClientOK
<1> QED BY <1>1, <1>5, <1>6, <1>7 DEF ShareInv

(* submit_shares and ar_share_end hand the waiting shares over.            *)
LEMMA HandOverOK ==
    ASSUME ShareInv, AddAndSubmit(pending), pending' = <<>>, batching' = FALSE,
           UNCHANGED <<offered, server, connected, client>>, client # "server"
    PROVE  ShareInv'
<1>1. pending \in Seq(Files)
  BY DEF ShareInv, SharesTypeOK
<1>2. /\ ManagerOK(Manager)'
      /\ ToSet(shares') \subseteq ToSet(shares) \cup ToSet(pending)
      /\ ToSet(shares) \subseteq ToSet(shares')
      /\ \A f \in ToSet(pending) : OnlyOne(f) => f \in ToSet(shares')
      /\ nshares = Len(shares) => nshares' = Len(shares')
      /\ shares' \in Seq(Files) /\ nshares' \in Nat
      /\ table' \in [{HashOf[f] : f \in Files} -> Files \cup {NoShare}]
      /\ told' \in [Hosts -> SUBSET Files] /\ unsent' \in [Hosts -> SUBSET Files]
      /\ \A h \in connected : ToSet(shares') \subseteq told'[h] \cup unsent'[h]
  BY <1>1, AddAndSubmitFacts
<1>3. SharesTypeOK'
  <2>1. batching' \in BOOLEAN
    OBVIOUS
  <2>2. pending' \in Seq(Files)
    OBVIOUS
  <2> QED BY <1>2, <2>1, <2>2 DEF ShareInv, SharesTypeOK
<1>4. ToSet(pending') = {}
  BY DEF ToSet
<1>5. ClientOK'
  BY <1>2, <1>4 DEF ShareInv, ClientOK
<1> QED BY <1>2, <1>3, <1>5 DEF ShareInv

LEMMA GiftRemoveOK ==
    ASSUME ShareInv, NEW f \in Files, GiftRemove(f), UNCHANGED <<connected, client>>
    PROVE  ShareInv'
<1>1. /\ client = "gift" /\ ~batching /\ offered' = offered \ {f}
      /\ UNCHANGED <<pending, batching, told, unsent>>
  BY DEF GiftRemove
<1>2. /\ ManagerOK(Manager) /\ nshares = Len(shares) /\ pending = <<>>
      /\ ToSet(shares) \subseteq offered
      /\ \A g \in offered : OnlyOne(g) => g \in ToSet(shares) \cup ToSet(pending)
  BY <1>1 DEF ShareInv, ClientOK
<1>3. Manager.shares = shares /\ Manager.table = table /\ Manager.nshares = nshares
  BY DEF Manager
<1>4. ToSet(pending) = {}
  BY <1>2 DEF ToSet
<1>5. /\ ManagerOK(Manager)' /\ ToSet(shares') = ToSet(shares) \ {f}
      /\ nshares' = Len(shares')
      /\ shares' \in Seq(Files) /\ nshares' \in Nat
      /\ table' \in [{HashOf[g] : g \in Files} -> Files \cup {NoShare}]
  <2>1. CASE table[HashOf[f]] = f
    <3> DEFINE m == Removed(Manager, f)
    <3>1. ManagerOK(m) /\ ToSet(m.shares) = ToSet(shares) \ {f} /\ m.nshares = Len(m.shares)
      BY <1>2, <1>3, <2>1, RemovedFacts
    <3>2. SetManager(m)
      BY <2>1 DEF GiftRemove
    <3> HIDE DEF m
    <3>3. m \in ManagerType
      BY <3>1 DEF ManagerOK
    <3>4. /\ Manager' = m
          /\ shares' = m.shares /\ table' = m.table /\ nshares' = m.nshares
          /\ shares' \in Seq(Files) /\ nshares' \in Nat
          /\ table' \in [{HashOf[g] : g \in Files} -> Files \cup {NoShare}]
      BY <3>2, <3>3, SetManagerFacts
    <3>5. ManagerOK(Manager)'
      BY <3>1, <3>4 DEF ManagerOK, ManagerType
    <3> QED BY <3>1, <3>4, <3>5
  <2>2. CASE table[HashOf[f]] # f
    <3>1. UNCHANGED <<shares, table, nshares>>
      BY <2>2 DEF GiftRemove
    <3>2. f \notin ToSet(shares)
      BY <1>2, <1>3, <2>2 DEF ManagerOK
    <3>3. ManagerOK(Manager)'
      BY <1>2, <3>1 DEF ManagerOK, ManagerType, Manager
    <3> QED BY <1>2, <3>1, <3>2, <3>3 DEF ShareInv, SharesTypeOK
  <2> QED BY <2>1, <2>2
<1>6. SharesTypeOK'
  BY <1>1, <1>5 DEF ShareInv, SharesTypeOK
<1>7. ClientOK'
  BY <1>1, <1>2, <1>4, <1>5 DEF ShareInv, ClientOK
<1> QED BY <1>1, <1>5, <1>6, <1>7 DEF ShareInv

LEMMA ShareAddOK ==
    ASSUME ShareInv, NEW f \in Files, ShareAdd(f), UNCHANGED <<connected, client>>
    PROVE  ShareInv'
<1>1. client = "dll" /\ UNCHANGED <<offered, batching, server>>
  BY DEF ShareAdd
<1>2. CASE batching
  <2>1. pending' = <<f>> \o pending /\ UNCHANGED <<shares, table, nshares, told, unsent>>
    BY <1>2 DEF ShareAdd
  <2>2. pending' \in Seq(Files)
    BY <2>1 DEF ShareInv, SharesTypeOK
  <2>3. SharesTypeOK'
    BY <1>1, <2>1, <2>2 DEF ShareInv, SharesTypeOK
  <2>4. ManagerOK(Manager)' /\ ClientOK'
    BY <1>1, <2>1 DEF ShareInv, ManagerOK, ManagerType, Manager, ClientOK
  <2> QED BY <2>1, <2>3, <2>4 DEF ShareInv
<1>3. CASE ~batching
  <2>1. AddAndSubmit(<<f>>) /\ pending' = pending
    BY <1>3 DEF ShareAdd
  <2>2. <<f>> \in Seq(Files)
    OBVIOUS
  <2>3. /\ ManagerOK(Manager)'
        /\ nshares = Len(shares) => nshares' = Len(shares')
        /\ shares' \in Seq(Files) /\ nshares' \in Nat
        /\ table' \in [{HashOf[g] : g \in Files} -> Files \cup {NoShare}]
        /\ told' \in [Hosts -> SUBSET Files] /\ unsent' \in [Hosts -> SUBSET Files]
        /\ \A h \in connected : ToSet(shares') \subseteq told'[h] \cup unsent'[h]
    BY <2>1, <2>2, AddAndSubmitFacts
  <2>4. SharesTypeOK'
    BY <1>1, <2>1, <2>3 DEF ShareInv, SharesTypeOK
  <2>5. ClientOK'
    BY <1>1, <2>1, <2>3 DEF ShareInv, ClientOK
  <2> QED BY <2>3, <2>4, <2>5 DEF ShareInv
<1>4. batching \in BOOLEAN
  BY DEF ShareInv, SharesTypeOK
<1> QED BY <1>2, <1>3, <1>4

(* The file server has no sessions, and nshares counts nothing there.      *)
LEMMA LoadBeginOK ==
    ASSUME ShareInv, LoadBegin, UNCHANGED <<connected, client>>
    PROVE  ShareInv'
<1> DEFINE m == RemovedAll(Manager)
<1>1. /\ client = "server" /\ connected' = {}
      /\ UNCHANGED <<offered, pending, batching, told, unsent>> /\ SetManager(m)
  BY DEF LoadBegin, ShareInv, ClientOK
<1>2. /\ m.shares = <<>> /\ m.table = [h \in DOMAIN table |-> NoShare]
      /\ m.nshares = nshares /\ m = [shares |-> m.shares, table |-> m.table,
                                     nshares |-> m.nshares]
  BY DEF RemovedAll, Manager
<1> HIDE DEF m
<1>3. DOMAIN table = {HashOf[f] : f \in Files} /\ nshares \in Nat
  BY DEF ShareInv, SharesTypeOK
<1>4. m \in ManagerType
  <2>1. m.table \in [{HashOf[f] : f \in Files} -> Files \cup {NoShare}]
    BY <1>2, <1>3
  <2>2. m.shares \in Seq(Files) /\ m.nshares \in Nat
    BY <1>2, <1>3
  <2> QED BY <1>2, <2>1, <2>2 DEF ManagerType
<1>5. ManagerOK(m)
  <2>1. ToSet(m.shares) = {} /\ IsInjective(m.shares)
    BY <1>2 DEF ToSet, IsInjective
  <2>2. \A f \in Files : m.table[HashOf[f]] # f
    BY <1>2, <1>3, SharesAssumption
  <2> QED BY <1>2, <1>4, <2>1, <2>2 DEF ManagerOK
<1>6. /\ Manager' = m /\ shares' \in Seq(Files) /\ nshares' \in Nat
      /\ table' \in [{HashOf[f] : f \in Files} -> Files \cup {NoShare}]
  BY <1>1, <1>4, SetManagerFacts
<1>7. ManagerOK(Manager)'
  BY <1>5, <1>6 DEF ManagerOK, ManagerType
<1>8. SharesTypeOK'
  BY <1>1, <1>6 DEF ShareInv, SharesTypeOK
<1>9. ClientOK' /\ connected' \subseteq Hosts
  BY <1>1 DEF ClientOK
<1> QED BY <1>1, <1>7, <1>8, <1>9 DEF ShareInv

LEMMA LoadEndOK ==
    ASSUME ShareInv, LoadEnd, UNCHANGED <<connected, client>>
    PROVE  ShareInv'
<1>1. /\ client = "server" /\ connected' = {}
      /\ UNCHANGED <<offered, pending, batching, told, unsent>>
  BY DEF LoadEnd, ShareInv, ClientOK
<1> SUFFICES ASSUME \E fs \in SUBSET Files : SetManager(AddAll(Manager, SetToSeq(fs)))
             PROVE  ShareInv'
  <2>1. CASE UNCHANGED <<shares, table, nshares>>
    BY <1>1, <2>1, SharesUnchanged
  <2> QED BY <2>1 DEF LoadEnd
<1>2. PICK fs \in SUBSET Files : SetManager(AddAll(Manager, SetToSeq(fs)))
  OBVIOUS
<1>3. SetToSeq(fs) \in Seq(Files)
  <2>1. IsFiniteSet(fs)
    BY SharesAssumption, FS_Subset
  <2>2. SetToSeq(fs) \in Seq(fs)
    BY <2>1, SetToSeqFacts
  <2> HIDE DEF SetToSeq
  <2> QED BY <2>2
<1> DEFINE m == AddAll(Manager, SetToSeq(fs))
<1>4. ManagerOK(m)
  BY <1>3, AddAllFacts DEF ShareInv
<1>5. SetManager(m)
  BY <1>2
<1> HIDE DEF m
<1>6. m \in ManagerType
  BY <1>4 DEF ManagerOK
<1>7. /\ Manager' = m /\ shares' \in Seq(Files) /\ nshares' \in Nat
      /\ table' \in [{HashOf[f] : f \in Files} -> Files \cup {NoShare}]
  BY <1>5, <1>6, SetManagerFacts
<1>8. ManagerOK(Manager)'
  BY <1>4, <1>7 DEF ManagerOK, ManagerType
<1>9. SharesTypeOK'
  BY <1>1, <1>7 DEF ShareInv, SharesTypeOK
<1>10. ClientOK' /\ connected' \subseteq Hosts
  BY <1>1 DEF ClientOK
<1> QED BY <1>1, <1>8, <1>9, <1>10 DEF ShareInv

LEMMA SharesStepOK ==
    ASSUME ShareInv, SharesStep, UNCHANGED <<connected, client>>
    PROVE  ShareInv'
<1>1. ASSUME NEW f \in Files, GiftAdd(f) \/ GiftRemove(f) \/ ShareAdd(f)
      PROVE  ShareInv'
  BY <1>1, GiftAddOK, GiftRemoveOK, ShareAddOK
<1>2. CASE GiftSubmit \/ ShareEnd
  BY <1>2, HandOverOK DEF GiftSubmit, ShareEnd
<1>3. CASE ShareBegin
  <2>1. client = "dll" /\ batching' = TRUE
        /\ UNCHANGED <<shares, table, nshares, offered, pending, told, unsent>>
    BY <1>3 DEF ShareBegin
  <2> QED BY <2>1 DEF ShareInv, SharesTypeOK, ManagerOK, ManagerType, Manager, ClientOK
<1>4. CASE SigHup
  BY <1>4, SharesUnchanged DEF SigHup
<1>5. CASE LoadBegin \/ LoadEnd
  BY <1>5, LoadBeginOK, LoadEndOK
<1>6. CASE LoadRefused
  BY <1>6, SharesUnchanged DEF LoadRefused
<1> QED BY <1>1, <1>2, <1>3, <1>4, <1>5, <1>6 DEF SharesStep

(* ShareInv is an inductive invariant of the specification.                *)
THEOREM ShareInvariance == AnnSpec => []ShareInv
<1>1. AnnInit => ShareInv
  <2> SUFFICES ASSUME AnnInit PROVE ShareInv
    OBVIOUS
  <2>1. SharesInit /\ connected = {}
    BY DEF AnnInit
  <2>2. /\ shares = <<>> /\ table = [h \in {HashOf[f] : f \in Files} |-> NoShare]
        /\ nshares = 0 /\ offered = {} /\ pending = <<>> /\ batching = FALSE
        /\ told = [h \in Hosts |-> {}] /\ unsent = [h \in Hosts |-> {}]
    BY <2>1 DEF SharesInit
  <2>3. SharesTypeOK
    <3>1. table \in [{HashOf[f] : f \in Files} -> Files \cup {NoShare}]
      BY <2>2
    <3>2. told \in [Hosts -> SUBSET Files] /\ unsent \in [Hosts -> SUBSET Files]
      BY <2>2
    <3>3. batching \in BOOLEAN
      BY <2>2
    <3>4. shares \in Seq(Files) /\ pending \in Seq(Files) /\ nshares \in Nat
          /\ offered \subseteq Files
      BY <2>2
    <3> QED BY <3>1, <3>2, <3>3, <3>4 DEF SharesTypeOK
  <2>4. ToSet(shares) = {} /\ ToSet(pending) = {} /\ IsInjective(shares) /\ Len(shares) = 0
    BY <2>2 DEF ToSet, IsInjective
  <2>5. ManagerOK(Manager)
    <3>1. Manager \in ManagerType
      BY <2>3 DEF Manager, ManagerType, SharesTypeOK
    <3>2. Manager.shares = shares /\ Manager.table = table
      BY DEF Manager
    <3>3. \A f \in Files : table[HashOf[f]] # f
      BY <2>2, SharesAssumption
    <3> QED BY <2>2, <2>4, <3>1, <3>2, <3>3 DEF ManagerOK
  <2>6. ClientOK
    BY <2>1, <2>2, <2>4 DEF ClientOK
  <2> QED BY <2>1, <2>3, <2>5, <2>6 DEF ShareInv
<1>2. ShareInv /\ [AnnNext]_annVars => ShareInv'
  <2> SUFFICES ASSUME ShareInv, [AnnNext]_annVars PROVE ShareInv'
    OBVIOUS
  <2>1. CASE UNCHANGED annVars
    BY <2>1, SharesUnchanged DEF annVars, shareVars
  <2>2. ASSUME NEW h \in Hosts, SessionUp(h) PROVE ShareInv'
    BY <2>2, SharesSessionUp DEF SessionUp
  <2>3. ASSUME NEW h \in Hosts, SessionDown(h) PROVE ShareInv'
    BY <2>3, SharesSessionDown DEF SessionDown
  <2>4. CASE UNCHANGED <<shareVars, connected, client>>
    BY <2>4, SharesUnchanged DEF shareVars
  <2>5. CASE SharesStep /\ UNCHANGED <<connected, client>>
    BY <2>5, SharesStepOK
  <2> QED BY <2>1, <2>2, <2>3, <2>4, <2>5 DEF AnnNext
<1> QED BY <1>1, <1>2, PTL DEF AnnSpec

(* The share manager's list and table agree, and every supernode we are    *)
(* connected to was told of every share, or a packet to it failed, in      *)
(* whatever order shares and sessions come and go.                         *)
THEOREM SharesSafe == AnnSpec => []SharesAnnounced
<1>1. ShareInv => SharesAnnounced
  <2> SUFFICES ASSUME ShareInv PROVE SharesAnnounced
    OBVIOUS
  <2>1. /\ SharesTypeOK /\ ManagerOK(Manager) /\ ClientOK
        /\ \A h \in connected : ToSet(shares) \subseteq told[h] \cup unsent[h]
    BY DEF ShareInv
  <2>2. Range(shares) = ToSet(shares) /\ Range(pending) = ToSet(pending)
    BY DEF Range, ToSet
  <2>3. /\ IsInjective(shares) /\ ToSet(shares) \subseteq Files
        /\ \A f \in Files : f \in ToSet(shares) <=> table[HashOf[f]] = f
        /\ \A h \in DOMAIN table : table[h] # NoShare => HashOf[table[h]] = h
    <3>1. ToSet(shares) \subseteq Files
      BY <2>1 DEF SharesTypeOK, ToSet
    <3> QED BY <2>1, <3>1 DEF ManagerOK, Manager
  <2>4. table \in [{HashOf[f] : f \in Files} -> Files \cup {NoShare}]
    BY <2>1 DEF SharesTypeOK
  <2>5. ToSet(shares) = Range(table) \ {NoShare}
    <3>1. ASSUME NEW f \in ToSet(shares) PROVE f \in Range(table) /\ f # NoShare
      <4>1. f \in Files /\ table[HashOf[f]] = f /\ HashOf[f] \in DOMAIN table
        BY <2>3, <2>4
      <4> QED BY <4>1, SharesAssumption DEF Range
    <3>2. ASSUME NEW f \in Range(table), f # NoShare PROVE f \in ToSet(shares)
      <4>1. PICK h \in DOMAIN table : f = table[h]
        BY DEF Range
      <4>2. f \in Files /\ HashOf[f] = h
        BY <2>3, <2>4, <3>2, <4>1
      <4> QED BY <2>3, <4>1, <4>2
    <3> QED BY <3>1, <3>2
  <2>6. SharesConsistent
    BY <2>1, <2>2, <2>3, <2>5 DEF SharesConsistent, ClientOK, OnlyOne
  <2> QED BY <2>1, <2>2, <2>6 DEF SharesAnnounced
<1> QED BY <1>1, ShareInvariance, PTL

-----------------------------------------------------------------------------
(* The upload manager. *)

NoDup(q) == \A i, j \in DOMAIN q : q[i].host = q[j].host => i = j

(* The Nth of a finite set of positions is defined for every j up to its  *)
(* cardinality: the rank is an injection of K into 1 .. Cardinality(K),   *)
(* hence onto it.                                                         *)
LEMMA NthFacts ==
    ASSUME NEW n \in Nat, NEW K \in SUBSET (1 .. n)
    PROVE  /\ Cardinality(K) \in Nat
           /\ Cardinality(K) <= n
           /\ \A j \in 1 .. Cardinality(K) :
                 /\ Nth(K, j) \in K
                 /\ Cardinality({m \in K : m <= Nth(K, j)}) = j
<1> DEFINE Below(k) == {m \in K : m <= k}
           N == Cardinality(K)
           rank == [k \in K |-> Cardinality(Below(k))]
<1>1. IsFiniteSet(K) /\ N \in Nat /\ N <= n
  <2>1. IsFiniteSet(1 .. n) /\ Cardinality(1 .. n) = n
    BY FS_Interval
  <2>2. IsFiniteSet(K) /\ Cardinality(K) <= Cardinality(1 .. n)
    BY <2>1, FS_Subset
  <2> QED BY <2>1, <2>2, FS_CardinalityType
<1>2. ASSUME NEW k \in K
      PROVE  IsFiniteSet(Below(k)) /\ Cardinality(Below(k)) \in 1 .. N
  <2>1. Below(k) \in SUBSET K /\ k \in Below(k)
    BY k \in 1 .. n
  <2>2. IsFiniteSet(Below(k)) /\ Cardinality(Below(k)) <= N
    BY <1>1, <2>1, FS_Subset
  <2>3. Cardinality(Below(k)) \in Nat /\ Cardinality(Below(k)) # 0
    BY <2>1, <2>2, FS_CardinalityType, FS_EmptySet
  <2> QED BY <2>2, <2>3, <1>1
<1>3. ASSUME NEW k \in K, NEW l \in K, k < l
      PROVE  Cardinality(Below(k)) # Cardinality(Below(l))
  <2>1. \A m \in K : m <= k => m <= l
    BY <1>3, \A m \in K : m \in Nat
  <2>2. l \in Below(l) /\ l \notin Below(k)
    BY <1>3, k \in 1 .. n, l \in 1 .. n
  <2>3. IsFiniteSet(Below(l))
    BY <1>2
  <2>4. Cardinality(Below(l)) = Cardinality(Below(k)) => Below(l) = Below(k)
    BY <2>1, <2>3, FS_Subset, Below(k) \in SUBSET Below(l)
  <2> QED BY <2>2, <2>4
<1>4. rank \in [K -> 1 .. N]
  BY <1>2
<1>5. rank \in Injection(K, 1 .. N)
  <2>1. \A k, l \in K : rank[k] = rank[l] => k = l
    <3> SUFFICES ASSUME NEW k \in K, NEW l \in K, k # l
                 PROVE  rank[k] # rank[l]
      OBVIOUS
    <3>1. k < l \/ l < k
      BY k \in 1 .. n, l \in 1 .. n
    <3> QED BY <3>1, <1>3
  <2> QED BY <1>4, <2>1 DEF Injection, IsInjective
<1>6. IsFiniteSet(1 .. N) /\ Cardinality(1 .. N) = N
  BY <1>1, FS_Interval
<1>7. rank \in Surjection(K, 1 .. N)
  BY <1>5, <1>6, FS_Injection
<1>8. ASSUME NEW j \in 1 .. N
      PROVE  \E k \in K : Cardinality(Below(k)) = j
  BY <1>7 DEF Surjection
<1> QED BY <1>1, <1>8 DEF Nth

(* Tidying a queue yields a queue, no longer than before, in which no     *)
(* host appears twice if none did before.                                 *)
LEMMA TidyFacts ==
    ASSUME NEW q \in Seq(QueueRec), NoDup(q)
    PROVE  /\ Tidy(q) \in Seq(QueueRec)
           /\ Len(Tidy(q)) \in Nat
           /\ Len(Tidy(q)) <= Len(q)
           /\ NoDup(Tidy(q))
<1> DEFINE K == Fresh(q)
           N == Cardinality(K)
<1>1. K \in SUBSET (1 .. Len(q)) /\ Len(q) \in Nat
  BY DEF Fresh
<1>2. /\ N \in Nat /\ N <= Len(q)
      /\ \A j \in 1 .. N : /\ Nth(K, j) \in K
                           /\ Cardinality({m \in K : m <= Nth(K, j)}) = j
  BY <1>1, NthFacts
<1>a. Tidy(q) = [j \in 1 .. N |-> q[Nth(K, j)]]
  BY DEF Tidy
<1>b. \A k \in K : k \in DOMAIN q /\ q[k] \in QueueRec
  BY <1>1
<1> HIDE DEF K, N
<1>3. \A j \in 1 .. N : Tidy(q)[j] = q[Nth(K, j)] /\ Tidy(q)[j] \in QueueRec
  BY <1>2, <1>a, <1>b
<1>4. Tidy(q) \in [1 .. N -> QueueRec]
  BY <1>3, <1>a
<1>5. Tidy(q) \in Seq(QueueRec) /\ Len(Tidy(q)) = N
  BY <1>2, <1>4
<1>6. ASSUME NEW i \in 1 .. N, NEW j \in 1 .. N,
             Tidy(q)[i].host = Tidy(q)[j].host
      PROVE  i = j
  <2>1. Nth(K, i) = Nth(K, j)
    BY <1>2, <1>3, <1>6, <1>b DEF NoDup
  <2> QED BY <1>2, <2>1
<1> QED BY <1>2, <1>4, <1>5, <1>6 DEF NoDup

(* queue_remove: one entry less, the others in their order. *)
LEMMA RemoveLinkFacts ==
    ASSUME NEW q \in Seq(QueueRec), NEW i \in 1 .. Len(q), NoDup(q)
    PROVE  /\ RemoveLink(q, i) \in Seq(QueueRec)
           /\ Len(RemoveLink(q, i)) = Len(q) - 1
           /\ NoDup(RemoveLink(q, i))
<1> DEFINE a == SubSeq(q, 1, i - 1)
           b == SubSeq(q, i + 1, Len(q))
           r == a \o b
<1>1. a \in Seq(QueueRec) /\ Len(a) = i - 1 /\ \A j \in 1 .. i - 1 : a[j] = q[j]
  BY SubSeqProperties
<1>2. /\ b \in Seq(QueueRec) /\ Len(b) = Len(q) - i
      /\ \A j \in 1 .. Len(q) - i : b[j] = q[i + j]
  BY SubSeqProperties
<1> HIDE DEF a, b
<1>3. r \in Seq(QueueRec) /\ Len(r) = Len(q) - 1
  <2>1. r \in Seq(QueueRec) /\ Len(r) = Len(a) + Len(b)
    BY <1>1, <1>2, ConcatProperties
  <2> QED BY <1>1, <1>2, <2>1, Len(q) \in Nat
<1>4. \A j \in 1 .. Len(q) - 1 : r[j] = IF j < i THEN q[j] ELSE q[j + 1]
  BY <1>1, <1>2
<1>5. RemoveLink(q, i) = r
  BY DEF RemoveLink, a, b
<1> HIDE DEF r
<1>6. ASSUME NEW j \in 1 .. Len(q) - 1, NEW k \in 1 .. Len(q) - 1,
             r[j].host = r[k].host
      PROVE  j = k
  <2> DEFINE at(m) == IF m < i THEN m ELSE m + 1
  <2>1. at(j) \in 1 .. Len(q) /\ at(k) \in 1 .. Len(q)
    BY Len(q) \in Nat
  <2>2. r[j] = q[at(j)] /\ r[k] = q[at(k)]
    BY <1>4
  <2>3. at(j) = at(k)
    BY <1>6, <2>1, <2>2 DEF NoDup
  <2> QED BY <2>3, Len(q) \in Nat
<1>7. NoDup(r)
  BY <1>3, <1>6 DEF NoDup
<1> QED BY <1>3, <1>5, <1>7

(* A host that is not in the queue can be appended. *)
LEMMA AppendFacts ==
    ASSUME NEW q \in Seq(QueueRec), NEW h \in Peers, NoDup(q),
           {i \in DOMAIN q : q[i].host = h} = {}
    PROVE  LET r == Append(q, [host |-> h, age |-> 0])
           IN  r \in Seq(QueueRec) /\ Len(r) = Len(q) + 1 /\ NoDup(r)
<1> DEFINE e == [host |-> h, age |-> 0]
           r == Append(q, e)
<1>1. e \in QueueRec /\ e.host = h
  BY DEF QueueRec
<1> HIDE DEF e
<1>2. /\ r \in Seq(QueueRec) /\ Len(r) = Len(q) + 1
      /\ r[Len(q) + 1] = e /\ \A i \in 1 .. Len(q) : r[i] = q[i]
  BY <1>1
<1>3. \A i \in 1 .. Len(q) : q[i].host # h
  OBVIOUS
<1> HIDE DEF r
<1>4. NoDup(r)
  BY <1>1, <1>2, <1>3 DEF NoDup
<1> QED BY <1>2, <1>4 DEF r, e

(* Refreshing an entry's time leaves the hosts as they are. *)
LEMMA RefreshFacts ==
    ASSUME NEW q \in Seq(QueueRec), NEW i \in 1 .. Len(q), NoDup(q)
    PROVE  LET r == [q EXCEPT ![i].age = 0]
           IN  r \in Seq(QueueRec) /\ Len(r) = Len(q) /\ NoDup(r)
<1> DEFINE r == [q EXCEPT ![i].age = 0]
<1>1. \A j \in 1 .. Len(q) : q[j] \in QueueRec
  OBVIOUS
<1>a. ASSUME NEW e \in QueueRec
      PROVE  [e EXCEPT !.age = 0] \in QueueRec /\ [e EXCEPT !.age = 0].host = e.host
  BY DEF QueueRec
<1>b. \A j \in 1 .. Len(q) :
        r[j] = IF j = i THEN [q[i] EXCEPT !.age = 0] ELSE q[j]
  OBVIOUS
<1>2. \A j \in 1 .. Len(q) : r[j].host = q[j].host /\ r[j] \in QueueRec
  BY <1>1, <1>a, <1>b
<1>3. r \in [1 .. Len(q) -> QueueRec]
  BY <1>2
<1>4. r \in Seq(QueueRec) /\ Len(r) = Len(q)
  BY <1>3
<1> HIDE DEF r
<1>5. NoDup(r)
  BY <1>2, <1>4 DEF NoDup
<1> QED BY <1>4, <1>5 DEF r

(* What upman_auth answers: it keeps the queue consistent, fails in no    *)
(* other way than with the null link, and authorises only a host without  *)
(* an active upload while a slot is free.                                 *)
LEMMA AuthFacts ==
    ASSUME UploadManAssumption, TypeOK, QueueConsistent, NEW h \in Peers
    PROVE  /\ Auth(h).abort \in {"no", "null_link"}
           /\ Auth(h).queue \in Seq(QueueRec)
           /\ NoDup(Auth(h).queue)
           /\ Auth(h).nqueued = Len(Auth(h).queue)
           /\ Auth(h).abort = "no" /\ Auth(h).pos = 0 =>
                 nuploads < MaxActive /\ ~Uploading(h)
<1> DEFINE q == Tidy(queue)
           n == nqueued - (Len(queue) - Len(q))
           at == {i \in DOMAIN q : q[i].host = h}
           first == CHOOSE i \in at : \A j \in at : i <= j
<1>0. /\ queue \in Seq(QueueRec) /\ NoDup(queue) /\ nqueued = Len(queue)
      /\ Len(queue) \in Nat /\ nuploads \in Int /\ MaxActive \in Nat
  BY DEF TypeOK, QueueConsistent, NoDup, UploadManAssumption
<1>1. q \in Seq(QueueRec) /\ Len(q) \in Nat /\ Len(q) <= Len(queue) /\ NoDup(q)
  BY <1>0, TidyFacts
<1>2. n = Len(q)
  BY <1>0, <1>1
<1>3. at # {} => first \in 1 .. Len(q)
  <2> SUFFICES ASSUME NEW i \in at PROVE first \in 1 .. Len(q)
    OBVIOUS
  <2>1. \A j \in at : j = i
    BY <1>1 DEF NoDup
  <2>2. i \in Nat
    BY <1>1
  <2>3. \E k \in at : \A j \in at : k <= j
    BY <2>1, <2>2
  <2>4. first \in at
    BY <2>3
  <2> QED BY <1>1, <2>4
<1> HIDE DEF q, n, at, first
<1>4. CASE Uploading(h)
  <2>1. Auth(h) = Answer(-1, queue, nqueued)
    BY <1>4 DEF Auth
  <2> QED BY <1>0, <2>1 DEF Answer
<1>5. CASE ~Uploading(h) /\ nuploads + nqueued < MaxActive
  <2>1. Auth(h) = Answer(0, queue, nqueued)
    BY <1>5 DEF Auth
  <2> QED BY <1>0, <1>5, <2>1 DEF Answer
<1>6. CASE ~Uploading(h) /\ ~(nuploads + nqueued < MaxActive) /\ at = {}
  <2>1. Auth(h) = Enqueue(q, n, h)
    BY <1>2, <1>6 DEF Auth, q, n, at
  <2>2. CASE n + 1 + nuploads < MaxActive
    <3>1. Auth(h) = Abort("null_link")
      BY <2>1, <2>2 DEF Enqueue
    <3> QED BY <1>0, <3>1 DEF Abort
  <2>3. CASE ~(n + 1 + nuploads < MaxActive)
    <3> DEFINE r == Append(q, [host |-> h, age |-> 0])
    <3>1. Auth(h) = Answer(n + 1, r, n + 1)
      BY <2>1, <2>3 DEF Enqueue
    <3>2. r \in Seq(QueueRec) /\ Len(r) = Len(q) + 1 /\ NoDup(r)
      BY <1>1, <1>6, AppendFacts DEF at
    <3> HIDE DEF r
    <3> QED BY <1>1, <1>2, <3>1, <3>2 DEF Answer
  <2> QED BY <2>2, <2>3
<1>7. CASE ~Uploading(h) /\ ~(nuploads + nqueued < MaxActive) /\ at # {}
  <2>1. Auth(h) = Decide(q, n, first)
    BY <1>2, <1>7 DEF Auth, q, n, at, first
  <2>2. first \in 1 .. Len(q)
    BY <1>3, <1>7
  <2>3. CASE first + nuploads < MaxActive
    <3> DEFINE r == RemoveLink(q, first)
    <3>1. Auth(h) = Answer(0, r, n - 1)
      BY <2>1, <2>3 DEF Decide
    <3>2. r \in Seq(QueueRec) /\ Len(r) = Len(q) - 1 /\ NoDup(r)
      BY <1>1, <2>2, RemoveLinkFacts
    <3>3. nuploads < MaxActive
      BY <1>0, <1>1, <2>2, <2>3
    <3> HIDE DEF r
    <3> QED BY <1>2, <1>7, <3>1, <3>2, <3>3 DEF Answer
  <2>4. CASE ~(first + nuploads < MaxActive)
    <3> DEFINE r == [q EXCEPT ![first].age = 0]
    <3>1. Auth(h) = Answer(first, r, n)
      BY <2>1, <2>4 DEF Decide
    <3>2. r \in Seq(QueueRec) /\ Len(r) = Len(q) /\ NoDup(r)
      BY <1>1, <2>2, RefreshFacts
    <3> HIDE DEF r
    <3> QED BY <1>1, <1>2, <2>2, <3>1, <3>2 DEF Answer
  <2> QED BY <2>3, <2>4
<1> QED BY <1>4, <1>5, <1>6, <1>7

-----------------------------------------------------------------------------
(***************************************************************************)
(* The inductive invariant.  The count needs the queue (a slot is free     *)
(* only if nqueued is not negative), the assert ()s need the timer to      *)
(* follow the count.                                                       *)
(***************************************************************************)
TimerFollows == progress_timer = (progress_cb /\ nuploads > 0)

Counted == SlotsCounted /\ OnlyNullLink

IndInv == TypeOK /\ QueueConsistent /\ OnePerHost /\ TimerFollows /\ Counted

(* The active uploads are finitely many. *)
LEMMA ActiveFinite ==
    ASSUME UploadManAssumption
    PROVE  IsFiniteSet(Active) /\ Cardinality(Active) \in Nat
<1>1. Active \in SUBSET Uploads
  BY DEF Active
<1>2. IsFiniteSet(Active)
  BY <1>1, FS_Subset DEF UploadManAssumption
<1> QED BY <1>2, FS_CardinalityType

(* The active uploads after u left them. *)
LEMMA ActiveRemoved ==
    ASSUME UploadManAssumption, TypeOK, NEW u \in Active, NEW r, r.state # "ACTIVE",
           up' = [up EXCEPT ![u] = r]
    PROVE  /\ Active' = Active \ {u}
           /\ Cardinality(Active') = Cardinality(Active) - 1
           /\ \A v \in Active' : up'[v] = up[v]
<1>1. Active' = Active \ {u} /\ \A v \in Active' : up'[v] = up[v]
  BY DEF Active, TypeOK
<1>2. IsFiniteSet(Active)
  BY ActiveFinite
<1> QED BY <1>1, <1>2, FS_RemoveElement

(* The active uploads after u became active. *)
LEMMA ActiveAdded ==
    ASSUME UploadManAssumption, TypeOK, NEW u \in Uploads, NEW h,
           up[u].state = "free",
           up' = [up EXCEPT ![u] = [host |-> h, state |-> "ACTIVE"]]
    PROVE  /\ Active' = Active \cup {u} /\ u \notin Active
           /\ Cardinality(Active') = Cardinality(Active) + 1
           /\ \A v \in Active : up'[v] = up[v]
           /\ up'[u].host = h
<1>1. Active' = Active \cup {u} /\ u \notin Active
  BY DEF Active, TypeOK
<1>2. (\A v \in Active : up'[v] = up[v]) /\ up'[u].host = h
  BY <1>1 DEF Active, TypeOK
<1>3. IsFiniteSet(Active)
  BY ActiveFinite
<1> QED BY <1>1, <1>2, <1>3, FS_AddElement

(* An upload that leaves the active state, in whatever way. *)
LEMMA EndedOK ==
    ASSUME UploadManAssumption, IndInv, aborted = "no",
           NEW u \in Active, NEW r \in UploadRec, r.state # "ACTIVE",
           up' = [up EXCEPT ![u] = r], SetCount(nuploads - 1),
           aborted' = "no" \/ (aborted' = "nuploads" /\ nuploads - 1 < 0),
           UNCHANGED <<queue, nqueued, progress_cb, waiting, sized>>
    PROVE  IndInv'
<1>1. /\ Active' = Active \ {u}
      /\ Cardinality(Active') = Cardinality(Active) - 1
      /\ \A v \in Active' : up'[v] = up[v]
  BY ActiveRemoved DEF IndInv
<1>2. u \in Uploads
  BY DEF Active
<1>3. TypeOK'
  BY <1>2 DEF IndInv, TypeOK, SetCount, TimerUpdate
<1>4. QueueConsistent'
  BY DEF IndInv, QueueConsistent
<1>5. OnePerHost'
  BY <1>1 DEF IndInv, OnePerHost
<1>6. TimerFollows'
  BY DEF SetCount, TimerUpdate, TimerFollows
<1>7. Counted'
  <2>1. /\ nuploads + sized = Cardinality(Active)
        /\ Cardinality(Active) <= MaxActive + sized
    BY DEF IndInv, Counted, SlotsCounted
  <2>2. nuploads' = nuploads - 1
    BY DEF SetCount
  <2>3. /\ MaxActive \in Nat /\ Cardinality(Active) \in Nat
        /\ sized \in Nat /\ nuploads \in Int
    BY ActiveFinite DEF UploadManAssumption, IndInv, TypeOK
  <2>4. Cardinality(Active) # 0
    BY ActiveFinite, FS_EmptySet
  <2>5. SlotsCounted'
    BY <1>1, <2>1, <2>2, <2>3 DEF SlotsCounted
  <2>6. OnlyNullLink'
    BY <2>1, <2>3, <2>4 DEF OnlyNullLink
  <2> QED BY <2>5, <2>6 DEF Counted
<1> QED BY <1>3, <1>4, <1>5, <1>6, <1>7 DEF IndInv

(* Steps that leave the uploads and their count alone. *)
LEMMA QueueStepOK ==
    ASSUME UploadManAssumption, IndInv, UNCHANGED <<up, nuploads, sized>>,
           queue' \in Seq(QueueRec), nqueued' = Len(queue'), NoDup(queue'),
           progress_cb' \in BOOLEAN,
           progress_timer' = (progress_cb' /\ nuploads > 0),
           waiting' \in SUBSET Peers,
           aborted' \in {"no", "null_link", "null_share"}
    PROVE  IndInv'
<1>1. Active' = Active
  BY DEF Active
<1>2. TypeOK'
  <2>1. Len(queue') \in Int
    OBVIOUS
  <2> QED BY <2>1 DEF IndInv, TypeOK
<1>3. QueueConsistent'
  BY DEF QueueConsistent, NoDup
<1>4. OnePerHost'
  BY <1>1 DEF IndInv, OnePerHost
<1>5. TimerFollows'
  BY DEF TimerFollows
<1>6. Counted'
  BY <1>1 DEF IndInv, Counted, SlotsCounted, OnlyNullLink
<1> QED BY <1>2, <1>3, <1>4, <1>5, <1>6 DEF IndInv

(* A 503 touches nothing but the queue. *)
LEMMA RefuseOK ==
    ASSUME UploadManAssumption, IndInv, NEW h \in Peers, Refuse(h)
    PROVE  IndInv'
<1>1. /\ Auth(h).queue \in Seq(QueueRec) /\ NoDup(Auth(h).queue)
      /\ Auth(h).nqueued = Len(Auth(h).queue)
  BY AuthFacts DEF IndInv
<1>2. queue' = Auth(h).queue /\ nqueued' = Auth(h).nqueued
  BY DEF Refuse
<1>3. /\ UNCHANGED <<up, nuploads, progress_cb, progress_timer, sized>>
      /\ waiting' \in SUBSET Peers /\ aborted' = "no"
  BY DEF Refuse, Running, timer, IndInv, TypeOK
<1>4. /\ progress_cb' \in BOOLEAN
      /\ progress_timer' = (progress_cb' /\ nuploads > 0)
  BY <1>3 DEF IndInv, TypeOK, TimerFollows
<1> HIDE DEF IndInv
<1> QED BY <1>1, <1>2, <1>3, <1>4, QueueStepOK

(* An authorised request takes at most one slot, and one that is free. *)
LEMMA AdmitOK ==
    ASSUME UploadManAssumption, IndInv, NEW h \in Peers, NEW u \in Uploads,
           Admit(h, u)
    PROVE  IndInv'
<1>1. /\ Auth(h).queue \in Seq(QueueRec) /\ NoDup(Auth(h).queue)
      /\ Auth(h).nqueued = Len(Auth(h).queue)
      /\ nuploads < MaxActive /\ ~Uploading(h)
  BY AuthFacts DEF IndInv, Admit
<1>2. queue' = Auth(h).queue /\ nqueued' = Auth(h).nqueued
  BY DEF Admit
<1>3. /\ UNCHANGED <<progress_cb, sized>>
      /\ waiting' \in SUBSET Peers /\ aborted' = "no"
  BY DEF Admit, Running, IndInv, TypeOK
<1>4. CASE UNCHANGED <<up, nuploads, progress_timer>>
  <2>1. /\ progress_cb' \in BOOLEAN
        /\ progress_timer' = (progress_cb' /\ nuploads > 0)
    BY <1>3, <1>4 DEF IndInv, TypeOK, TimerFollows
  <2> QED BY <1>1, <1>2, <1>3, <1>4, <2>1, QueueStepOK
<1>5. CASE /\ up' = [up EXCEPT ![u] = [host |-> h, state |-> "ACTIVE"]]
           /\ SetCount(nuploads + 1)
  <2>1. /\ Active' = Active \cup {u} /\ u \notin Active
        /\ Cardinality(Active') = Cardinality(Active) + 1
        /\ \A v \in Active : up'[v] = up[v]
        /\ up'[u].host = h
    BY <1>5, ActiveAdded DEF Admit, IndInv
  <2>2. TypeOK'
    <3>1. up' \in [Uploads -> UploadRec]
      BY <1>5 DEF IndInv, TypeOK, UploadRec
    <3>2. Len(queue') \in Int
      BY <1>1, <1>2
    <3> QED BY <1>1, <1>2, <1>3, <1>5, <3>1, <3>2
            DEF IndInv, TypeOK, SetCount, TimerUpdate
  <2>3. QueueConsistent'
    BY <1>1, <1>2 DEF QueueConsistent, NoDup
  <2>4. OnePerHost'
    BY <1>1, <2>1 DEF IndInv, OnePerHost, Uploading
  <2>5. TimerFollows'
    BY <1>3, <1>5 DEF SetCount, TimerUpdate, TimerFollows
  <2>6. Counted'
    <3>1. nuploads + sized = Cardinality(Active) /\ nuploads' = nuploads + 1
      BY <1>5 DEF IndInv, Counted, SlotsCounted, SetCount
    <3>2. /\ MaxActive \in Nat /\ Cardinality(Active) \in Nat
          /\ sized \in Nat /\ sized' = sized /\ nuploads \in Int
      BY <1>3, ActiveFinite DEF UploadManAssumption, IndInv, TypeOK
    <3>3. SlotsCounted'
      BY <1>1, <2>1, <3>1, <3>2 DEF SlotsCounted
    <3> QED BY <1>3, <3>3 DEF Counted, OnlyNullLink
  <2> QED BY <2>2, <2>3, <2>4, <2>5, <2>6 DEF IndInv
<1> QED BY <1>4, <1>5 DEF Admit

(* A file size request takes one off the count and is itself counted. *)
LEMMA MetadataOK ==
    ASSUME UploadManAssumption, IndInv, NEW h \in Peers, Metadata(h)
    PROVE  IndInv'
<1>1. Active' = Active
  BY DEF Active, Metadata
<1>2. TypeOK'
  <2>1. sized' \in 0 .. MaxSized
    BY DEF IndInv, TypeOK, Metadata, UploadManAssumption
  <2> QED BY <2>1 DEF IndInv, TypeOK, Metadata, SetCount, TimerUpdate
<1>3. QueueConsistent' /\ OnePerHost'
  BY <1>1 DEF IndInv, QueueConsistent, OnePerHost, Metadata
<1>4. TimerFollows'
  BY DEF Metadata, SetCount, TimerUpdate, TimerFollows
<1>5. Counted'
  <2>1. /\ nuploads + sized = Cardinality(Active)
        /\ Cardinality(Active) <= MaxActive + sized
    BY DEF IndInv, Counted, SlotsCounted
  <2>2. nuploads' = nuploads - 1 /\ sized' = sized + 1
    BY DEF Metadata, SetCount
  <2>3. /\ MaxActive \in Nat /\ Cardinality(Active) \in Nat
        /\ sized \in Nat /\ nuploads \in Int
    BY ActiveFinite DEF UploadManAssumption, IndInv, TypeOK
  <2>4. SlotsCounted'
    BY <1>1, <2>1, <2>2, <2>3 DEF SlotsCounted
  <2>5. OnlyNullLink'
    BY <2>2, <2>3 DEF OnlyNullLink
  <2> QED BY <2>4, <2>5 DEF Counted
<1> QED BY <1>2, <1>3, <1>4, <1>5 DEF IndInv

(* The owner and the event loop end or remove an upload. *)
LEMMA UploadStepOK ==
    ASSUME UploadManAssumption, IndInv, NEW u \in Uploads,
           SendFile(u) \/ Cancel(u) \/ RemoveUpload(u)
    PROVE  IndInv'
<1>0. aborted = "no" /\ up[u] \in UploadRec /\ up \in [Uploads -> UploadRec]
  BY DEF SendFile, Cancel, RemoveUpload, Running, IndInv, TypeOK
<1>1. ASSUME NEW st \in {"COMPLETE", "CANCELLED"}, End(u, st), u \in Active
      PROVE  IndInv'
  <2> DEFINE r == [up[u] EXCEPT !.state = st]
  <2>1. r \in UploadRec /\ r.state # "ACTIVE"
    BY <1>0, <1>1 DEF UploadRec
  <2>2. up' = [up EXCEPT ![u] = r]
    BY <1>1 DEF End
  <2> HIDE DEF r
  <2>3. /\ SetCount(nuploads - 1)
        /\ aborted' = "no" \/ (aborted' = "nuploads" /\ nuploads - 1 < 0)
        /\ UNCHANGED <<queue, nqueued, progress_cb, waiting, sized>>
    BY <1>1 DEF End
  <2> QED BY <1>0, <1>1, <2>1, <2>2, <2>3, EndedOK
<1>2. CASE SendFile(u)
  <2>1. u \in Active /\ (End(u, "COMPLETE") \/ End(u, "CANCELLED"))
    BY <1>2 DEF SendFile, Active
  <2> QED BY <1>1, <2>1
<1>3. CASE Cancel(u)
  <2>1. u \in Active /\ End(u, "CANCELLED")
    BY <1>3 DEF Cancel, Active
  <2> QED BY <1>1, <2>1
<1>4. CASE RemoveUpload(u) /\ u \in Active
  <2>1. FreeUpload \in UploadRec /\ FreeUpload.state # "ACTIVE"
    BY DEF FreeUpload, UploadRec
  <2>2. /\ up' = [up EXCEPT ![u] = FreeUpload] /\ SetCount(nuploads - 1)
        /\ aborted' = "no"
        /\ UNCHANGED <<queue, nqueued, progress_cb, waiting, sized>>
    BY <1>0, <1>4 DEF RemoveUpload, Active
  <2> QED BY <1>0, <1>4, <2>1, <2>2, EndedOK
<1>5. CASE RemoveUpload(u) /\ u \notin Active
  <2>1. /\ up' = [up EXCEPT ![u] = FreeUpload]
        /\ UNCHANGED <<nuploads, progress_timer, queue, nqueued, progress_cb,
                       waiting, sized, aborted>>
    BY <1>5 DEF RemoveUpload, Active
  <2>2. FreeUpload \in UploadRec /\ FreeUpload.state # "ACTIVE"
    BY DEF FreeUpload, UploadRec
  <2>3. Active' = Active /\ \A v \in Active : up'[v] = up[v]
    BY <1>0, <1>5, <2>1, <2>2 DEF Active
  <2>4. TypeOK'
    BY <1>0, <2>1, <2>2 DEF IndInv, TypeOK
  <2>5. QueueConsistent' /\ TimerFollows'
    BY <2>1 DEF IndInv, QueueConsistent, TimerFollows
  <2>6. OnePerHost'
    BY <2>3 DEF IndInv, OnePerHost
  <2>7. Counted'
    BY <2>1, <2>3 DEF IndInv, Counted, SlotsCounted, OnlyNullLink
  <2> QED BY <2>4, <2>5, <2>6, <2>7 DEF IndInv
<1> QED BY <1>2, <1>3, <1>4, <1>5

(* Time, the progress timer and its callback. *)
LEMMA TimeStepOK ==
    ASSUME UploadManAssumption, IndInv, Tick
    PROVE  IndInv'
<1>0. queue \in Seq(QueueRec) /\ \A i \in 1 .. Len(queue) : queue[i] \in QueueRec
  BY DEF IndInv, TypeOK
<1>1. ASSUME NEW e \in QueueRec
      PROVE  /\ [e EXCEPT !.age = @ + 1] \in QueueRec
             /\ [e EXCEPT !.age = @ + 1].host = e.host
  BY DEF QueueRec
<1> DEFINE older(e) == IF e.age <= QueueTimeout
                       THEN [e EXCEPT !.age = @ + 1] ELSE e
<1>2. queue' = [i \in DOMAIN queue |-> older(queue[i])]
  BY DEF Tick
<1>3. \A i \in 1 .. Len(queue) :
         older(queue[i]) \in QueueRec /\ older(queue[i]).host = queue[i].host
  BY <1>0, <1>1
<1> HIDE DEF older
<1>4. queue' \in [1 .. Len(queue) -> QueueRec]
  BY <1>0, <1>2, <1>3
<1>5. queue' \in Seq(QueueRec) /\ Len(queue') = Len(queue)
  BY <1>0, <1>4
<1>6. NoDup(queue')
  BY <1>0, <1>2, <1>3, <1>5 DEF NoDup, IndInv, QueueConsistent
<1>7. /\ UNCHANGED <<up, nuploads, nqueued, progress_cb, progress_timer, sized>>
      /\ waiting' \in SUBSET Peers /\ aborted' = "no"
  BY DEF Tick, Running, timer, IndInv, TypeOK
<1>8. /\ nqueued' = Len(queue') /\ progress_cb' \in BOOLEAN
      /\ progress_timer' = (progress_cb' /\ nuploads > 0)
  BY <1>5, <1>7 DEF IndInv, TypeOK, TimerFollows, QueueConsistent
<1> QED BY <1>5, <1>6, <1>7, <1>8, QueueStepOK

(* progress_timer_func and the assert ()s behind it. *)
LEMMA ProgressTimerOK ==
    ASSUME UploadManAssumption, IndInv, ProgressTimer
    PROVE  IndInv'
<1>0. /\ nuploads \in Int /\ progress_cb /\ nuploads > 0
      /\ UNCHANGED <<up, nuploads, queue, nqueued, progress_cb, progress_timer,
                     waiting, sized>>
      /\ aborted' = IF ~progress_cb \/ nuploads <= 0 THEN "timer"
                    ELSE IF Cardinality(Active) # nuploads THEN "progress"
                    ELSE "no"
  BY DEF ProgressTimer, IndInv, TypeOK, TimerFollows, man, timer
<1>1. Active' = Active
  BY <1>0 DEF Active
<1>2. TypeOK'
  BY <1>0 DEF IndInv, TypeOK
<1>3. QueueConsistent' /\ OnePerHost' /\ TimerFollows'
  BY <1>0, <1>1 DEF IndInv, QueueConsistent, OnePerHost, TimerFollows
<1>4. Counted'
  BY <1>0, <1>1 DEF IndInv, Counted, SlotsCounted, OnlyNullLink
<1> QED BY <1>2, <1>3, <1>4 DEF IndInv

(* Every step of the manager keeps the invariant. *)
LEMMA NextOK ==
    ASSUME UploadManAssumption, IndInv, [Next]_vars
    PROVE  IndInv'
<1>0. /\ queue \in Seq(QueueRec) /\ nqueued = Len(queue) /\ NoDup(queue)
      /\ waiting \in SUBSET Peers /\ progress_cb \in BOOLEAN
      /\ progress_timer = (progress_cb /\ nuploads > 0)
  BY DEF IndInv, TypeOK, QueueConsistent, NoDup, TimerFollows
<1>1. ASSUME NEW h \in Peers, Crash(h) PROVE IndInv'
  <2>1. /\ UNCHANGED <<up, nuploads, queue, nqueued, progress_cb,
                       progress_timer, waiting, sized>>
        /\ aborted' = Auth(h).abort
    BY <1>1 DEF Crash, man, timer
  <2>2. Auth(h).abort \in {"no", "null_link"}
    BY AuthFacts DEF IndInv
  <2> QED BY <1>0, <2>1, <2>2, QueueStepOK
<1>2. ASSUME NEW h \in Peers, BadRequest(h) PROVE IndInv'
  <2>1. /\ UNCHANGED <<up, nuploads, queue, nqueued, progress_cb,
                       progress_timer, sized>>
        /\ aborted' = "no" /\ waiting' = waiting \ {h}
    BY <1>2 DEF BadRequest, man, timer, Running
  <2> QED BY <1>0, <2>1, QueueStepOK
<1>3. ASSUME NEW h \in Peers, NotShared(h) PROVE IndInv'
  <2>1. /\ UNCHANGED <<up, nuploads, queue, nqueued, progress_cb,
                       progress_timer, sized>>
        /\ aborted' = "no" /\ waiting' = waiting \ {h}
    BY <1>3 DEF NotShared, man, timer, Running
  <2> QED BY <1>0, <2>1, QueueStepOK
<1>4. ASSUME NEW h \in Peers, OpenRange(h) PROVE IndInv'
  <2>1. /\ UNCHANGED <<up, nuploads, queue, nqueued, progress_cb,
                       progress_timer, waiting, sized>>
        /\ aborted' = "null_share"
    BY <1>4 DEF OpenRange, man, timer
  <2> QED BY <1>0, <2>1, QueueStepOK
<1>5. ASSUME NEW cb \in BOOLEAN, SetProgressCb(cb) PROVE IndInv'
  <2>1. /\ UNCHANGED <<up, nuploads, queue, nqueued, waiting, sized>>
        /\ aborted' = "no" /\ progress_cb' = cb
        /\ progress_timer' = (cb /\ nuploads > 0)
    BY <1>5 DEF SetProgressCb, TimerUpdate, man, Running
  <2> QED BY <1>0, <2>1, QueueStepOK
<1>6. CASE UNCHANGED vars
  BY <1>6 DEF vars, IndInv, TypeOK, QueueConsistent, OnePerHost, TimerFollows,
              Counted, SlotsCounted, OnlyNullLink, Active
<1>7. CASE Next
  <2>1. ASSUME NEW h \in Peers, Request(h) PROVE IndInv'
    BY <1>1, <2>1, RefuseOK, AdmitOK DEF Request
  <2>2. ASSUME NEW h \in Peers, Metadata(h) PROVE IndInv'
    BY <2>2, MetadataOK
  <2> QED BY <1>2, <1>5, <1>7, <1>3, <1>4, <2>1, <2>2, UploadStepOK,
             TimeStepOK, ProgressTimerOK DEF Next
<1> QED BY <1>6, <1>7

(* The invariant holds in every reachable state. *)
THEOREM Invariance == Spec => []IndInv
<1>1. Init => IndInv
  <2> SUFFICES ASSUME Init PROVE IndInv
    OBVIOUS
  <2>1. Active = {}
    BY DEF Init, Active, FreeUpload
  <2>2. TypeOK
    <3>1. FreeUpload \in UploadRec
      BY DEF FreeUpload, UploadRec
    <3>2. up \in [Uploads -> UploadRec]
      BY <3>1 DEF Init
    <3>3. queue \in Seq(QueueRec)
      BY EmptySeq DEF Init
    <3>4. nuploads \in Int /\ nqueued \in Int /\ sized \in 0 .. MaxSized
      BY UploadManAssumption DEF Init
    <3>5. /\ progress_cb \in BOOLEAN /\ progress_timer \in BOOLEAN
          /\ waiting \subseteq Peers /\ aborted = "no"
      BY Zenon DEF Init
    <3> QED BY <3>2, <3>3, <3>4, <3>5 DEF TypeOK
  <2>3. QueueConsistent /\ OnePerHost /\ TimerFollows
    <3>1. Len(queue) = 0 /\ DOMAIN queue = {}
      BY EmptySeq DEF Init
    <3>2. QueueConsistent
      BY <3>1 DEF Init, QueueConsistent
    <3>3. OnePerHost
      BY <2>1 DEF OnePerHost
    <3>4. TimerFollows
      BY DEF Init, TimerFollows
    <3> QED BY <3>2, <3>3, <3>4
  <2>4. Counted
    BY <2>1, FS_EmptySet, UploadManAssumption
       DEF Init, Counted, SlotsCounted, OnlyNullLink, UploadManAssumption
  <2> QED BY <2>2, <2>3, <2>4 DEF IndInv
<1>2. IndInv /\ [Next]_vars => IndInv'
  BY NextOK, UploadManAssumption
<1> QED BY <1>1, <1>2, PTL DEF Spec

(* Every variable keeps its type, for any hosts, uploads and slots. *)
THEOREM TypeCorrect == Spec => []TypeOK
<1>1. IndInv => TypeOK
  BY DEF IndInv
<1> QED BY <1>1, Invariance, PTL

(* The queue of upman_auth and tidy_queue holds each host once and its     *)
(* counter is its length.                                                  *)
THEOREM QueueSafe == Spec => []QueueConsistent
<1>1. IndInv => QueueConsistent
  BY DEF IndInv
<1> QED BY <1>1, Invariance, PTL

(* man->nuploads is the number of active uploads less the file size       *)
(* requests answered, the slot limit is exceeded by no more than these,    *)
(* and no host ever has two active uploads.                                *)
THEOREM SlotsSafe == Spec => []UploadsLimited
<1>1. IndInv => UploadsLimited
  BY DEF IndInv, Counted, UploadsLimited
<1> QED BY <1>1, Invariance, PTL

(* Without file size requests no assert () of the manager fails: only the  *)
(* null link and the null share end the program.                           *)
THEOREM AssertsSafe == Spec => []OnlyNullLink
<1>1. IndInv => OnlyNullLink
  BY DEF IndInv, Counted
<1> QED BY <1>1, Invariance, PTL
=============================================================================
