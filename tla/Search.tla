------------------------------- MODULE Search -------------------------------
(***************************************************************************)
(* The search manager (as_search_man.c, as_search.c, as_search_result.c)   *)
(* and its three kinds of owner: the giFT plugin (gift/asp_search.c), a    *)
(* user of aresdll (aresdll/ar_search.c) and a download that looks for     *)
(* sources (as_download.c).                                                *)
(*                                                                         *)
(* A search has a 16 bit id taken from a counter and is entered in a table *)
(* by that id, a hash search also in a table by its hash.  It is sent to   *)
(* every supernode we are connected to and to every one we connect to      *)
(* later.  Supernodes answer a query with its id and a hash search with    *)
(* its hash.  Both tables replace an older entry of the same key, as       *)
(* as_hashtable_insert does.                                               *)
(*                                                                         *)
(* The set of sessions, connected, belongs to the session manager: see     *)
(* module Announce.  Memory for a search never runs out.                   *)
(***************************************************************************)
EXTENDS Links, Integers, FiniteSets

CONSTANTS
    Slots,      \* objects of type ASSearch; a freed one may be used again
    Hashes,     \* file hashes
    IdSpace,    \* 2^16 in the code
    None        \* NULL

ASSUME IdAssumption ==
    /\ IdSpace \in Nat /\ IdSpace > 1
    /\ None \notin Slots      \* NULL is no object

VARIABLES
    search,      \* the searches, by object
    byId,        \* man->searches
    byHash,      \* man->hash_searches
    nextId,      \* man->next_search_id
    asked,       \* what the supernode of each session knows of our searches
    missed,      \* <<search, host>>: the query could not be sent, or was sent
                 \* in an earlier session with the same supernode
    clash,       \* in which ways an id was given out too early
    foreign,     \* searches that were given a result of another search
    lost,        \* searches that did not get a result sent for them
    failed       \* an assert failed

searchVars == <<search, byId, byHash, nextId, asked, missed, clash, foreign,
                lost, failed>>

INVALID_SEARCH_ID == 0

Ids == 0 .. IdSpace - 1

Owners == {"gift", "dll", "download"}

NoSearch == [alive |-> FALSE, kind |-> "query", id |-> 0, hash |-> None,
             owner |-> "gift", finished |-> FALSE, timer |-> FALSE, sent |-> {}]

SearchRec ==
    [alive : BOOLEAN, kind : {"query", "locate"}, id : Ids,
     hash : Hashes \cup {None}, owner : Owners, finished : BOOLEAN,
     timer : BOOLEAN, sent : SUBSET Hosts]

(* What a supernode keeps of a search; slot is None once we freed it.  An
   answer to a hash search of a freed search is like one to a later search for
   the hash, so those are not kept. *)
Query == [kind : {"query", "locate"}, id : Ids, hash : Hashes \cup {None},
          slot : Slots \cup {None}]

Alive == {s \in Slots : search[s].alive}

SearchInit ==
    /\ search = [s \in Slots |-> NoSearch]
    /\ byId = [i \in Ids |-> None]
    /\ byHash = [h \in Hashes |-> None]
    /\ nextId = INVALID_SEARCH_ID + 1
    /\ asked = [h \in Hosts |-> {}]
    /\ missed = {}
    /\ clash = {}
    /\ foreign = {}
    /\ lost = {}
    /\ failed = FALSE

-----------------------------------------------------------------------------
(* Sending *)

(* search_query_packet and search_locate_packet: only a query carries its id. *)
QueryOf(s, rec) ==
    [kind |-> rec.kind, hash |-> rec.hash, slot |-> s,
     id |-> IF rec.kind = "query" THEN rec.id ELSE INVALID_SEARCH_ID]

(* Mutant of SentTo: the timeout is not started. *)
SentToUntimed(rec, hosts) ==
    [rec EXCEPT !.sent = @ \cup hosts]

(* as_search_send, for the hosts it succeeds for: they are remembered by
   address, and the first one starts the timeout. *)
SentTo(rec, hosts) ==
    [rec EXCEPT !.sent = @ \cup hosts, !.timer = @ \/ hosts # {}]

(* as_search_send refuses a finished search, and new_session_itr and
   send_search_itr a supernode that has had it.  AS_SEARCH_SEND_COUNT is 0. *)
ToSend(h) == {s \in Alive : byId[search[s].id] = s /\ ~search[s].finished
                            /\ h \notin search[s].sent}

(* as_searchman_new_session: the sends to the searches in bad fail.  A search
   that went to this supernode in an earlier session is not sent again. *)
SearchNewSession(h) ==
    \E bad \in SUBSET ToSend(h) :
        LET good == ToSend(h) \ bad IN
        /\ search' = [s \in Slots |-> IF s \in good THEN SentTo(search[s], {h})
                                                    ELSE search[s]]
        /\ asked' = [asked EXCEPT ![h] = {QueryOf(s, search[s]) : s \in good}]
        /\ missed' = missed \cup {<<s, h>> : s \in bad}
                            \cup {<<s, h>> : s \in {t \in Alive : h \in search[t].sent}}
        /\ UNCHANGED <<byId, byHash, nextId, clash, foreign, lost, failed>>

(* The supernode forgets what it was asked in a session that ended. *)
SearchLostSession(h) ==
    /\ asked' = [asked EXCEPT ![h] = {}]
    /\ UNCHANGED <<search, byId, byHash, nextId, missed, clash, foreign, lost, failed>>

-----------------------------------------------------------------------------
(* Starting a search *)

Clashes(id, kind) ==
    (IF byId[id] # None THEN {"taken"} ELSE {})
    \cup (IF \E h \in Hosts : \E q \in asked[h] : q.kind = "query" /\ q.id = id
          THEN {"stale"} ELSE {})
    \cup (IF id = INVALID_SEARCH_ID /\ kind = "query" THEN {"zero"} ELSE {})

(* as_searchman_search and as_searchman_locate up to and including the sends;
   those to the hosts in bad fail. *)
Started(s, new, bad) ==
    LET good == connected \ bad
        rec == SentTo(new, good)
    IN  /\ search' = [search EXCEPT ![s] = rec]
        /\ byId' = [byId EXCEPT ![nextId] = s]
        /\ nextId' = (nextId + 1) % IdSpace
        /\ asked' = [h \in Hosts |-> IF h \in good
                                     THEN asked[h] \cup {QueryOf(s, rec)}
                                     ELSE asked[h]]
        /\ missed' = missed \cup {<<s, h>> : h \in bad}
        /\ clash' = clash \cup Clashes(nextId, new.kind)
        /\ UNCHANGED <<foreign, lost, failed>>

(* as_searchman_search *)
Searched(s, owner) ==
    /\ ~failed /\ s \notin Alive
    /\ \E bad \in SUBSET connected :
          Started(s, [NoSearch EXCEPT !.alive = TRUE, !.id = nextId,
                                      !.owner = owner], bad)
    /\ UNCHANGED byHash

(* asp_giftcb_search *)
GiftSearch(s) == client = "gift" /\ Searched(s, "gift")

(* ar_search_start *)
DllSearch(s) == client = "dll" /\ Searched(s, "dll")

(* A hash that is being searched for is refused. *)
Unlocated(hash) == byHash[hash] = None

(* as_searchman_locate *)
Located(s, owner, hash) ==
    /\ ~failed /\ s \notin Alive /\ Unlocated(hash)
    /\ \E bad \in SUBSET connected :
          Started(s, [NoSearch EXCEPT !.alive = TRUE, !.id = nextId, !.hash = hash,
                                      !.kind = "locate", !.owner = owner], bad)
    /\ byHash' = [byHash EXCEPT ![hash] = s]

(* asp_giftcb_locate *)
GiftLocate(s, hash) == client = "gift" /\ Located(s, "gift", hash)

(* as_download_find_sources; the file server downloads nothing. *)
FindSources(s, hash) == client # "server" /\ Located(s, "download", hash)

-----------------------------------------------------------------------------
(* Ending a search *)

(* as_search_free *)
Freed(s) ==
    /\ search' = [search EXCEPT ![s] = NoSearch]
    /\ asked' = [h \in Hosts |->
                   {[q EXCEPT !.slot = IF @ = s THEN None ELSE @] :
                      q \in {r \in asked[h] : ~(r.kind = "locate" /\ r.slot = s)}}]
    /\ missed' = {p \in missed : p[1] # s}
    /\ foreign' = foreign \ {s}
    /\ lost' = lost \ {s}
    /\ UNCHANGED <<nextId, clash>>

(* Mutant of RemoveSearch: the hash table keeps its entry. *)
RemoveSearchKeepsHash(s) ==
    LET rec == search[s]
    IN  IF byId[rec.id] # s
        THEN /\ failed' = TRUE
             /\ UNCHANGED <<search, byId, byHash, nextId, asked, missed, clash,
                            foreign, lost>>
        ELSE /\ byId' = [byId EXCEPT ![rec.id] = None]
             /\ Freed(s)
             /\ UNCHANGED <<byHash, failed>>

(* as_searchman_remove: both tables must hold this very search. *)
RemoveSearch(s) ==
    LET rec == search[s]
        wrong == \/ byId[rec.id] # s
                 \/ rec.kind = "locate" /\ byHash[rec.hash] # s
    IN  IF wrong
        THEN /\ failed' = TRUE
             /\ UNCHANGED <<search, byId, byHash, nextId, asked, missed, clash,
                            foreign, lost>>
        ELSE /\ byId' = [byId EXCEPT ![rec.id] = None]
             /\ byHash' = IF rec.kind = "locate"
                          THEN [byHash EXCEPT ![rec.hash] = None] ELSE byHash
             /\ Freed(s)
             /\ UNCHANGED failed

Removes(s, owner) == ~failed /\ s \in Alive /\ search[s].owner = owner /\ RemoveSearch(s)

(* asp_giftcb_search_cancel finds the search by giFT's event in man->searches
   and asserts that it can be removed. *)
GiftCancel(s) == Removes(s, "gift")

(* ar_search_remove *)
DllRemove(s) == Removes(s, "dll")

(* A download that is cancelled, complete or freed removes its search. *)
DownloadEnds(s) == Removes(s, "download")

(* The result callbacks, called without a result.  The plugin's and a
   download's remove the search; aresdll's only tells the application. *)
GiftFinished(s) == search[s].owner = "gift" /\ RemoveSearch(s)

DownloadFinished(s) == search[s].owner = "download" /\ RemoveSearch(s)

DllFinished(s) ==
    /\ search[s].owner = "dll"
    /\ search' = [search EXCEPT ![s].finished = TRUE, ![s].timer = FALSE]
    /\ UNCHANGED <<byId, byHash, nextId, asked, missed, clash, foreign, lost, failed>>

(* as_search_add_result without a result *)
Finish(s) ==
    /\ ~failed /\ s \in Alive /\ ~search[s].finished
    /\ GiftFinished(s) \/ DownloadFinished(s) \/ DllFinished(s)

FinishTimer(s) == search[s].timer /\ Finish(s)

(* as_searchman_stop is there for the users of the library. *)
Stop(s) == search[s].owner = "dll" /\ Finish(s)

-----------------------------------------------------------------------------
(* Results *)

(* as_searchman_result's lookup: a result without an id is found by hash. *)
Target(q, hash) ==
    IF q.kind = "locate" \/ q.id = INVALID_SEARCH_ID THEN byHash[hash] ELSE byId[q.id]

(* A supernode answers what it was asked in this session with a file.  The
   results a search has collected decide nothing in the manager and are left
   out; what counts is which search as_search_add_result is called for, and
   that it is not finished. *)
Result(h, q, hash) ==
    /\ ~failed /\ h \in connected /\ q \in asked[h]
    /\ q.kind = "locate" => hash = q.hash
    /\ LET t == Target(q, hash)
           takes == t # None /\ ~search[t].finished
           meant == q.slot # None /\ ~search[q.slot].finished
       IN  /\ foreign' = IF takes /\ t # q.slot
                            /\ ~(search[t].kind = "locate" /\ search[t].hash = hash)
                         THEN foreign \cup {t} ELSE foreign
           /\ lost' = IF meant /\ t # q.slot THEN lost \cup {q.slot} ELSE lost
    /\ UNCHANGED <<search, byId, byHash, nextId, asked, missed, clash, failed>>

SearchStep ==
    \/ \E s \in Slots : \/ GiftSearch(s) \/ DllSearch(s)
                        \/ \E f \in Hashes : GiftLocate(s, f) \/ FindSources(s, f)
                        \/ GiftCancel(s) \/ DllRemove(s) \/ DownloadEnds(s)
                        \/ FinishTimer(s)
                        \/ Stop(s)
    \/ \E h \in Hosts, f \in Hashes : \E q \in asked[h] : Result(h, q, f)

-----------------------------------------------------------------------------
(* Properties *)

SearchTypeOK ==
    /\ search \in [Slots -> SearchRec]
    /\ byId \in [Ids -> Slots \cup {None}]
    /\ byHash \in [Hashes -> Slots \cup {None}]
    /\ nextId \in Ids
    /\ asked \in [Hosts -> SUBSET Query]
    /\ missed \subseteq Slots \X Hosts
    /\ clash \subseteq {"taken", "stale", "zero"}
    /\ foreign \subseteq Slots /\ lost \subseteq Slots
    /\ failed \in BOOLEAN

(* Neither table of the search manager ever leads to a search that was freed,
   or to one that has another id or hash, and every hash search that is alive
   is found by its hash: results and removals go through these tables. *)
TablesLive ==
    /\ SearchTypeOK
    /\ \A i \in Ids : byId[i] # None =>
          byId[i] \in Alive /\ search[byId[i]].id = i
    /\ \A f \in Hashes : byHash[f] # None =>
          LET s == byHash[f] IN
          s \in Alive /\ search[s].kind = "locate" /\ search[s].hash = f
    /\ \A s \in Alive : search[s].kind = "locate" => byHash[search[s].hash] = s

(* As long as the ids of live searches are not given out again the asserts of
   as_searchman_remove hold; as long as no id a supernode still answers for is
   given out, a search gets only results that answer it; and only a search
   with the id 0, or one whose id was taken, misses a result that a supernode
   sends it. *)
OnlyIdReuseHurts ==
    /\ failed => "taken" \in clash
    /\ foreign # {} => clash \cap {"taken", "stale"} # {}
    /\ lost # {} => clash \cap {"taken", "zero"} # {}

(* Every unfinished search the manager knows is known to every supernode we
   are connected to, whichever came first, the search or the session, unless
   the packet could not be sent or the same supernode had it in an earlier
   session. *)
SentToAll ==
    \A s \in Alive, h \in connected :
        byId[search[s].id] = s /\ ~search[s].finished =>
            \/ \E q \in asked[h] : q.slot = s
            \/ <<s, h>> \in missed

(* A search that reached a supernode ends: it times out, is stopped or is
   removed. *)
SearchEnds ==
    \A s \in Slots : (s \in Alive /\ search[s].sent # {})
                        ~> (s \notin Alive \/ search[s].finished \/ failed)
=============================================================================
