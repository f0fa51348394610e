------------------------------- MODULE Shares -------------------------------
(***************************************************************************)
(* The share manager (as_share_man.c, as_share.c) and the programs that    *)
(* fill it: the giFT plugin, which collects shares and hands them over in  *)
(* a timer (gift/asp_share.c), aresdll, which collects them between        *)
(* ar_share_begin and ar_share_end (aresdll/ar_share.c), and the file      *)
(* server, which reloads a file when it gets SIGHUP (filesrv/server.c).    *)
(*                                                                         *)
(* A share is told apart by its file; two files may have the same hash.    *)
(* Share packets are collected until they are larger than GLOB_MAX and go  *)
(* out in one compressed packet.  Pausing the event thread succeeds: see   *)
(* module ArEvents.                                                        *)
(***************************************************************************)
EXTENDS Links, Integers, Sequences, FiniteSets, SequencesExt

CONSTANTS
    Files,       \* files the user shares
    HashOf,      \* their hashes
    SizeOf,      \* the sizes of their share packets
    GLOB_MAX,    \* 800 in the code
    MaxHups      \* SIGHUPs in a run of the file server

NoShare == "none"   \* NULL

ASSUME SharesAssumption ==
    /\ IsFiniteSet(Files) /\ NoShare \notin Files
    /\ DOMAIN HashOf = Files
    /\ SizeOf \in [Files -> Nat]
    /\ GLOB_MAX \in Nat /\ MaxHups \in Nat

VARIABLES
    shares,      \* man->shares, the last one added first
    table,       \* man->table: hash to share
    nshares,     \* man->nshares
    offered,     \* files giFT has given us and not taken back
    pending,     \* sharelist of the plugin, queued_shares of aresdll
    batching,    \* share_timer is set; queueing
    told,        \* what we announced to the supernode of each session
    unsent,      \* shares whose packet could not be made or sent to a session
    server       \* the file server and its signal flag

shareVars == <<shares, table, nshares, offered, pending, batching, told,
               unsent, server>>

SharesInit ==
    /\ shares = <<>>
    /\ table = [h \in {HashOf[f] : f \in Files} |-> NoShare]
    /\ nshares = 0
    /\ offered = {}
    /\ pending = <<>>
    /\ batching = FALSE
    /\ told = [h \in Hosts |-> {}]
    /\ unsent = [h \in Hosts |-> {}]
    /\ server = [flag |-> FALSE, load |-> "none", hups |-> 0, read |-> 0, seen |-> 0,
                 late |-> 0, refused |-> 0]

-----------------------------------------------------------------------------
(* The manager *)

(* Mutant of Add: a duplicate is added as well. *)
AddReplaces(m, f) ==
    [shares |-> <<f>> \o m.shares, table |-> [m.table EXCEPT ![HashOf[f]] = f],
     nshares |-> m.nshares + 1]

(* as_shareman_add: m is [shares, table, nshares]. *)
Add(m, f) ==
    IF m.table[HashOf[f]] # NoShare THEN m
    ELSE [shares |-> <<f>> \o m.shares, table |-> [m.table EXCEPT ![HashOf[f]] = f],
          nshares |-> m.nshares + 1]

Manager == [shares |-> shares, table |-> table, nshares |-> nshares]

SetManager(m) == shares' = m.shares /\ table' = m.table /\ nshares' = m.nshares

(* The shares of a list, one after the other. *)
AddAll(m, list) ==
    LET after[n \in 0 .. Len(list)] ==
            IF n = 0 THEN m ELSE Add(after[n - 1], list[n])
    IN  after[Len(list)]

(* as_shareman_remove of a file that is in the table *)
Removed(m, f) ==
    [shares |-> RemoveFirst(m.shares, f),
     table |-> [m.table EXCEPT ![HashOf[f]] = NoShare], nshares |-> m.nshares - 1]

(* as_shareman_remove_all leaves nshares alone. *)
RemovedAll(m) ==
    [shares |-> <<>>, table |-> [h \in DOMAIN m.table |-> NoShare],
     nshares |-> m.nshares]

(* share_send and conglobulator_assimilate: g.glob is collected and sent once
   it is large enough; an entry whose share was freed is passed over. *)
Assimilate(g, f) ==
    LET glob == g.glob \cup {f}
        size == g.size + SizeOf[f]
    IN  IF f = NoShare THEN g
        ELSE IF size > GLOB_MAX
             THEN [out |-> g.out \cup {glob}, glob |-> {}, size |-> 0]
             ELSE [out |-> g.out, glob |-> glob, size |-> size]

AssimilateAll(list) ==
    LET after[n \in 0 .. Len(list)] ==
            IF n = 0 THEN [out |-> {}, glob |-> {}, size |-> 0]
            ELSE Assimilate(after[n - 1], list[n])
    IN  after[Len(list)]

(* Mutant of Conglobulate: the last packet is not flushed. *)
ConglobulateFull(list) == AssimilateAll(list).out

(* With conglobulator_flush, the packets that submit_share_list sends for a
   list, each as the set of its shares. *)
Conglobulate(list) ==
    LET end == AssimilateAll(list)
    IN  IF end.glob = {} THEN end.out ELSE end.out \cup {end.glob}

(* share_send passes over the shares in nil, for which as_share_packet returns
   NULL. *)
Made(list, nil) == [i \in DOMAIN list |-> IF list[i] \in nil THEN NoShare ELSE list[i]]

(* A way submit_share_list can fall short: shares without a packet, and packets
   of the rest that are not sent. *)
Failures(list) ==
    UNION {{[nil |-> nil, bad |-> bad] : bad \in SUBSET Conglobulate(Made(list, nil))} :
           nil \in SUBSET (ToSet(list) \ {NoShare})}

(* What gets to the supernode, and what does not. *)
Sent(list, fail) == UNION (Conglobulate(Made(list, fail.nil)) \ fail.bad)
NotSent(fail) == fail.nil \cup UNION fail.bad

(* submit_share_list to each of the sessions hs *)
Submit(hs, list, fails) ==
    /\ told' = [h \in Hosts |-> IF h \in hs
                    THEN told[h] \cup Sent(list, fails[h]) ELSE told[h]]
    /\ unsent' = [h \in Hosts |-> IF h \in hs
                    THEN (unsent[h] \ told'[h]) \cup NotSent(fails[h]) ELSE unsent[h]]

(* as_shareman_add_and_submit: duplicates are freed and NULL in the list that
   is sent. *)
AddAndSubmit(list) ==
    LET m == AddAll(Manager, list)
        added(f) == m.table[HashOf[f]] = f /\ table[HashOf[f]] # f
        new == [i \in DOMAIN list |-> IF added(list[i]) THEN list[i] ELSE NoShare]
    IN  /\ SetManager(m)
        /\ \E fails \in [connected -> Failures(new)] : Submit(connected, new, fails)

(* as_shareman_submit when a session is established *)
SharesNewSession(h) ==
    /\ \E fails \in [{h} -> Failures(shares)] : Submit({h}, shares, fails)
    /\ UNCHANGED <<shares, table, nshares, offered, pending, batching, server>>

SharesLostSession(h) ==
    /\ told' = [told EXCEPT ![h] = {}]
    /\ unsent' = [unsent EXCEPT ![h] = {}]
    /\ UNCHANGED <<shares, table, nshares, offered, pending, batching, server>>

-----------------------------------------------------------------------------
(* giFT *)

(* asp_giftcb_share_add: list_insert_sorted orders the cache by path, so any
   place is possible. *)
GiftAdd(f) ==
    /\ client = "gift" /\ f \notin offered
    /\ offered' = offered \cup {f}
    /\ \E i \in 1 .. Len(pending) + 1 : pending' = InsertAt(pending, i, f)
    /\ batching' = TRUE
    /\ UNCHANGED <<shares, table, nshares, told, unsent, server>>

(* submit_shares *)
GiftSubmit ==
    /\ client = "gift" /\ batching
    /\ AddAndSubmit(pending)
    /\ pending' = <<>>
    /\ batching' = FALSE
    /\ UNCHANGED <<offered, server>>

(* asp_giftcb_share_remove.  giFT does not remove shares before the timer ran,
   which the code asserts; of two shares with one hash only the one the
   manager holds is removed from it. *)
GiftRemove(f) ==
    /\ client = "gift" /\ f \in offered /\ ~batching
    /\ offered' = offered \ {f}
    /\ IF table[HashOf[f]] = f THEN SetManager(Removed(Manager, f))
                               ELSE UNCHANGED <<shares, table, nshares>>
    /\ UNCHANGED <<pending, batching, told, unsent, server>>

-----------------------------------------------------------------------------
(* aresdll *)

ShareBegin ==
    /\ client = "dll" /\ ~batching
    /\ batching' = TRUE
    /\ UNCHANGED <<shares, table, nshares, offered, pending, told, unsent, server>>

(* ar_share_add; a file is not added while it waits to be handed over. *)
ShareAdd(f) ==
    /\ client = "dll" /\ f \notin Range(pending)
    /\ IF batching
       THEN /\ pending' = <<f>> \o pending
            /\ UNCHANGED <<shares, table, nshares, told, unsent>>
       ELSE AddAndSubmit(<<f>>) /\ UNCHANGED pending
    /\ UNCHANGED <<offered, batching, server>>

ShareEnd ==
    /\ client = "dll" /\ batching
    /\ AddAndSubmit(pending)
    /\ pending' = <<>>
    /\ batching' = FALSE
    /\ UNCHANGED <<offered, server>>

-----------------------------------------------------------------------------
(* The file server.  It has no sessions.  Each SIGHUP follows a change of the
   shares file, so the file's version is the number of SIGHUPs. *)

(* sighup_handler interrupts the event loop anywhere. *)
SigHup ==
    /\ client = "server" /\ server.hups < MaxHups
    /\ server' = [server EXCEPT !.flag = TRUE, !.hups = @ + 1,
                                !.late = IF server.load = "none" THEN @ ELSE server.hups + 1]
    /\ UNCHANGED <<shares, table, nshares, offered, pending, batching, told, unsent>>

(* signal_timer_func finds the flag: load_shares opens the file and forgets
   the old shares. *)
LoadBegin ==
    /\ client = "server" /\ server.flag /\ server.load = "none"
    /\ server' = [server EXCEPT !.load = "reading", !.read = server.hups]
    /\ SetManager(RemovedAll(Manager))
    /\ UNCHANGED <<offered, pending, batching, told, unsent>>

(* fopen fails: the old shares stay. *)
LoadRefused ==
    /\ client = "server" /\ server.flag /\ server.load = "none"
    /\ server' = [server EXCEPT !.load = "refused", !.refused = server.hups]
    /\ UNCHANGED <<shares, table, nshares, offered, pending, batching, told, unsent>>

(* Mutant of LoadEnd: the file was not read again. *)
LoadEndNothing ==
    /\ client = "server" /\ server.load # "none"
    /\ \/ /\ server.load = "reading"
          /\ \E fs \in SUBSET Files : SetManager(AddAll(Manager, SetToSeq(fs)))
       \/ server.load = "refused" /\ UNCHANGED <<shares, table, nshares>>
    /\ server' = [server EXCEPT !.load = "none", !.flag = FALSE]
    /\ UNCHANGED <<offered, pending, batching, told, unsent>>

(* The lines of the file are added, without telling anybody.  The timer clears
   the flag, whether the file could be opened or not. *)
LoadEnd ==
    /\ client = "server"
    /\ \/ /\ server.load = "reading"
          /\ \E fs \in SUBSET Files : SetManager(AddAll(Manager, SetToSeq(fs)))
          /\ server' = [server EXCEPT !.load = "none", !.flag = FALSE, !.seen = server.read]
       \/ /\ server.load = "refused"
          /\ server' = [server EXCEPT !.load = "none", !.flag = FALSE]
          /\ UNCHANGED <<shares, table, nshares>>
    /\ UNCHANGED <<offered, pending, batching, told, unsent>>

SharesStep ==
    \/ \E f \in Files : GiftAdd(f) \/ GiftRemove(f) \/ ShareAdd(f)
    \/ GiftSubmit
    \/ ShareBegin \/ ShareEnd
    \/ SigHup \/ LoadBegin \/ LoadRefused \/ LoadEnd

-----------------------------------------------------------------------------
(* Properties *)

SharesTypeOK ==
    /\ shares \in Seq(Files)
    /\ table \in [{HashOf[f] : f \in Files} -> Files \cup {NoShare}]
    /\ nshares \in Nat
    /\ offered \subseteq Files
    /\ pending \in Seq(Files)
    /\ batching \in BOOLEAN
    /\ told \in [Hosts -> SUBSET Files]
    /\ unsent \in [Hosts -> SUBSET Files]

(* The list and the table of the manager hold the same shares, each hash
   once, and nshares counts them unless the file server dropped them all.
   With giFT each of them belongs to a share giFT still has, and a share that
   has its hash for itself is in the manager or waits for the timer. *)
SharesConsistent ==
    /\ SharesTypeOK
    /\ Range(shares) = Range(table) \ {NoShare}
    /\ IsInjective(shares)
    /\ client # "server" => nshares = Len(shares)
    /\ client = "gift" =>
          /\ Range(shares) \subseteq offered
          /\ \A f \in offered : (\A g \in Files \ {f} : HashOf[g] # HashOf[f])
                                => f \in Range(shares) \cup Range(pending)

(* The manager's tables agree, and every supernode we are connected to was
   told of every share of the manager, whether it was added before or after the
   session came up, unless its packet, or the one it was to travel in, could not
   be made or sent. *)
SharesAnnounced ==
    /\ SharesConsistent
    /\ \A h \in connected : Range(shares) \subseteq told[h] \cup unsent[h]

(* A version of the shares file that the server has not read is still to be
   read, with two exceptions: the file could not be opened for the newest
   SIGHUP, or that SIGHUP came while the timer was in load_shares; the flag is
   cleared after it.  The next SIGHUP makes up for either. *)
HupsServed ==
    server.seen < server.hups => server.flag \/ server.hups \in {server.late, server.refused}

(* "Periodic timer which reloads shares file if SIGHUP happened"
   (filesrv/server.c:208): while the file can be opened, a version that was not
   read is still to be read. *)
HupsReread ==
    server.seen < server.hups => server.flag \/ server.hups = server.refused
=============================================================================
