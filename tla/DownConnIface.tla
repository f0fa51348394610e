---------------------------- MODULE DownConnIface ----------------------------
(***************************************************************************)
(* What an ASDownConn promises its owner (as_download_conn.h): the states  *)
(* a download connection goes through, the chunk it was asked for, and the *)
(* bytes of it that were handed to data_cb.  Sockets, timers, buffers and  *)
(* pushes are hidden.  DownConn implements this specification; Download is *)
(* built on it.                                                            *)
(***************************************************************************)
EXTENDS Naturals

CONSTANTS
    Conns,          \* the ASDownConn objects, one per source
    FileSize,       \* size of the file being downloaded, in bytes
    SourceMaxFail   \* AS_DOWNLOAD_SOURCE_MAX_FAIL: failures before removal

ASSUME IfaceAssumption ==
    /\ FileSize \in Nat \ {0}
    /\ SourceMaxFail \in Nat \ {0}

VARIABLES
    alive,          \* connections that are allocated
    view            \* Conns -> the fields an owner reads

ifaceVars == <<alive, view>>

(* ASDownConnState *)
BusyStates == {"CONNECTING", "TRANSFERRING"}
IdleStates == {"UNUSED", "FAILED", "COMPLETE", "QUEUED"}

View == [state       : BusyStates \cup IdleStates,
         chunk_start : 0 .. FileSize,
         chunk_size  : 0 .. FileSize,
         curr        : 0 .. FileSize,      \* curr_downloaded
         fail        : 0 .. SourceMaxFail] \* fail_count

NewView == [state |-> "UNUSED", chunk_start |-> 0, chunk_size |-> 0,
            curr |-> 0, fail |-> 0]

(* The chunk is given back and the connection goes to an idle state. *)
Settle(v, st) == [v EXCEPT !.state = st, !.chunk_start = 0, !.chunk_size = 0]

(* A request for n bytes from s on is on its way. *)
Started(v, s, n) == [v EXCEPT !.state = "CONNECTING", !.chunk_start = s,
                              !.chunk_size = n, !.curr = 0]

(* as_downconn_cancel *)
Cancelled(v) == [Settle(v, "UNUSED") EXCEPT !.curr = 0]

(* as_downconn_start that fails: the same, counted as a failure. *)
NotStarted(v) == [Cancelled(v) EXCEPT !.fail = v.fail + 1]

(* A request that got no usable answer counts as a failure of the source, *)
(* a transfer that broke off does not.                                    *)
Failed(v) == [Settle(v, "FAILED") EXCEPT
                 !.fail = IF v.state = "CONNECTING" THEN v.fail + 1 ELSE v.fail]

-----------------------------------------------------------------------------
Create(c) ==
    /\ c \notin alive
    /\ alive' = alive \cup {c}
    /\ view' = [view EXCEPT ![c] = NewView]

Free(c) ==
    /\ c \in alive
    /\ alive' = alive \ {c}
    /\ view' = [view EXCEPT ![c] = NewView]

(* as_downconn_start succeeded: the request is on its way. *)
Start(c, s, n) ==
    /\ c \in alive /\ view[c].state \in IdleStates
    /\ view[c].fail < SourceMaxFail
    /\ view' = [view EXCEPT ![c] = Started(@, s, n)]
    /\ UNCHANGED alive

(* as_downconn_start returned FALSE. *)
StartFails(c) ==
    /\ c \in alive /\ view[c].state \in IdleStates
    /\ view[c].fail < SourceMaxFail
    /\ view' = [view EXCEPT ![c] = NotStarted(@)]
    /\ UNCHANGED alive

(* The source accepted the request; n bytes of body came with the header. *)
Transfer(c, n) ==
    /\ c \in alive /\ view[c].state = "CONNECTING"
    /\ n <= view[c].chunk_size
    /\ view' = [view EXCEPT ![c] = [@ EXCEPT !.state = "TRANSFERRING",
                                        !.curr = n, !.fail = 0]]
    /\ UNCHANGED alive

(* The source put us in its upload queue. *)
Queued(c) ==
    /\ c \in alive /\ view[c].state = "CONNECTING"
    /\ view' = [view EXCEPT ![c] = [Settle(@, "QUEUED") EXCEPT !.fail = 0]]
    /\ UNCHANGED alive

(* n more bytes of a chunk that is not finished by them. *)
Data(c, n) ==
    /\ c \in alive /\ view[c].state = "TRANSFERRING"
    /\ n > 0 /\ view[c].curr + n < view[c].chunk_size
    /\ view' = [view EXCEPT ![c].curr = @ + n]
    /\ UNCHANGED alive

(* The last n bytes of the chunk. *)
Complete(c, n) ==
    /\ c \in alive /\ view[c].state = "TRANSFERRING"
    /\ n > 0 /\ view[c].curr + n = view[c].chunk_size
    /\ view' = [view EXCEPT ![c] = [Settle(@, "COMPLETE") EXCEPT !.curr = 0]]
    /\ UNCHANGED alive

(* The request or the transfer ended without the chunk. *)
Fail(c) ==
    /\ c \in alive /\ view[c].state \in BusyStates
    /\ view' = [view EXCEPT ![c] = Failed(@)]
    /\ UNCHANGED alive

(* as_downconn_cancel, by the owner, in any state. *)
Cancel(c) ==
    /\ c \in alive
    /\ view' = [view EXCEPT ![c] = Cancelled(@)]
    /\ UNCHANGED alive

(* The owner cancels from inside the callback for an accepted request,    *)
(* after the connection was told that the source works.                   *)
CancelAccepted(c) ==
    /\ c \in alive /\ view[c].state = "CONNECTING"
    /\ view' = [view EXCEPT ![c] = [Cancelled(@) EXCEPT !.fail = 0]]
    /\ UNCHANGED alive

IfaceInit ==
    /\ alive = {}
    /\ view = [c \in Conns |-> NewView]

IfaceNext ==
    \E c \in Conns :
        \/ Create(c) \/ Free(c) \/ Cancel(c) \/ CancelAccepted(c)
        \/ \E s \in 0 .. FileSize - 1, n \in 1 .. FileSize :
               s + n <= FileSize /\ Start(c, s, n)
        \/ StartFails(c)
        \/ \E n \in 0 .. FileSize : Transfer(c, n) \/ Data(c, n) \/ Complete(c, n)
        \/ Queued(c) \/ Fail(c)

IfaceSpec == IfaceInit /\ [][IfaceNext]_ifaceVars
=============================================================================
