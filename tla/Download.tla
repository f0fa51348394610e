------------------------------- MODULE Download -------------------------------
(***************************************************************************)
(* One download (as_download.c), its chunks (as_download_chunk.c) and the  *)
(* state it keeps in the incomplete file (as_download_state.c).            *)
(*                                                                         *)
(* The connections are those of DownConnIface: each handler below takes    *)
(* the interface step that raises the callback it models.  The handlers of *)
(* the event loop do not interleave, but download_maintain, which most of  *)
(* them end with, makes choices in a loop.  It is written as steps of its  *)
(* own; "run" holds its control state, and no other event is handled until *)
(* it is idle again.                                                       *)
(*                                                                         *)
(* Sizes and offsets are counted in blocks of Unit bytes.  The order of    *)
(* the connection list (by bandwidth) is not kept: wherever the code takes *)
(* the next unused connection, any unused one may be next.                 *)
(***************************************************************************)
EXTENDS DownConnIface, Sequences, FiniteSets, FiniteSetsExt, SequencesExt

CONSTANTS
    NoConn,             \* chunk->udata == NULL
    Firewalled,         \* sources that are not written to the state data
    MinChunk,           \* AS_DOWNLOAD_MIN_CHUNK_SIZE, in blocks
    MaxSources,         \* AS_DOWNLOAD_MAX_ACTIVE_SOURCES
    Unit                \* bytes per block

ASSUME DownloadAssumption ==
    /\ NoConn \notin Conns
    /\ Firewalled \subseteq Conns
    /\ MinChunk \in Nat \ {0}
    /\ MaxSources \in Nat \ {0}
    /\ Unit \in Nat \ {0}

VARIABLES
    dl_state,   \* dl->state; LOST is a restart that returned FALSE
    received,   \* dl->received
    chunks,     \* dl->chunks
    run,        \* control state of the running handler
    file,       \* the incomplete file and the stdio buffer before it
    aborted     \* the assert () that ended the program, or "no"

vars == <<alive, view, dl_state, received, chunks, run, file, aborted>>

Blocks == 0 .. FileSize - 1
LiveStates == {"ACTIVE", "PAUSED", "QUEUED"}
EndStates == {"COMPLETE", "FAILED", "CANCELLED"}

-----------------------------------------------------------------------------
(* Chunks.                                                                 *)

Chunk(s, n, r) == [start |-> s, size |-> n, received |-> r, conn |-> NoConn]
IsComplete(ch) == ch.received = ch.size
Remaining(ch) == ch.size - ch.received
EndOf(ch) == ch.start + ch.size

(* The blocks of a chunk that were received. *)
Prefix(ch) == ch.start .. ch.start + ch.received - 1

(* The chunk connection c works on (conn->udata2), by its index. *)
ChunksOf(c) == {i \in DOMAIN chunks : chunks[i].conn = c}
Assigned == {c \in Conns : ChunksOf(c) # {}}
ChunkOf(c) == CHOOSE i \in ChunksOf(c) : TRUE

(* Mutant of Unassign: the chunk keeps its connection. *)
UnassignNothing(c) == chunks

(* Chunk lists with c, or everyone, taken off. *)
Unassign(c) == [i \in DOMAIN chunks |->
    IF chunks[i].conn = c THEN [chunks[i] EXCEPT !.conn = NoConn] ELSE chunks[i]]
UnassignAll == [i \in DOMAIN chunks |-> [chunks[i] EXCEPT !.conn = NoConn]]

(* The list with the chunks new in the place of chunk i. *)
Splice(chs, i, new) ==
    SubSeq(chs, 1, i - 1) \o new \o SubSeq(chs, i + 1, Len(chs))

(* verify_chunks *)
VerifyChunks(chs) ==
    /\ chs # <<>>
    /\ \A i \in DOMAIN chs :
          /\ chs[i].received <= chs[i].size
          /\ ~(IsComplete(chs[i]) /\ chs[i].conn # NoConn)
          /\ EndOf(chs[i]) = IF i = Len(chs) THEN FileSize ELSE chs[i + 1].start

Mergeable(a, b) ==
    /\ a.conn = NoConn /\ b.conn = NoConn
    /\ \/ IsComplete(a) /\ IsComplete(b)
       \/ a.received = 0 /\ b.received = 0

(* The body of the loop of consolidate_chunks: a half complete chunk is   *)
(* split (its complete part is not merged with the chunk before it), any  *)
(* other one is merged with the last one if they are alike.               *)
ConsolidateOne(done, ch) ==
    IF ch.conn = NoConn /\ ch.received > 0 /\ ~IsComplete(ch)
    THEN Append(Append(done, Chunk(ch.start, ch.received, ch.received)),
                Chunk(ch.start + ch.received, Remaining(ch), 0))
    ELSE IF done # <<>> /\ Mergeable(Last(done), ch)
    THEN Append(Front(done),
                [Last(done) EXCEPT !.size = @ + ch.size,
                                   !.received = @ + ch.received])
    ELSE Append(done, ch)

(* Mutant of Consolidate: chunks are left as they are. *)
ConsolidateNothing(chs) == chs

(* consolidate_chunks *)
Consolidate(chs) ==
    LET done[n \in 0 .. Len(chs)] ==
            IF n = 0 THEN <<>> ELSE ConsolidateOne(done[n - 1], chs[n])
    IN  done[Len(chs)]

-----------------------------------------------------------------------------
(* State data.                                                             *)

(* write_tlvs: the hash, and the sources that can be asked directly. *)
SavedSources(sources) == sources \ Firewalled

(* write_chunks: the ranges, first and last byte, of incomplete chunks. *)
WriteRanges(chs) ==
    LET put[n \in 0 .. Len(chs)] ==
            IF n = 0 THEN <<>>
            ELSE IF IsComplete(chs[n]) THEN put[n - 1]
            ELSE Append(put[n - 1],
                        <<chs[n].start * Unit, EndOf(chs[n]) * Unit - 1>>)
    IN  put[Len(chs)]

(* as_downstate_save *)
StateData(chs, paused, sources) ==
    [ok |-> TRUE, ranges |-> WriteRanges(chs), paused |-> paused,
     sources |-> SavedSources(sources)]

NoState == [ok |-> FALSE, ranges |-> <<>>, paused |-> FALSE, sources |-> {}]

(* What is left of a chunk before and behind a range cut out of it. *)
Rest(start, n) == IF n > 0 THEN <<Chunk(start, n, n)>> ELSE <<>>

(* read_chunks for one range: cut it out of the complete chunk it is in.  *)
(* A range <<0, 0>> ends the list.                                        *)
CutRange(acc, r) ==
    LET s == r[1] \div Unit
        n == (r[2] + 1 - r[1]) \div Unit
        in == {i \in DOMAIN acc.chunks :
                  s >= acc.chunks[i].start /\ s < EndOf(acc.chunks[i])}
        i == Min(in)
        p == acc.chunks[i]
    IN  IF acc.done THEN acc
        ELSE IF r = <<0, 0>> THEN [acc EXCEPT !.done = TRUE]
        ELSE IF r[2] <= r[1] \/ r[2] >= FileSize * Unit
                \/ in = {} \/ ~IsComplete(p) \/ s + n > EndOf(p)
        THEN [acc EXCEPT !.done = TRUE, !.ok = FALSE]
        ELSE [acc EXCEPT !.chunks =
                 Splice(@, i, Rest(p.start, s - p.start) \o <<Chunk(s, n, 0)>>
                              \o Rest(s + n, EndOf(p) - s - n))]

(* read_state and read_chunks: whether the state data can be loaded, and  *)
(* the chunks it stands for.                                              *)
Load(s) ==
    LET cut[n \in 0 .. Len(s.ranges)] ==
            IF n = 0
            THEN [chunks |-> <<Chunk(0, FileSize, FileSize), Chunk(FileSize, 0, 0)>>,
                  done |-> FALSE, ok |-> s.ok]
            ELSE CutRange(cut[n - 1], s.ranges[n])
    IN  cut[Len(s.ranges)]

(* read_tlvs: the sources that are there again when the download restarts. *)
RestoredSources(s) == s.sources \ Firewalled

(* The blocks a chunk list claims to have in full chunks. *)
FullBlocks(chs) ==
    UNION {Prefix(chs[i]) : i \in {j \in DOMAIN chs : IsComplete(chs[j])}}

(***************************************************************************)
(* The incomplete file: disk and saved are what a crash leaves; pdata and  *)
(* psaved are in the stdio buffer until the next fseek or fclose.          *)
(***************************************************************************)
NoFile == [exists |-> FALSE, disk |-> {}, saved |-> NoState,
           pdata |-> {}, psaved |-> NoState]

Flush(f) == [f EXCEPT !.disk = @ \cup f.pdata, !.pdata = {},
                      !.saved = IF f.psaved.ok THEN f.psaved ELSE @,
                      !.psaved = NoState]

(* fseek and fwrite of data. *)
WriteData(f, blocks) == [Flush(f) EXCEPT !.pdata = blocks]

(* Mutant of SaveState: the state data reaches the disk before the data. *)
SaveStateFirst(f, s) == [f EXCEPT !.saved = s]

(* as_downstate_save: write_state seeks behind the data, then writes. *)
SaveState(f, s) == [Flush(f) EXCEPT !.psaved = s]

(* Saving may fail, in fseek or in fwrite. *)
FailedSave(f) == {f, Flush(f)}
Saves(f, s) == FailedSave(f) \cup {SaveState(f, s)}

-----------------------------------------------------------------------------
(* Control.                                                                *)

Quiet == [pc |-> "idle", cands |-> {}, slow |-> {}, max_new |-> 0,
          timer |-> FALSE]
Calling(pc, cs) == [Quiet EXCEPT !.pc = pc, !.cands = cs]

At(pc) == run.pc = pc /\ aborted = "no"

(* assert (p) *)
Check(p, where) == IF p THEN aborted ELSE where

InState(st) == {c \in alive : view[c].state = st}

(* as_downconn_cancel for every connection of the list. *)
StoppedView == [c \in Conns |-> IF c \in alive THEN Cancelled(view[c])
                                              ELSE view[c]]

SumReceived(chs) ==
    LET sum[n \in 0 .. Len(chs)] ==
            IF n = 0 THEN 0 ELSE sum[n - 1] + chs[n].received
    IN  sum[Len(chs)]

DownloadInit ==
    /\ IfaceInit
    /\ dl_state = "NEW" /\ received = 0 /\ chunks = <<>>
    /\ run = Quiet /\ file = NoFile /\ aborted = "no"

(* as_download_pause of an active or queued download whose chunks are chs *)
(* once the connections are stopped; saving may fail and is then ignored. *)
Pause(f, chs, sources) ==
    /\ chunks' = Consolidate(chs)
    /\ dl_state' = "PAUSED"
    /\ file' \in Saves(f, StateData(chunks', TRUE, sources))
    /\ run' = Quiet

(* as_download_queue.  If the state cannot be saved the download is paused *)
(* instead, which does nothing when it was paused before.                 *)
Queue(f, chs, sources, paused) ==
    \/ /\ chunks' = Consolidate(chs)
       /\ dl_state' = "QUEUED"
       /\ file' = SaveState(f, StateData(chunks', paused, sources))
       /\ run' = Quiet
    \/ /\ paused
       /\ chunks' = Consolidate(chs)
       /\ dl_state' = "PAUSED"
       /\ file' \in FailedSave(f)
       /\ run' = Quiet
    \/ /\ ~paused
       /\ \E g \in FailedSave(f) : Pause(g, Consolidate(chs), sources)

(***************************************************************************)
(* Callbacks of the connections: conn_state_cb and conn_data_cb.           *)
(***************************************************************************)

(* DOWNCONN_FAILED and DOWNCONN_QUEUED *)
SourceFails(c) ==
    /\ At("idle") /\ (Fail(c) \/ Queued(c))
    /\ run' = Calling("disassociate", {c})
    /\ aborted' = Check(c \in Assigned, "no chunk")
    /\ UNCHANGED <<dl_state, received, chunks, file>>

(* Mutant of EnoughSources: connecting sources are never turned away. *)
NeverEnough == FALSE

(* The test in DOWNCONN_TRANSFERRING; it counts the connection itself,    *)
(* whose state has already been set.                                      *)
EnoughSources == Cardinality(InState("TRANSFERRING")) + 1 >= MaxSources

(* DOWNCONN_TRANSFERRING with enough sources: no download_maintain here. *)
TurnAway(c) ==
    /\ At("idle") /\ EnoughSources /\ CancelAccepted(c)
    /\ chunks' = Unassign(c)
    /\ aborted' = Check(c \in Assigned, "no chunk")
    /\ UNCHANGED <<dl_state, received, run, file>>

(* Mutant of WritePos: data goes to the start of the chunk. *)
WriteAtStart(ch) == ch.start

(* Where data for a chunk is written, and how much of it. *)
WritePos(ch) == ch.start + ch.received
Taken(ch, n) == Min({n, Remaining(ch)})

(* The connection cannot be kept: it got, or asked for, more than the     *)
(* chunk needs.                                                           *)
Overruns(c, n) ==
    LET ch == chunks[ChunkOf(c)]
    IN  /\ n >= Remaining(ch)
        /\ \/ n # Taken(ch, n)
           \/ view[c].chunk_start + view[c].chunk_size > EndOf(ch)

(* conn_data_cb, up to the test for a complete chunk. *)
Store(c, n) ==
    LET i == ChunkOf(c)
        w == Taken(chunks[i], n)
        at == WritePos(chunks[i])
    IN  /\ file' = WriteData(file, at .. at + w - 1)
        /\ received' = received + w
        /\ chunks' = [chunks EXCEPT ![i].received = @ + w]
        /\ aborted' = Check(/\ Remaining(chunks[i]) <= view[c].chunk_size
                            /\ received' <= FileSize, "data")
        /\ UNCHANGED dl_state

(* A reply header with no data. *)
Accepted(c) ==
    /\ At("idle") /\ ~EnoughSources /\ Transfer(c, 0)
    /\ aborted' = Check(c \in Assigned, "no chunk")
    /\ UNCHANGED <<dl_state, received, chunks, run, file>>

(* Data that came with the reply header, possibly more than was asked for. *)
HeaderData(c, n) ==
    /\ At("idle") /\ n > 0 /\ ~EnoughSources
    /\ view[c].state = "CONNECTING"
    /\ Store(c, n)
    /\ \/ /\ Overruns(c, n) /\ CancelAccepted(c)
          /\ run' = Calling("disassociate", {c})
       \/ /\ ~Overruns(c, n) /\ Transfer(c, n)
          /\ UNCHANGED run

(* Data of the body; the last byte asked for raises DOWNCONN_COMPLETE.     *)
(* The source may send more than that: the connection is then cancelled.  *)
BodyData(c, n) ==
    /\ At("idle") /\ n > 0
    /\ view[c].state = "TRANSFERRING"
    /\ Store(c, n)
    /\ \/ /\ Overruns(c, n) /\ Cancel(c)
          /\ run' = Calling("disassociate", {c})
       \/ /\ ~Overruns(c, n) /\ Complete(c, n)
          /\ run' = Calling("disassociate", {c})
       \/ /\ ~Overruns(c, n) /\ Data(c, n)
          /\ UNCHANGED run

(* fseek or fwrite fails: the download is paused.  The source worked. *)
WriteFails(c) ==
    /\ At("idle") /\ c \in alive
    /\ \/ view[c].state = "TRANSFERRING" /\ view[c].curr < view[c].chunk_size
       \/ view[c].state = "CONNECTING" /\ ~EnoughSources
    /\ view' = [StoppedView EXCEPT ![c].fail = 0]
    /\ \E f \in FailedSave(file) : Pause(f, UnassignAll, alive)
    /\ UNCHANGED <<alive, received, aborted>>

(* disassociate_conn, after which the callbacks call download_maintain. *)
Disassociate ==
    /\ At("disassociate")
    /\ \E c \in run.cands :
          /\ chunks' = Unassign(c)
          /\ IF view[c].fail >= SourceMaxFail THEN Free(c)
                                             ELSE UNCHANGED ifaceVars
    /\ run' = Calling("maintain", {})
    /\ UNCHANGED <<dl_state, received, file, aborted>>

(***************************************************************************)
(* download_maintain and start_chunks.                                     *)
(***************************************************************************)

(* Mutant of Finished: the last chunk is looked at. *)
FinishedLast(chs) == Last(chs).received > 0 /\ IsComplete(Last(chs))

Finished(chs) == Head(chs).received = FileSize

(* verify_chunks failed: download_failed, then assert (0). *)
Corrupted ==
    /\ At("maintain") /\ ~VerifyChunks(chunks)
    /\ aborted' = "chunk list"
    /\ dl_state' = "FAILED" /\ file' = NoFile
    /\ view' = StoppedView /\ chunks' = UnassignAll /\ run' = Quiet
    /\ UNCHANGED <<alive, received>>

(* download_finished, up to the callback for DOWNLOAD_VERIFYING.  Nobody   *)
(* looks at what fclose returns; here it writes what is in the buffer.    *)
Finish ==
    /\ At("maintain") /\ VerifyChunks(chunks)
    /\ Finished(Consolidate(chunks))
    /\ view' = StoppedView
    /\ chunks' = Consolidate(chunks)
    /\ file' = Flush(file)
    /\ dl_state' = "VERIFYING"
    /\ run' = [run EXCEPT !.pc = "verify"]
    /\ aborted' = Check(dl_state = "ACTIVE" /\ Len(chunks') = 1, "finished")
    /\ UNCHANGED <<alive, received>>

(* The rest of download_finished: truncate, hash, then download_complete  *)
(* or download_failed.  The maintenance timer, if that is the caller, was *)
(* removed and must not be asked for again.                               *)
Verify ==
    /\ At("verify")
    /\ \/ dl_state' = "COMPLETE" /\ file' = [file EXCEPT !.saved = NoState]
       \/ dl_state' = "FAILED" /\ file' = NoFile
    /\ run' = Quiet
    /\ aborted' = Check(~run.timer, "timer")
    /\ UNCHANGED <<alive, view, received, chunks>>

(* download_maintain of an unfinished download, and the entry of          *)
(* start_chunks.                                                          *)
Maintain ==
    LET active == Cardinality(InState("TRANSFERRING"))
        pending == Cardinality(InState("CONNECTING"))
    IN  /\ At("maintain") /\ VerifyChunks(chunks)
        /\ ~Finished(Consolidate(chunks))
        /\ chunks' = Consolidate(chunks)
        /\ aborted' = Check(dl_state = "ACTIVE", "state")
        /\ run' = IF \/ alive = {} \/ active >= MaxSources
                     \/ pending >= (MaxSources - active) * 2
                  THEN Quiet
                  ELSE [pc |-> "phase1", cands |-> alive \ Assigned,
                        slow |-> Assigned, timer |-> run.timer,
                        max_new |-> (MaxSources - active) * 2 - pending]
        /\ UNCHANGED <<alive, view, dl_state, received, file>>

(* The loops go on while there are connections left to use. *)
MoreConns == run.cands # {} /\ run.max_new > 0
Used(c) == [run EXCEPT !.cands = @ \ {c}, !.max_new = @ - 1]
Skipped(c) == [run EXCEPT !.cands = @ \ {c}]
NextPhase(pc) == [run EXCEPT !.pc = pc]

(* Unused chunks; the first one is served next. *)
Open == {i \in DOMAIN chunks :
            chunks[i].conn = NoConn /\ ~IsComplete(chunks[i])}

(* A source that queued us is passed over until queue_next_try. *)
SkipQueued(c) ==
    /\ \/ At("phase1") /\ Open # {}
       \/ At("phase2")
       \/ At("phase3")
    /\ MoreConns /\ c \in run.cands
    /\ view[c].state = "QUEUED"
    /\ run' = Skipped(c)
    /\ UNCHANGED <<alive, view, dl_state, received, chunks, file, aborted>>

(* First loop: a connection for an unused chunk.  One that cannot be      *)
(* started is removed, and the next one is tried for the same chunk.      *)
StartUnused(c) ==
    LET i == Min(Open) IN
    /\ At("phase1") /\ MoreConns /\ c \in run.cands /\ Open # {}
    /\ \/ /\ Start(c, chunks[i].start, chunks[i].size)
          /\ chunks' = [chunks EXCEPT ![i].conn = c]
          /\ run' = Used(c)
       \/ /\ Free(c)
          /\ run' = Skipped(c)
          /\ UNCHANGED chunks
    /\ aborted' = Check(chunks[i].received = 0, "half complete")
    /\ UNCHANGED <<dl_state, received, file>>

EndPhase1 ==
    /\ At("phase1") /\ (~MoreConns \/ Open = {})
    /\ run' = NextPhase("phase2")
    /\ UNCHANGED <<alive, view, dl_state, received, chunks, file, aborted>>

(* The first of the chunks with most to do. *)
Largest ==
    Min({i \in DOMAIN chunks : \A j \in DOMAIN chunks :
            Remaining(chunks[j]) <= Remaining(chunks[i])})
CanSplit == Remaining(chunks[Largest]) > 2 * MinChunk

(* The chunk that the second half of what remains of ch becomes, for c. *)
SecondHalf(ch, c) ==
    LET n == Remaining(ch) \div 2
    IN  [Chunk(EndOf(ch) - n, n, 0) EXCEPT !.conn = c]

(* Mutant of SplitChunk: the old chunk is not shortened. *)
SplitChunkKeepsOld(i, c) ==
    Splice(chunks, i, <<chunks[i], SecondHalf(chunks[i], c)>>)

SplitChunk(i, c) ==
    LET new == SecondHalf(chunks[i], c)
    IN  Splice(chunks, i, <<[chunks[i] EXCEPT !.size = @ - new.size], new>>)

(* Second loop: the largest chunk is split for an unused connection.  If  *)
(* that cannot be started the loop ends.                                  *)
StartSplit(c) ==
    LET new == SecondHalf(chunks[Largest], c) IN
    /\ At("phase2") /\ MoreConns /\ c \in run.cands /\ CanSplit
    /\ \/ /\ Start(c, new.start, new.size)
          /\ chunks' = SplitChunk(Largest, c)
          /\ run' = Used(c)
       \/ /\ Free(c)
          /\ run' = [Skipped(c) EXCEPT !.pc = "phase3"]
          /\ UNCHANGED chunks
    /\ UNCHANGED <<dl_state, received, file, aborted>>

EndPhase2 ==
    /\ At("phase2") /\ (~MoreConns \/ ~CanSplit)
    /\ run' = NextPhase("phase3")
    /\ UNCHANGED <<alive, view, dl_state, received, chunks, file, aborted>>

(* Third loop: connection s is freed and faster c goes on with its chunk. *)
(* If c cannot be started it is removed too and the loop ends.            *)
Replace(s, c) ==
    LET i == ChunkOf(s)
        ch == chunks[i]
    IN  /\ At("phase3") /\ MoreConns /\ c \in run.cands /\ s \in run.slow
        /\ \/ /\ alive' = alive \ {s}
              /\ view' = [view EXCEPT ![s] = NewView,
                     ![c] = Started(@, WritePos(ch), Remaining(ch))]
              /\ chunks' = [chunks EXCEPT ![i].conn = c]
              /\ run' = [Skipped(c) EXCEPT !.slow = @ \ {s}]
           \/ /\ alive' = alive \ {s, c}
              /\ view' = [view EXCEPT ![s] = NewView, ![c] = NewView]
              /\ chunks' = Unassign(s)
              /\ run' = Quiet
        /\ UNCHANGED <<dl_state, received, file, aborted>>

(* No connection is worth replacing, or there are none left. *)
EndPhase3 ==
    /\ At("phase3")
    /\ run' = Quiet
    /\ UNCHANGED <<alive, view, dl_state, received, chunks, file, aborted>>

(***************************************************************************)
(* Requests of the owner.  Its callback for DOWNLOAD_ACTIVE may queue the  *)
(* download at once (as_download_man.c does).                              *)
(***************************************************************************)

(* as_download_add_source.  as_download_restart wants no sources yet. *)
AddSource(c) ==
    /\ At("idle") /\ dl_state \in LiveStates \cup {"NEW"}
    /\ dl_state = "NEW" => ~file.exists
    /\ Create(c)
    /\ run' = IF dl_state = "ACTIVE" THEN Calling("maintain", {}) ELSE Quiet
    /\ UNCHANGED <<dl_state, received, chunks, file, aborted>>

(* as_download_start.  The state is saved after the callback; if that     *)
(* fails the download is paused.                                          *)
StartDownload ==
    LET new == [NoFile EXCEPT !.exists = TRUE]
        whole == <<Chunk(0, FileSize, 0)>>
        data == StateData(whole, FALSE, alive)
    IN  /\ At("idle") /\ dl_state = "NEW" /\ ~file.exists
        /\ \/ /\ chunks' = whole
              /\ dl_state' = "ACTIVE"
              /\ file' = SaveState(new, data)
              /\ run' = Calling("maintain", {})
           \/ /\ chunks' = whole
              /\ dl_state' = "QUEUED"
              /\ file' = SaveState(SaveState(new, data), data)
              /\ run' = Quiet
           \/ Pause(new, whole, alive)
           \/ \E f \in FailedSave(SaveState(new, data)) : Pause(f, whole, alive)
        /\ UNCHANGED <<alive, view, received, aborted>>

(* as_download_restart and as_downstate_load *)
Restart ==
    LET l == Load(file.saved) IN
    /\ At("idle") /\ dl_state = "NEW" /\ file.exists
    /\ \/ /\ ~l.ok
          /\ dl_state' = "LOST"
          /\ UNCHANGED <<alive, received, chunks, run, file>>
       \/ /\ l.ok
          /\ alive' = RestoredSources(file.saved)
          /\ received' = SumReceived(l.chunks)
          /\ \/ /\ chunks' = l.chunks
                /\ dl_state' = IF file.saved.paused THEN "PAUSED" ELSE "ACTIVE"
                /\ run' = IF file.saved.paused THEN Quiet
                                               ELSE Calling("maintain", {})
                /\ UNCHANGED file
             \/ /\ ~file.saved.paused
                /\ Queue(file, l.chunks, RestoredSources(file.saved), FALSE)
    /\ UNCHANGED <<view, aborted>>

(* as_download_pause *)
PauseRequest ==
    /\ At("idle") /\ dl_state \in {"ACTIVE", "QUEUED"}
    /\ view' = StoppedView
    /\ Pause(file, UnassignAll, alive)
    /\ UNCHANGED <<alive, received, aborted>>

(* as_download_queue.  The paused flag saved is that of the old state. *)
QueueRequest ==
    /\ At("idle") /\ dl_state \in {"ACTIVE", "PAUSED"}
    /\ view' = StoppedView
    /\ Queue(file, UnassignAll, alive, dl_state = "PAUSED")
    /\ UNCHANGED <<alive, received, aborted>>

(* as_download_resume; nothing is saved. *)
ResumeRequest ==
    /\ At("idle") /\ dl_state \in {"PAUSED", "QUEUED"}
    /\ \/ /\ dl_state' = "ACTIVE"
          /\ run' = Calling("maintain", {})
          /\ UNCHANGED <<view, chunks, file>>
       \/ /\ view' = StoppedView
          /\ Queue(file, UnassignAll, alive, FALSE)
    /\ UNCHANGED <<alive, received, aborted>>

(* as_download_cancel *)
CancelRequest ==
    /\ At("idle") /\ dl_state \in LiveStates
    /\ view' = StoppedView /\ chunks' = UnassignAll
    /\ dl_state' = "CANCELLED" /\ file' = NoFile
    /\ UNCHANGED <<alive, received, run, aborted>>

(* Mutant of MaintenanceTimer: it only saves the state. *)
MaintenanceTimerSaves ==
    /\ At("idle") /\ dl_state = "ACTIVE"
    /\ file' = SaveState(file, StateData(chunks, FALSE, alive))
    /\ UNCHANGED <<alive, view, dl_state, received, chunks, run, aborted>>

(* maintenance_timer_func *)
MaintenanceTimer ==
    /\ At("idle") /\ dl_state = "ACTIVE"
    /\ \/ /\ file' = SaveState(file, StateData(chunks, FALSE, alive))
          /\ run' = [Calling("maintain", {}) EXCEPT !.timer = TRUE]
          /\ UNCHANGED <<view, dl_state, chunks>>
       \/ /\ view' = StoppedView
          /\ \E f \in FailedSave(file) : Pause(f, UnassignAll, alive)
    /\ UNCHANGED <<alive, received, aborted>>

(* The program ends.  as_download_free closes the file, which writes what *)
(* is in the buffer; a crash may lose that.  During verification the      *)
(* state data may already be cut off.                                     *)
Exit ==
    /\ \/ At("idle") /\ dl_state \in LiveStates
       \/ At("verify")
    /\ \E f \in {Flush(file), [file EXCEPT !.pdata = {}, !.psaved = NoState]} :
          \/ file' = f
          \/ run.pc = "verify" /\ file' = [f EXCEPT !.saved = NoState]
    /\ alive' = {} /\ view' = [c \in Conns |-> NewView]
    /\ dl_state' = "NEW" /\ received' = 0 /\ chunks' = <<>>
    /\ run' = Quiet
    /\ UNCHANGED aborted

(* A download that ended, or could not be restarted, is freed. *)
Discard ==
    /\ At("idle") /\ dl_state \in EndStates \cup {"LOST"}
    /\ alive' = {} /\ view' = [c \in Conns |-> NewView]
    /\ dl_state' = "NEW" /\ received' = 0 /\ chunks' = <<>>
    /\ file' = NoFile
    /\ UNCHANGED <<run, aborted>>

-----------------------------------------------------------------------------
(* The steps of the running handler, which nothing interrupts. *)
Handler ==
    \/ Disassociate \/ Corrupted \/ Finish \/ Verify \/ Maintain
    \/ EndPhase1 \/ EndPhase2 \/ EndPhase3
    \/ \E c \in Conns :
          \/ SkipQueued(c) \/ StartUnused(c) \/ StartSplit(c)
          \/ \E s \in Conns : Replace(s, c)

Source ==
    \E c \in Conns :
        \/ SourceFails(c) \/ TurnAway(c) \/ Accepted(c) \/ WriteFails(c)
        \/ \E n \in 1 .. FileSize + 1 : HeaderData(c, n) \/ BodyData(c, n)

Owner ==
    \/ \E c \in Conns : AddSource(c)
    \/ StartDownload \/ Restart \/ PauseRequest \/ QueueRequest
    \/ ResumeRequest \/ CancelRequest \/ Exit \/ Discard

Next == Handler \/ Source \/ Owner \/ MaintenanceTimer

Spec == DownloadInit /\ [][Next]_vars

(* A handler that runs goes on, and the event loop fires the timer. *)
FairSpec == Spec /\ WF_vars(Handler) /\ WF_vars(MaintenanceTimer)

-----------------------------------------------------------------------------
(* Properties.                                                             *)

ChunkType == [start : 0 .. FileSize, size : 0 .. FileSize,
              received : 0 .. FileSize, conn : Conns \cup {NoConn}]

(* Every variable has its type; dl->received never exceeds the file size. *)
TypeOK ==
    /\ alive \subseteq Conns
    /\ view \in [Conns -> View]
    /\ dl_state \in LiveStates \cup EndStates \cup {"NEW", "VERIFYING", "LOST"}
    /\ received \in 0 .. FileSize
    /\ \A i \in DOMAIN chunks : chunks[i] \in ChunkType
    /\ run.cands \subseteq Conns /\ run.slow \subseteq Conns
    /\ run.max_new \in 0 .. 2 * MaxSources
    /\ file.disk \subseteq Blocks /\ file.pdata \subseteq Blocks

(* Through every split, merge, failure and restart the chunks tile the    *)
(* file, and dl->received is what they received: no byte is counted twice *)
(* or left out when start_chunks, consolidate_chunks and read_chunks      *)
(* rearrange the list.                                                    *)
ChunksPartition ==
    dl_state \in LiveStates \cup {"VERIFYING"} =>
        /\ chunks # <<>> /\ chunks[1].start = 0 /\ EndOf(Last(chunks)) = FileSize
        /\ \A i \in 1 .. Len(chunks) - 1 :
              EndOf(chunks[i]) = chunks[i + 1].start /\ chunks[i].size > 0
        /\ SumReceived(chunks) = received

(* Between events, conn->udata2 and chunk->udata agree with the state of  *)
(* the connection: exactly the busy connections have a chunk, one each,   *)
(* which lies in the range they asked for and whose next missing byte is  *)
(* the next one they deliver.  The others are ready to be used.           *)
AssignedConsistent ==
    /\ TypeOK
    /\ run.pc = "idle" /\ aborted = "no" =>
          /\ Assigned = {c \in alive : view[c].state \in BusyStates}
          /\ \A c \in Assigned :
                LET ch == chunks[ChunkOf(c)]
                IN  /\ Cardinality(ChunksOf(c)) = 1
                    /\ view[c].chunk_start + view[c].curr = WritePos(ch)
                    /\ view[c].chunk_start + view[c].chunk_size >= EndOf(ch)
                    /\ dl_state = "ACTIVE"
          /\ \A c \in alive : view[c].fail < SourceMaxFail

(* What a chunk counts as received is in the file or in its buffer, and   *)
(* the file is handed to hash verification, and called complete, only     *)
(* when every byte of it was written.  The exception is a file of a single *)
(* byte: its missing range <<0, 0>> reads as the end of the list of       *)
(* ranges, and the restarted download counts the byte as there.           *)
OnDisk ==
    FileSize * Unit > 1 =>
        /\ dl_state \in LiveStates \cup {"VERIFYING"} =>
              UNION {Prefix(chunks[i]) : i \in DOMAIN chunks}
                  \subseteq file.disk \cup file.pdata
        /\ dl_state \in {"VERIFYING", "COMPLETE"} => file.disk = Blocks

(* A missing range of one byte, which as_download_state.c:351 refuses. *)
OneByteRange(s) == \E i \in DOMAIN s.ranges : s.ranges[i][1] = s.ranges[i][2]

(* State data that a crash at any moment leaves in the file can be loaded, *)
(* unless one of its ranges is a single byte; and what is loaded claims    *)
(* no byte that is not in the file, unless that byte is the whole file.    *)
RecoverySound ==
    \A s \in {file.saved, file.psaved} : s.ok =>
        /\ Load(s).ok \/ OneByteRange(s)
        /\ Load(s).ok /\ FileSize * Unit > 1 =>
              FullBlocks(Load(s).chunks) \subseteq file.disk

(* as_download.c:231 saves the state at once so that there is something to *)
(* recover from: whatever state data the file has can be loaded.  It       *)
(* cannot, as RecoverySound allows for.                                    *)
RecoveryPossible ==
    \A s \in {file.saved, file.psaved} : s.ok => Load(s).ok

(* Of the assert ()s of as_download.c, and that of as_event.c against a   *)
(* timer that is removed and asked for again (maintenance_timer_func),    *)
(* only assert (0) behind verify_chunks can fail.                         *)
OnlyChunkListAsserts == aborted \in {"no", "chunk list"}

(* as_download.c:880: a chunk that is complete is left to DOWNCONN_COMPLETE *)
(* and so has no connection (as_download.c:937) when download_maintain      *)
(* looks: the assert (0) behind verify_chunks is never reached.             *)
NoAssertFails == aborted = "no"

(* However many sources answer at once, no more than                      *)
(* AS_DOWNLOAD_MAX_ACTIVE_SOURCES of them transfer.                       *)
SourceLimit == Cardinality(InState("TRANSFERRING")) <= MaxSources

(* An active download with nothing under way and a source that has not    *)
(* queued us is not left alone: a source is asked, or there is none left, *)
(* or the download is no longer active.                                   *)
Usable == {c \in alive : view[c].state # "QUEUED"}
Busy == {c \in alive : view[c].state \in BusyStates}
IdleSourcesAsked ==
    (dl_state = "ACTIVE" /\ Busy = {} /\ Usable # {})
        ~> (dl_state # "ACTIVE" \/ Busy # {} \/ Usable = {})

=============================================================================
