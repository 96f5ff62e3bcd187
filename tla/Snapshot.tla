------------------------------ MODULE Snapshot ------------------------------
(***************************************************************************)
(* The snapshotter (snapshot.rs): a task that records the alive members    *)
(* and the three Lamport times in a file, compacts the file when it grows, *)
(* and gives the next start of the node the state to rejoin with.          *)
(*                                                                         *)
(* The file is described by what a replay of it returns, its image.        *)
(* `written` is the image of the bytes that reached the file, `buffered`   *)
(* holds one image for each further record in the BufWriter.  Sizes in     *)
(* bytes are left out: any append may bring `offset` above the limit.  The *)
(* handlers of the task do not wait for anything: a handler is a list of   *)
(* operations, `todo`, and between two operations, or two system calls of  *)
(* a compaction, the process may crash.                                    *)
(***************************************************************************)
EXTENDS Integers, Sequences

CONSTANTS Node,             \* the nodes (id and address) that member events are about
          BufferCap,        \* records that fit in the BufWriter
          MaxTime,          \* bound: the times the cluster reaches
          Timed,            \* bound: the events besides member events ("event", "query")
          Failing           \* bound: file operations that fail in a behaviour

ASSUME SnapshotSizes == BufferCap \in Nat \ {0}
ASSUME SnapshotBounds == MaxTime \in Nat /\ Timed \subseteq {"event", "query"} /\ Failing \in Nat

VARIABLES
  alive_nodes, last,    \* the memory of the task: members and last_*clock
  leaving,
  fh,                   \* fh.is_some()
  exists,               \* there is a file under the name of the snapshot
  written,              \* image of that file, Empty while there is none
  buffered,             \* images after each record in the BufWriter
  torn,                 \* the file ends in the middle of a record
  phase,                \* of the task and of the process
  todo,                 \* operations left in the current handler
  compaction,           \* the next system call of compact(), "none" outside
  recovering,           \* compact() was called by try_append, not by append_line
  clock,                \* the Lamport clock of the node
  shutdown,             \* the signal of Serf::shutdown
  rejoin_after_leave,   \* option, fixed
  dirty,                \* history: the file missed a record of this memory
  left,                 \* history: handle_leave ended with its record in the file
  failures              \* history: file operations that failed

memory == <<alive_nodes, last, leaving>>
disk   == <<exists, written, buffered, torn, fh>>
tasks  == <<phase, todo, compaction, recovering>>
env    == <<clock, shutdown, rejoin_after_leave>>
vars   == <<memory, disk, tasks, env, dirty, left, failures>>

Clocks == {"clock", "event", "query"}
Image  == [nodes : SUBSET Node, last : [Clocks -> Nat]]

Record == [ty : {"Alive", "NotAlive"}, node : Node]
            \cup [ty : {"Clock"}, of : Clocks, time : Nat] \cup [ty : {"Leave"}]
Op     == Record \cup [ty : {"update_clock", "sync"}]

NoTimes == [c \in Clocks |-> 0]
Empty   == [nodes |-> {}, last |-> NoTimes]

Phase   == {"running", "ending", "closing", "done", "panicked", "down"}
Syscall == {"none", "write", "take", "remove", "rename", "reopen"}

TypeOK ==
  /\ alive_nodes \in SUBSET Node /\ last \in [Clocks -> Nat]
  /\ leaving \in BOOLEAN /\ fh \in BOOLEAN
  /\ exists \in BOOLEAN /\ written \in Image
  /\ buffered \in Seq(Image) /\ torn \in BOOLEAN
  /\ phase \in Phase /\ todo \in Seq(Op)
  /\ compaction \in Syscall /\ recovering \in BOOLEAN
  /\ clock \in Nat \ {0}
  /\ shutdown \in BOOLEAN /\ rejoin_after_leave \in BOOLEAN
  /\ dirty \in BOOLEAN /\ left \in BOOLEAN /\ failures \in Nat

\* A first start: there is no snapshot yet.
Init ==
  /\ alive_nodes = {} /\ last = NoTimes /\ leaving = FALSE
  /\ fh = TRUE /\ exists = TRUE
  /\ written = Empty /\ buffered = <<>> /\ torn = FALSE
  /\ phase = "running" /\ todo = <<>>
  /\ compaction = "none" /\ recovering = FALSE
  /\ clock = 1 /\ shutdown = FALSE
  /\ rejoin_after_leave \in BOOLEAN
  /\ dirty = FALSE /\ left = FALSE /\ failures = 0

-----------------------------------------------------------------------------
(* What the records mean.                                                  *)

\* open_and_replay_snapshot reads one more record.
Replayed(im, r) ==
  CASE r.ty = "Alive"    -> [im EXCEPT !.nodes = @ \cup {r.node}]
    [] r.ty = "NotAlive" -> [im EXCEPT !.nodes = @ \ {r.node}]
    [] r.ty = "Clock"    -> [im EXCEPT !.last[r.of] = r.time]
    [] OTHER             -> IF rejoin_after_leave THEN im
                            ELSE [im EXCEPT !.nodes = {}, !.last = NoTimes]

\* The image of everything the task appended to the open file.
Full == IF buffered = <<>> THEN written ELSE buffered[Len(buffered)]

\* Mutant of Compacted: the times of the queries are not carried over.
CompactedWithoutQuery ==
  [nodes |-> alive_nodes, last |-> [last EXCEPT !["query"] = 0]]

\* The image of the file that compact() writes: the members, then the three times.
Compacted == [nodes |-> alive_nodes, last |-> last]

-----------------------------------------------------------------------------
(* The main loop of stream() and the drain that follows it.                *)

Idle == todo = <<>> /\ compaction = "none"

\* A handler leaves the operations ops to do.
Do(ops) ==
  /\ todo' = ops
  /\ UNCHANGED <<memory, disk, compaction, recovering, dirty, left, failures>>

\* The operations of process_member_event, process_user_event, process_query_event.
MemberOps(ty, n) ==
  (CASE ty = "Join"              -> <<[ty |-> "Alive", node |-> n]>>
     [] ty \in {"Leave", "Failed"} -> <<[ty |-> "NotAlive", node |-> n]>>
     [] OTHER                    -> <<>>) \o <<[ty |-> "update_clock"]>>

TimeOps(of, ltime) ==
  IF ltime <= last[of] THEN <<>> ELSE <<[ty |-> "Clock", of |-> of, time |-> ltime]>>

\* Mutant of Recorded: events are recorded after a leave too.
RecordedAlways(ops) ==
  /\ phase \in {"running", "ending"} /\ Idle
  /\ phase' = phase /\ Do(ops)
  /\ UNCHANGED env

\* stream_flush_event!: an event after a leave ends the loop it is taken in.
Recorded(ops) ==
  /\ phase \in {"running", "ending"} /\ Idle
  /\ IF ~ leaving THEN phase' = phase /\ Do(ops)
     ELSE IF phase = "running"
     THEN /\ phase' = "ending"
          /\ Do(<<[ty |-> "update_clock"]>>)
     ELSE phase' = "closing" /\ Do(<<[ty |-> "sync"]>>)
  /\ UNCHANGED env

MemberEvent(ty, n) == Recorded(MemberOps(ty, n))
TimedEvent(of, ltime) == Recorded(TimeOps(of, ltime))

LeaveOps == <<[ty |-> "Leave"], [ty |-> "sync"]>>

\* The signal of SnapshotHandle::leave, which Serf::leave gives once.
Leave ==
  /\ phase = "running" /\ Idle /\ ~ leaving
  /\ Do(LeaveOps)
  /\ UNCHANGED <<phase, env>>

Tick ==
  /\ phase = "running" /\ Idle
  /\ Do(<<[ty |-> "update_clock"]>>)
  /\ UNCHANGED <<phase, env>>

\* The loop ends; a leave signal that is still in leave_rx is handled first.
SeeShutdown(pending) ==
  /\ phase = "running" /\ Idle /\ shutdown
  /\ pending => ~ leaving
  /\ phase' = "ending"
  /\ Do((IF pending THEN LeaveOps ELSE <<>>) \o <<[ty |-> "update_clock"]>>)
  /\ UNCHANGED env

\* Mutant of DrainEnd: the drain only ends on an event after a leave.
DrainEndOnLeave ==
  /\ phase = "ending" /\ Idle /\ leaving
  /\ phase' = "closing"
  /\ Do(<<[ty |-> "sync"]>>)
  /\ UNCHANGED env

\* The buffers are empty, or SHUTDOWN_FLUSH_TIMEOUT is over.
DrainEnd ==
  /\ phase = "ending" /\ Idle
  /\ phase' = "closing"
  /\ Do(<<[ty |-> "sync"]>>)
  /\ UNCHANGED env

-----------------------------------------------------------------------------
(* The file operations.                                                    *)

Busy == phase \in {"running", "ending", "closing"} /\ compaction = "none" /\ todo # <<>>

Fails == failures < Failing /\ failures' = failures + 1

\* The BufWriter with the images ims reaches the file.
Flushed(ims) ==
  /\ written' = IF ims = <<>> THEN written ELSE ims[Len(ims)]
  /\ torn' = FALSE

\* A flush that fails has written all records up to the k-th, and perhaps part of the
\* next; the BufWriter keeps the others.
PartlyFlushed(ims, k) ==
  /\ written' = IF k = 0 THEN written ELSE ims[k]
  /\ buffered' = SubSeq(ims, k + 1, Len(ims))
  /\ torn' \in IF k = 0 THEN {torn, TRUE} ELSE BOOLEAN

\* The change of the memory that precedes the append of a record.
Remember(r) ==
  /\ alive_nodes' = CASE r.ty = "Alive"    -> alive_nodes \cup {r.node}
                      [] r.ty = "NotAlive" -> alive_nodes \ {r.node}
                      [] r.ty = "Leave"    -> IF rejoin_after_leave THEN alive_nodes ELSE {}
                      [] OTHER             -> alive_nodes
  /\ last' = IF r.ty = "Clock" THEN [last EXCEPT ![r.of] = r.time] ELSE last
  /\ leaving' = (leaving \/ r.ty = "Leave")

\* append_line: the writer makes room for the record by a flush of what it holds, a
\* second flush follows when FLUSH_INTERVAL is over, and a compaction when the file is
\* larger than snapshot_max_size.
Appended(r) ==
  LET im   == Replayed(Full, r)
      full == Len(buffered) = BufferCap
      ims  == IF full THEN <<im>> ELSE Append(buffered, im)
  IN  /\ \/ /\ IF full THEN Flushed(buffered) ELSE UNCHANGED <<written, torn>>
            /\ buffered' = ims
         \/ /\ Flushed(Append(buffered, im))
            /\ buffered' = <<>>
      /\ compaction' \in {"none", "write"}
      /\ recovering' = FALSE
      /\ UNCHANGED <<dirty, failures>>

\* The error path of try_append: compact at once if SNAPSHOT_ERROR_RECOVERY_INTERVAL
\* is over, else go on without the record.
Recovery ==
  \/ compaction' = "none" /\ recovering' = FALSE
  \/ compaction' = "write" /\ recovering' = TRUE

\* The writer cannot make room, and the record is lost; or the flush after it fails.
AppendFails(r) ==
  /\ Fails
  /\ \/ /\ Len(buffered) = BufferCap
        /\ \E k \in 0 .. BufferCap - 1 : PartlyFlushed(buffered, k)
        /\ dirty' = TRUE
     \/ /\ \E k \in (IF Len(buffered) = BufferCap THEN BufferCap ELSE 0) .. Len(buffered) :
             PartlyFlushed(Append(buffered, Replayed(Full, r)), k)
        /\ UNCHANGED dirty
  /\ Recovery

\* fh.as_mut().unwrap() ends the task when a compaction left no file handle.
try_append(r) ==
  /\ Remember(r)
  /\ todo' = Tail(todo)
  /\ IF fh THEN (Appended(r) \/ AppendFails(r)) /\ UNCHANGED phase
     ELSE /\ phase' = "panicked"
          /\ dirty' = TRUE
          /\ UNCHANGED <<written, buffered, torn, compaction, recovering, failures>>
  /\ UNCHANGED <<exists, fh, env, left>>

AppendRecord ==
  /\ Busy /\ Head(todo) \in Record
  /\ try_append(Head(todo))

\* Mutant of UpdateClock: takes the clock itself, the time of the next message.
UpdateClockAhead ==
  /\ Busy /\ Head(todo).ty = "update_clock"
  /\ IF clock > last["clock"]
     THEN try_append([ty |-> "Clock", of |-> "clock", time |-> clock])
     ELSE todo' = Tail(todo) /\ UNCHANGED <<memory, disk, phase, compaction, recovering, env, dirty, left, failures>>

\* update_clock
UpdateClock ==
  /\ Busy /\ Head(todo).ty = "update_clock"
  /\ IF clock - 1 > last["clock"]
     THEN try_append([ty |-> "Clock", of |-> "clock", time |-> clock - 1])
     ELSE todo' = Tail(todo) /\ UNCHANGED <<memory, disk, phase, compaction, recovering, env, dirty, left, failures>>

\* The writer, if there is one, is flushed, to its end or not.
FlushWriter ==
  IF ~ fh THEN UNCHANGED <<written, buffered, torn, failures>>
  ELSE \/ Flushed(buffered) /\ buffered' = <<>> /\ UNCHANGED failures
       \/ /\ \E k \in 0 .. Len(buffered) - 1 : PartlyFlushed(buffered, k)
          /\ Fails

\* The flush and sync_all at the end of handle_leave and of stream().
Sync ==
  /\ Busy /\ Head(todo).ty = "sync"
  /\ todo' = Tail(todo)
  /\ FlushWriter
  /\ left' = (left \/ (fh /\ failures' = failures /\ leaving /\ ~ dirty))
  /\ UNCHANGED <<memory, exists, fh, phase, compaction, recovering, env, dirty>>

\* wait_tx.close(); the writer is flushed once more when it is dropped.
Close ==
  /\ phase = "closing" /\ Idle
  /\ phase' = "done"
  /\ FlushWriter
  /\ UNCHANGED <<memory, exists, fh, todo, compaction, recovering, env, dirty, left>>

-----------------------------------------------------------------------------
(* compact(), one system call at a time.                                   *)

Compacting(call) ==
  /\ phase \in {"running", "ending", "closing"}
  /\ compaction = call
  /\ UNCHANGED <<memory, todo, env, left>>

\* An error of compact() is one of append_line, which tries once more through
\* try_append; an error of that second compaction is only logged.
CompactFails ==
  /\ Fails
  /\ IF recovering THEN compaction' = "none" /\ recovering' = FALSE ELSE Recovery

\* The new file is written beside the old one, flushed and synced.
CompactWrite ==
  /\ Compacting("write")
  /\ \/ compaction' = "take" /\ UNCHANGED <<recovering, failures>>
     \/ CompactFails
  /\ UNCHANGED <<disk, phase, dirty>>

\* The old handle is taken, flushed (an error is ignored) and dropped.
CompactTake ==
  /\ Compacting("take")
  /\ IF ~ fh
     THEN /\ phase' = "panicked"
          /\ UNCHANGED <<disk, compaction, dirty, failures>>
     ELSE /\ fh' = FALSE
          /\ compaction' = "remove"
          /\ \/ Flushed(buffered) /\ UNCHANGED <<dirty, failures>>
             \/ /\ \E k \in 0 .. Len(buffered) - 1 :
                     /\ written' = IF k = 0 THEN written ELSE buffered[k]
                     /\ torn' \in IF k = 0 THEN {torn, TRUE} ELSE BOOLEAN
                /\ Fails /\ dirty' = TRUE
          /\ buffered' = <<>>
          /\ UNCHANGED <<phase, exists>>
  /\ UNCHANGED recovering

CompactRemove ==
  /\ Compacting("remove")
  /\ \/ /\ compaction' = "rename"
        /\ exists' = FALSE /\ written' = Empty /\ torn' = FALSE
        /\ UNCHANGED <<recovering, failures>>
     \/ CompactFails /\ UNCHANGED <<exists, written, torn>>
  /\ UNCHANGED <<buffered, fh, phase, dirty>>

CompactRename ==
  /\ Compacting("rename")
  /\ \/ /\ compaction' = "reopen"
        /\ exists' = TRUE /\ written' = Compacted /\ dirty' = FALSE
        /\ UNCHANGED <<recovering, failures>>
     \/ CompactFails /\ UNCHANGED <<exists, written, dirty>>
  /\ UNCHANGED <<torn, buffered, fh, phase>>

CompactReopen ==
  /\ Compacting("reopen")
  /\ \/ /\ compaction' = "none" /\ recovering' = FALSE
        /\ fh' = TRUE
        /\ UNCHANGED failures
     \/ CompactFails /\ UNCHANGED fh
  /\ UNCHANGED <<exists, written, buffered, torn, phase, dirty>>

-----------------------------------------------------------------------------
(* The rest of the node.                                                   *)

\* The node joins, gossips and exchanges states: its clock moves on.
ClockAdvances ==
  /\ phase \notin {"done", "down"} /\ clock <= MaxTime
  /\ clock' = clock + 1
  /\ UNCHANGED <<memory, disk, tasks, shutdown, rejoin_after_leave, dirty, left, failures>>

SignalShutdown ==
  /\ phase = "running" /\ ~ shutdown
  /\ shutdown' = TRUE
  /\ UNCHANGED <<memory, disk, tasks, clock, rejoin_after_leave, dirty, left, failures>>

\* The process ends, between any two steps: what was not written is gone.
Crash ==
  /\ phase # "down"
  /\ phase' = "down"
  /\ alive_nodes' = {} /\ last' = NoTimes /\ leaving' = FALSE
  /\ buffered' = <<>> /\ fh' = FALSE
  /\ todo' = <<>> /\ compaction' = "none" /\ recovering' = FALSE
  /\ clock' = 1 /\ shutdown' = FALSE
  /\ UNCHANGED <<exists, written, torn, rejoin_after_leave, dirty, left, failures>>

\* new_in: replay the file, created if it is missing, and restore the clock; a torn
\* record is an error, and the node does not start.
Restart ==
  /\ phase = "down" /\ ~ torn
  /\ phase' = "running"
  /\ exists' = TRUE /\ fh' = TRUE
  /\ alive_nodes' = written.nodes /\ last' = written.last /\ leaving' = FALSE
  /\ clock' = last'["clock"] + 1
  /\ dirty' = FALSE /\ left' = FALSE
  /\ UNCHANGED <<written, buffered, torn, todo, compaction, recovering, shutdown,
                 rejoin_after_leave, failures>>

-----------------------------------------------------------------------------
Events ==
  \/ \E ty \in {"Join", "Leave", "Failed", "Reap"}, n \in Node : MemberEvent(ty, n)
  \/ \E of \in Timed, ltime \in 1 .. MaxTime : TimedEvent(of, ltime)

Compact == CompactWrite \/ CompactTake \/ CompactRemove \/ CompactRename \/ CompactReopen

Next ==
  \/ Events \/ Leave \/ Tick \/ DrainEnd \/ Close
  \/ \E pending \in BOOLEAN : SeeShutdown(pending)
  \/ AppendRecord \/ UpdateClock \/ Sync
  \/ Compact
  \/ ClockAdvances \/ SignalShutdown \/ Crash \/ Restart

Spec == Init /\ [][Next]_vars

\* The runtime polls the task; select! takes a ready branch at random, so no branch
\* that is ready again and again is passed over for ever.
Fairness ==
  /\ WF_vars(AppendRecord \/ UpdateClock \/ Sync \/ Compact \/ Close)
  /\ SF_vars(\E pending \in BOOLEAN : SeeShutdown(pending)) /\ SF_vars(DrainEnd)

FairSpec == Spec /\ Fairness

-----------------------------------------------------------------------------
(* Safety.                                                                 *)

\* The image holds the members and the times of the memory.  A leave record resets
\* the times of the image only.
Matches(im) ==
  /\ im.nodes = alive_nodes
  /\ im.last = last \/ (leaving /\ ~ rejoin_after_leave)

\* What the task wrote and buffered replays to what it holds in memory, through
\* appends, flushes that fail half-way and compactions: the file is only ever behind by
\* the records in the writer, or missing between the two steps of the swap.
FileMatchesMemory ==
  phase # "down" /\ ~ dirty => IF exists THEN Matches(Full) ELSE ~ fh

\* No crash makes the node forget forward: the times in the file are never above those
\* the task has seen, and these never reach the clock, so that a restarted node does
\* not refuse messages it has not seen.
TimesBehind ==
  /\ phase # "down" => last["clock"] < clock
  /\ phase # "down" => \A c \in Clocks : written.last[c] <= last[c]

\* Once handle_leave has returned without an error, no crash and no compaction brings
\* the members back: a node that left does not rejoin when it is started again, unless
\* rejoin_after_leave says so.
LeaveForgets ==
  left /\ ~ rejoin_after_leave => written.nodes = {}

-----------------------------------------------------------------------------
(* Liveness.                                                               *)

\* Serf::shutdown, which waits for the snapshotter, returns: wait_rx closes with the
\* task, however many events come and however many file operations fail.
WaitReturns == shutdown ~> phase \notin {"running", "ending", "closing"}
=============================================================================
