------------------------ MODULE PersistenceCoordinator ------------------------
(***************************************************************************)
(* PersistenceCoordinator (session-persistence/src/coordinator.ts) and     *)
(* SessionPreparations (preparations.ts), for one session id: several      *)
(* Session objects may carry that id, one after the other, while others    *)
(* prepare, load or inspect what is stored under it.                       *)
(*                                                                         *)
(* Operations on the stored log run one at a time, in the order in which   *)
(* serialize() queued them; everything else is synchronous and falls       *)
(* between their steps.  The controller of WriteBehind appears here with   *)
(* its queue, its active write and its barrier.                            *)
(*                                                                         *)
(* An event is the number of the session that appended it, 0 for a closer  *)
(* that repair made up or an event of an earlier process.  The odd events  *)
(* of a log start a turn and the even ones end it, so a log of odd length  *)
(* was interrupted.                                                        *)
(***************************************************************************)
EXTENDS Naturals, Sequences, SequencesExt, FiniteSets

CONSTANTS
  MaxFresh,         \* bound: sessions created without a reservation
  MaxCalls,         \* bound: calls of prepare(), load() and inspect()
  MaxEvents,        \* bound: events a new session appends; a resumed one appends one
  MaxTroubles       \* bound: failures of the backend, deaths of the process and
                    \* reloads of the persistence plugin, together

ASSUME CoordinatorAssumption ==
  /\ MaxFresh \in Nat /\ MaxCalls \in Nat /\ MaxEvents \in Nat
  /\ MaxTroubles \in Nat

Fresh == 1..MaxFresh
Call  == MaxFresh + 1 .. MaxFresh + MaxCalls
Life  == Fresh \union Call      \* Session objects; a prepare() call makes one
None  == 0

VARIABLES
  disk,             \* external: what is stored under the id
  state,            \* states.get(id): cursor, materialized and owner
  entry,            \* preparations.entries.get(id)
  chain,            \* the operations serialize() has queued; the head runs
  retirement,       \* the session of retirements.get(id)
  service,          \* the coordinator's own life
  session,          \* Session objects and their LiveSessionState
  call,             \* calls of prepare(), load() and inspect()
  acked,            \* history: the longest log a flush reported durable
  troubles          \* how many troubles have happened

coordVars == <<state, entry, chain, retirement, service>>
vars == <<disk, coordVars, session, call, acked, troubles>>

NoState == [cursor |-> 0, materialized |-> FALSE, owner |-> None, known |-> FALSE]
NoEntry == [phase |-> "none", rev |-> [events |-> <<>>, tail |-> <<>>, torn |-> FALSE]]
Unborn  == [phase |-> "none", log |-> <<>>, tracked |-> FALSE, init |-> "none",
            admitted |-> 0, written |-> 0, writing |-> "none", paused |-> FALSE,
            waiters |-> {}, retire |-> "none", failed |-> FALSE]
Gone    == [Unborn EXCEPT !.phase = "disposed"]
Idle    == [pc |-> "idle", kind |-> "none", holds |-> FALSE, awaits |-> None,
            rev |-> NoEntry.rev]

\* What loadStored() returns: complete events, also those of a torn frame.
Logical(rev) == rev.events \o rev.tail
Closers(log) == IF Len(log) % 2 = 1 THEN <<0>> ELSE <<>>
\* The balanced log prepareCore() makes of a stored one.
View(rev) == Logical(rev) \o Closers(Logical(rev))
Exists == disk.events # <<>>

InRegistry == {l \in Life : session[l].phase = "live"}
HasWork(l) == session[l].admitted > session[l].written \/ session[l].writing # "none"

\* An operation in the chain, of a session or of a call; n is how much of the
\* session's log it stores, and batch what the current stage writes.
Op(name, of, n, stage) ==
  [op |-> name, of |-> of, n |-> n, stage |-> stage, batch |-> <<>>]
Enqueue(op) == chain' = Append(chain, op)
At(name, stage) == chain # <<>> /\ Head(chain).op = name /\ Head(chain).stage = stage
ToStage(stage, batch) ==
  chain' = [chain EXCEPT ![1].stage = stage, ![1].batch = batch]

Trouble == troubles < MaxTroubles /\ troubles' = troubles + 1

\* preparations.remove(): whoever holds the entry will find it gone.  A load
\* that has not run yet is then of no use to anyone.
Unheld == [c \in Call |-> [call[c] EXCEPT !.holds = FALSE]]
NoLoad(ops) ==
  IF \E i \in DOMAIN ops : ops[i].op = "load"
    THEN RemoveAt(ops, CHOOSE i \in DOMAIN ops : ops[i].op = "load") ELSE ops

\* A call removes the entry it holds; one that took its place is left alone.
EntryWithout(c) == IF call[c].holds THEN NoEntry ELSE entry
CallsWithout(c) == IF call[c].holds THEN Unheld ELSE call

\* A call starts over: it first waits for the retirement now in progress.
Restarted(calls, c) ==
  [calls EXCEPT ![c].pc = "wait", ![c].awaits = retirement, ![c].rev = NoEntry.rev]
Ended(calls, c, result) == [calls EXCEPT ![c] = [Idle EXCEPT !.pc = result]]

MayAppend(l) == LET own(e) == e = l
                IN  Len(SelectSeq(session[l].log, own)) < (IF l \in Fresh THEN MaxEvents ELSE 1)

\* How the retirement a call waits for went.
Drain(c) == IF call[c].awaits = None THEN "done" ELSE session[call[c].awaits].retire

\* Whoever awaits a promise that has settled goes on before the backend answers.
Quiet ==
  /\ \A c \in Call :
       /\ call[c].pc = "wait" => Drain(c) \notin {"done", "failed"}
       /\ call[c].pc = "reading" => call[c].holds /\ entry.phase # "ready"
  /\ \A l \in Life : session[l].waiters \ {"flush"} # {} =>
       session[l].init = "pending" \/ session[l].writing # "none"

-----------------------------------------------------------------------------
(* Sessions and their write controllers *)

\* initFor() without a reservation: the log so far is the seed.
Tracked(r) == [r EXCEPT !.phase = "live", !.tracked = TRUE, !.init = "pending",
                        !.admitted = Len(r.log), !.written = Len(r.log)]

\* reservationFor() throws: the id is being prepared for another session.
Vetoed == entry # NoEntry

\* A session enters the registry.  While its id is being prepared, initFor()
\* throws and vetoes the publication.  One that enters while the plugin unloads
\* is not seen by it, and is taken to enter when it has.
Enter(l, log) ==
  LET r == [session[l] EXCEPT !.phase = "live", !.log = log]
  IN  /\ InRegistry = {} /\ service # "disposing"
      /\ IF service = "running"
           THEN /\ ~Vetoed
                /\ session' = [session EXCEPT ![l] = Tracked(r)]
                /\ Enqueue(Op("created", l, Len(log), "queued"))
           ELSE session' = [session EXCEPT ![l] = r] /\ UNCHANGED chain

\* A session created fresh, or from a log that load() or inspect() returned.
CreateSession(l) ==
  /\ l \in Fresh /\ session[l].phase = "none"
  /\ \A k \in Fresh : k < l => session[k].phase # "none"
  /\ \E log \in {<<>>} \union {View(call[c].rev) : c \in {d \in Call : call[d].pc = "read"}} :
       Enter(l, log)
  /\ UNCHANGED <<disk, state, entry, retirement, service, call, acked, troubles>>

\* session/event: admitted to the controller, unless the plugin is unloading.
AppendEvent(l) ==
  /\ session[l].phase = "live" /\ MayAppend(l)
  /\ LET admits == service = "running" /\ session[l].tracked
     IN  session' = [session EXCEPT
           ![l].log = Append(@, l),
           ![l].admitted = IF admits THEN @ + 1 ELSE @,
           ![l].paused = @ /\ ~admits]
  /\ UNCHANGED <<disk, coordVars, call, acked, troubles>>

\* flush() of a consumer.
Flush(l) ==
  /\ service = "running" /\ session[l].phase = "live" /\ session[l].tracked
  /\ session' = [session EXCEPT ![l].waiters = @ \union {"flush"}, ![l].paused = FALSE]
  /\ UNCHANGED <<disk, coordVars, call, acked, troubles>>

\* session/disposed, and retire().
Retire(l) ==
  /\ session[l].phase = "live"
  /\ IF service = "running" /\ session[l].tracked
       THEN /\ session' = [session EXCEPT ![l].phase = "disposed",
                 ![l].retire = "draining", ![l].paused = FALSE,
                 ![l].waiters = @ \union {"retire"}]
            /\ retirement' = l
       ELSE /\ session' = [session EXCEPT ![l] =
                 IF session[l].tracked THEN [@ EXCEPT !.phase = "disposed"] ELSE Gone]
            /\ UNCHANGED retirement
  /\ UNCHANGED <<disk, state, entry, chain, service, call, acked, troubles>>

\* startWrite(): by the batching deadline, or by a barrier.
StartWrite(l) ==
  LET r == session[l]
  IN  /\ r.tracked /\ r.init = "ready" /\ r.writing = "none"
      /\ r.written < r.admitted
      /\ r.waiters # {} \/ ~r.paused
      /\ session' = [session EXCEPT ![l].writing =
           IF r.waiters = {} THEN "background" ELSE "barrier"]
      /\ Enqueue(Op("append", l, r.admitted, "append"))
      /\ UNCHANGED <<disk, state, entry, retirement, service, call, acked, troubles>>

\* Mutant: the failure does not reach the waiting flushes.
RefusedSilently(l, r) == [r EXCEPT !.failed = @ \/ "dispose" \in r.waiters]

\* The waiting flushes of l fail; a failed retirement keeps everything.
Refused(l, r) ==
  [r EXCEPT !.waiters = {}, !.failed = @ \/ "dispose" \in r.waiters,
            !.retire = IF "retire" \in r.waiters THEN "failed" ELSE @]
RetirementAfter(l, r) ==
  IF "retire" \in r.waiters /\ retirement = l THEN None ELSE retirement

FlushRefused(l) ==
  /\ session[l].init = "failed" /\ session[l].waiters # {}
  /\ session' = [session EXCEPT ![l] = Refused(l, @)]
  /\ retirement' = RetirementAfter(l, session[l])
  /\ UNCHANGED <<disk, state, entry, chain, service, call, acked, troubles>>

\* Mutant: the flush answers while its write is in flight.
DrainedOnceTaken(l) == session[l].writing # "none" \/ session[l].admitted = session[l].written

\* The write controller of l is empty.
Drained(l) == ~HasWork(l)

\* The barrier closes on an empty queue; retireCore() then serializes its end.
BarrierDone(l) ==
  LET r == session[l]
  IN  /\ r.init = "ready" /\ r.waiters # {} /\ Drained(l)
      /\ session' = [session EXCEPT ![l].waiters = {},
           ![l].retire = IF "retire" \in r.waiters THEN "forgetting" ELSE @]
      /\ acked' = IF r.admitted > Len(acked) THEN SubSeq(r.log, 1, r.admitted) ELSE acked
      /\ IF "retire" \in r.waiters
           THEN Enqueue(Op("forget", l, 0, "queued")) ELSE UNCHANGED chain
      /\ UNCHANGED <<disk, state, entry, retirement, service, call, troubles>>

-----------------------------------------------------------------------------
(* Operations of the chain, for a session *)

InitSettles(l, outcome) ==
  /\ session' = [session EXCEPT ![l].init = outcome]
  /\ chain' = Tail(chain)

Owned(cursor, l) ==
  [cursor |-> cursor, materialized |-> cursor > 0, owner |-> l, known |-> TRUE]

\* Mutant: an owner that has stored nothing is taken to have abandoned the id.
CollidesOnceStored == state.owner # None /\ state.materialized

\* The id belongs to another session, which stored or will store something.
Collides == state.owner # None /\ (state.materialized \/ HasWork(state.owner))

\* onCreated(): claim ownerless state, reclaim an abandoned id, adopt a stored
\* prefix of the seed, or begin a new log.
OnCreated ==
  /\ At("created", "queued")
  /\ LET l == Head(chain).of
         seed == SubSeq(session[l].log, 1, Head(chain).n)
         claim == state.known /\ state.owner = None
         claimable == IsPrefix(SubSeq(Logical(disk), 1, state.cursor), seed)
         stored == Logical(disk)
     IN  \/ /\ claim /\ claimable
            /\ state' = [state EXCEPT !.owner = l]
            /\ ToStage("append", <<>>) /\ UNCHANGED session
         \/ /\ Collides \/ (claim /\ ~claimable)
            /\ InitSettles(l, "failed") /\ UNCHANGED state
         \/ /\ ~claim /\ ~Collides
            /\ \/ /\ Exists /\ ~IsPrefix(stored, seed)
                  /\ InitSettles(l, "failed") /\ state' = NoState
               \/ /\ Exists /\ IsPrefix(stored, seed) /\ disk.torn
                  /\ ToStage("truncate", disk.tail) /\ state' = NoState /\ UNCHANGED session
               \/ /\ Exists /\ IsPrefix(stored, seed) /\ ~disk.torn
                  /\ state' = Owned(Len(stored), l)
                  /\ ToStage("append", <<>>) /\ UNCHANGED session
               \/ /\ ~Exists /\ entry # NoEntry       \* createCore() throws
                  /\ InitSettles(l, "failed") /\ state' = NoState
               \/ /\ ~Exists /\ entry = NoEntry
                  /\ state' = Owned(0, l)
                  /\ ToStage("append", <<>>) /\ UNCHANGED session
  /\ UNCHANGED <<disk, entry, retirement, service, call, acked, troubles>>

\* The head stores log entries of a session: appendLiveBatch() drops what the
\* cursor says is stored, the other callers of appendCore() start at the cursor.
Writing(stage) ==
  chain # <<>> /\ Head(chain).stage = stage /\ Head(chain).op \in {"created", "suffix", "append"}
From == IF Head(chain).op = "append" THEN session[Head(chain).of].written ELSE state.cursor
\* Mutant: the filter compares with > instead of >=.
BatchPastCursor == LET h == Head(chain)
                       from == IF From > state.cursor + 1 THEN From ELSE state.cursor + 1
                   IN  SubSeq(session[h.of].log, from + 1, h.n)

Batch == LET h == Head(chain)
             from == IF From > state.cursor THEN From ELSE state.cursor
         IN  SubSeq(session[h.of].log, from + 1, h.n)
Writable == entry.phase \notin {"committing", "reserved"}

Stored(l) ==
  /\ session' = [session EXCEPT ![l] =
       IF Head(chain).op = "append" THEN [@ EXCEPT !.written = Head(chain).n, !.writing = "none"]
       ELSE [@ EXCEPT !.init = "ready"]]
  /\ UNCHANGED retirement

\* A failed batch stays in the controller and fails the barrier that wrote it.
NotStored(l) ==
  LET r == session[l]
      kept == [r EXCEPT !.writing = "none", !.paused = TRUE]
  IN  IF Head(chain).op # "append"
        THEN session' = [session EXCEPT ![l].init = "failed"] /\ UNCHANGED retirement
      ELSE IF r.writing = "barrier"
        THEN /\ session' = [session EXCEPT ![l] = Refused(l, kept)]
             /\ retirement' = RetirementAfter(l, r)
      ELSE session' = [session EXCEPT ![l] = kept] /\ UNCHANGED retirement

\* appendCore() up to the backend call.
AppendCore ==
  /\ Writing("append")
  /\ LET l == Head(chain).of
     IN  \/ /\ Batch = <<>>
            /\ Stored(l) /\ chain' = Tail(chain)
         \/ /\ Batch # <<>> /\ (~Writable \/ From > state.cursor)
            /\ NotStored(l) /\ chain' = Tail(chain)
         \/ /\ Batch # <<>> /\ Writable /\ From <= state.cursor
            /\ ToStage("write", Batch)
            /\ UNCHANGED <<session, retirement>>
  /\ UNCHANGED <<disk, state, entry, service, call, acked, troubles>>

\* materialize() never writes over a log (rejectExistingLog).
Accepts == state.materialized \/ ~Exists

AppendSucceeds ==
  /\ Writing("write") /\ Quiet /\ Accepts
  /\ disk' = [disk EXCEPT !.events = @ \o Head(chain).batch]
  /\ state' = [state EXCEPT !.materialized = TRUE, !.cursor = @ + Len(Head(chain).batch)]
  /\ entry' = NoEntry /\ call' = Unheld        \* invalidate()
  /\ Stored(Head(chain).of) /\ chain' = NoLoad(Tail(chain))
  /\ UNCHANGED <<service, acked, troubles>>

\* The backend fails cleanly; or it publishes the first batch and then fails;
\* or it refuses to publish over that log when the batch is retried.
AppendFails ==
  /\ Writing("write") /\ Quiet
  /\ \/ /\ Accepts /\ Trouble
        /\ disk' \in {disk} \union
             (IF state.materialized THEN {} ELSE {[disk EXCEPT !.events = Head(chain).batch]})
     \/ ~Accepts /\ UNCHANGED <<disk, troubles>>
  /\ NotStored(Head(chain).of) /\ chain' = Tail(chain)
  /\ UNCHANGED <<state, entry, service, call, acked>>

\* forget(), for the exact retirement that has ended.
RetirementWithout(l) == IF retirement = l THEN None ELSE retirement

\* The end of retireCore().
Forget ==
  /\ At("forget", "queued")
  /\ LET l == Head(chain).of
     IN  /\ session' = [session EXCEPT ![l] = [Gone EXCEPT !.retire = "done"]]
         /\ state' = IF state.owner = l THEN NoState ELSE state
         /\ retirement' = RetirementWithout(l)
  /\ chain' = Tail(chain)
  /\ UNCHANGED <<disk, entry, service, call, acked, troubles>>

-----------------------------------------------------------------------------
(* prepare(), load() and inspect() *)

Begin(c, kind) ==
  /\ service = "running" /\ call[c].pc = "idle"
  /\ \A d \in Call : d < c => call[d].pc # "idle"
  /\ call' = [call EXCEPT ![c].pc = "wait", ![c].kind = kind, ![c].awaits = retirement]
  /\ UNCHANGED <<disk, coordVars, session, acked, troubles>>

\* What a call makes of a live session: prepare() throws, inspect() returns its
\* view, load() flushes it first (loadLiveSnapshot).
MeetsLive(c) ==
  IF call[c].kind # "load"
    THEN /\ call' = Ended(call, c, IF call[c].kind = "inspect" THEN "live" ELSE "failed")
         /\ UNCHANGED session
    ELSE \E l \in InRegistry :
         /\ call' = [call EXCEPT ![c].pc = "flushing", ![c].awaits = l]
         /\ session' = [session EXCEPT ![l].waiters = @ \union {"load"}, ![l].paused = FALSE]

\* waitForRetirement() is over: the call meets a live session, or joins or
\* starts a read.  A failed retirement fails it.
Proceed(c) ==
  /\ call[c].pc = "wait" /\ service # "closed"
  /\ \/ /\ Drain(c) = "failed"
        /\ call' = Ended(call, c, "failed") /\ UNCHANGED <<entry, chain, session>>
     \/ /\ Drain(c) = "done" /\ InRegistry # {}
        /\ MeetsLive(c) /\ UNCHANGED <<entry, chain>>
     \/ /\ Drain(c) = "done" /\ InRegistry = {}
        /\ call' = [call EXCEPT ![c].pc = "reading", ![c].holds = TRUE]
        /\ IF entry = NoEntry
             THEN /\ entry' = [NoEntry EXCEPT !.phase = "loading"]
                  /\ Enqueue(Op("load", None, 0, "queued"))
             ELSE UNCHANGED <<entry, chain>>
        /\ UNCHANGED session
  /\ UNCHANGED <<disk, state, retirement, service, acked, troubles>>

\* The flush of a live session that load() asked for has settled.
LiveLoaded(c) ==
  /\ call[c].pc = "flushing" /\ "load" \notin session[call[c].awaits].waiters
  /\ call' = Ended(call, c, "live")
  /\ UNCHANGED <<disk, coordVars, session, acked, troubles>>

\* prepareCore(): without a stored log the calls fail.
Load ==
  /\ At("load", "queued")
  /\ chain' = Tail(chain)
  /\ IF Exists
       THEN entry' = [phase |-> "ready", rev |-> disk] /\ UNCHANGED call
       ELSE /\ entry' = NoEntry
            /\ call' = [c \in Call |-> IF call[c].holds
                 THEN [Idle EXCEPT !.pc = "failed"] ELSE call[c]]
  /\ UNCHANGED <<disk, state, retirement, service, session, acked, troubles>>

\* reserve(): the first waiter takes the ready entry; one whose entry is gone
\* starts over.
Reserve(c) ==
  /\ call[c].pc = "reading" /\ call[c].kind \in {"prepare", "load"}
  /\ \/ /\ ~call[c].holds
        /\ call' = Restarted(call, c) /\ UNCHANGED <<entry, chain>>
     \/ /\ call[c].holds /\ entry.phase = "ready"
        /\ entry' = [entry EXCEPT !.phase = "committing"]
        /\ call' = [call EXCEPT ![c].pc = "committing", ![c].rev = entry.rev]
        /\ Enqueue(Op("commit", c, 0, "queued"))
  /\ UNCHANGED <<disk, state, retirement, service, session, acked, troubles>>

\* isPreparedSourceCurrent().
Current(rev) == rev = disk

\* commitPrepared(), up to the repair it may need.  The entry of a call can only
\* have gone with a change of the log, which is then not current.
Commit ==
  /\ At("commit", "queued")
  /\ LET c == Head(chain).of
         closers == Closers(Logical(call[c].rev))
     IN  \/ /\ state.owner # None
            /\ call' = Ended(CallsWithout(c), c, "failed") /\ entry' = EntryWithout(c)
            /\ chain' = Tail(chain) /\ UNCHANGED <<state, session>>
         \/ /\ state.owner = None /\ ~Current(call[c].rev)
            /\ call' = Restarted(CallsWithout(c), c) /\ entry' = EntryWithout(c)
            /\ chain' = Tail(chain) /\ UNCHANGED <<state, session>>
         \/ /\ state.owner = None /\ Current(call[c].rev)
            /\ disk.torn \/ closers # <<>>
            /\ ToStage(IF disk.torn THEN "truncate" ELSE "restore", disk.tail \o closers)
            /\ UNCHANGED <<state, session, entry, call>>
         \/ /\ state.owner = None /\ Current(call[c].rev)
            /\ ~disk.torn /\ closers = <<>> /\ call[c].holds
            /\ state' = Owned(Len(disk.events), None)
            /\ chain' = Tail(chain)
            /\ \/ /\ call[c].kind = "load"
                  /\ call' = [Ended(Unheld, c, "read") EXCEPT ![c].rev = call[c].rev]
                  /\ entry' = NoEntry /\ UNCHANGED session
               \/ /\ call[c].kind = "prepare"
                  /\ call' = [Ended(call, c, "reserved") EXCEPT ![c].holds = TRUE]
                  /\ entry' = [entry EXCEPT !.phase = "reserved"]
                  /\ session' = [session EXCEPT ![c].phase = "prepared", ![c].log = disk.events]
               \/ /\ call[c].kind = "prepare"       \* aborted meanwhile: makeReady()
                  /\ call' = Ended(call, c, "failed")
                  /\ entry' = [entry EXCEPT !.phase = "ready"] /\ UNCHANGED session
  /\ UNCHANGED <<disk, retirement, service, acked, troubles>>

\* commitRepair() in its two durable steps: truncate the torn tail, then append
\* the events recovered from it and the closers.
Repairing(stage) == chain # <<>> /\ Head(chain).stage = stage

\* Mutant: the offset is one event too low.
TruncatedLog == [disk EXCEPT !.torn = FALSE, !.tail = <<>>, !.events = SubSeq(@, 1, Len(@) - 1)]

\* The file without its torn tail.
Untorn == [disk EXCEPT !.torn = FALSE, !.tail = <<>>]

Truncate ==
  /\ Repairing("truncate") /\ Quiet
  /\ disk' = Untorn
  /\ ToStage("restore", Head(chain).batch)
  /\ UNCHANGED <<state, entry, retirement, service, session, call, acked, troubles>>

\* The repaired log is loaded again by a call; an adopting session owns it.
Restore ==
  /\ Repairing("restore") /\ Quiet
  /\ disk' = [disk EXCEPT !.events = @ \o Head(chain).batch]
  /\ IF Head(chain).op = "commit"
       THEN /\ call' = Restarted(CallsWithout(Head(chain).of), Head(chain).of)
            /\ entry' = EntryWithout(Head(chain).of)
            /\ chain' = Tail(chain) /\ UNCHANGED state
       ELSE /\ state' = Owned(Len(disk'.events), Head(chain).of)
            /\ ToStage("append", <<>>) /\ UNCHANGED <<call, entry>>
  /\ UNCHANGED <<retirement, service, session, acked, troubles>>

RepairFails ==
  /\ Repairing("truncate") \/ Repairing("restore")
  /\ Quiet
  /\ Trouble
  /\ chain' = Tail(chain)
  /\ IF Head(chain).op = "commit"
       THEN /\ call' = Ended(CallsWithout(Head(chain).of), Head(chain).of, "failed")
            /\ entry' = EntryWithout(Head(chain).of) /\ UNCHANGED session
       ELSE /\ session' = [session EXCEPT ![Head(chain).of].init = "failed"]
            /\ UNCHANGED <<call, entry>>
  /\ UNCHANGED <<disk, state, retirement, service, acked>>

\* inspect() borrows the view, then checks in the chain that it is current.
Borrow(c) ==
  /\ call[c].pc = "reading" /\ call[c].kind = "inspect"
  /\ \/ /\ ~call[c].holds
        /\ call' = Restarted(call, c) /\ UNCHANGED chain
     \/ /\ call[c].holds /\ entry.phase # "loading"
        /\ call' = [call EXCEPT ![c].pc = "checking", ![c].rev = entry.rev]
        /\ Enqueue(Op("check", c, 0, "queued"))
  /\ UNCHANGED <<disk, state, entry, retirement, service, session, acked, troubles>>

\* A stale view is discarded, unless a reservation holds on to it.
Check ==
  /\ At("check", "queued")
  /\ chain' = Tail(chain)
  /\ LET c == Head(chain).of
     IN  \/ /\ InRegistry # {}
            /\ call' = Ended(call, c, "live") /\ UNCHANGED entry
         \/ /\ InRegistry = {}
            /\ Current(call[c].rev) \/ (call[c].holds /\ entry.phase # "ready")
            /\ call' = [Ended(call, c, "read") EXCEPT ![c].rev = call[c].rev]
            /\ UNCHANGED entry
         \/ /\ InRegistry = {} /\ ~Current(call[c].rev)
            /\ call[c].holds => entry.phase = "ready"
            /\ call' = Restarted(CallsWithout(c), c) /\ entry' = EntryWithout(c)
  /\ UNCHANGED <<disk, state, retirement, service, session, acked, troubles>>

\* The caller's signal, before its queued operation has started.
Abort(c) ==
  /\ call[c].kind # "load"
  /\ \/ /\ call[c].pc \in {"wait", "reading"} /\ UNCHANGED <<entry, chain>>
        /\ call' = Ended(call, c, "failed")
     \/ \E i \in DOMAIN chain :
        /\ chain[i].of = c /\ chain[i].op \in {"commit", "check"} /\ chain[i].stage = "queued"
        /\ chain' = RemoveAt(chain, i)
        /\ \/ /\ chain[i].op = "commit"
              /\ entry' = EntryWithout(c) /\ call' = Ended(CallsWithout(c), c, "failed")
           \/ /\ chain[i].op = "check"
              /\ UNCHANGED entry /\ call' = Ended(call, c, "failed")
  /\ UNCHANGED <<disk, state, retirement, service, session, acked, troubles>>

\* The holder of a reservation appends to its session before publishing it.
AppendUnpublished(c) ==
  /\ call[c].pc = "reserved" /\ MayAppend(c)
  /\ session' = [session EXCEPT ![c].log = Append(@, c)]
  /\ UNCHANGED <<disk, coordVars, call, acked, troubles>>

\* attachPrepared(): the published session owns the state it was prepared with.
Publish(c) ==
  /\ call[c].pc = "reserved" /\ InRegistry = {}
  /\ IF service = "running" /\ call[c].holds
       THEN LET r == Tracked(session[c])
                suffix == Len(r.log) > state.cursor
            IN  /\ state.known /\ state.owner = None
                /\ state.cursor = Len(View(entry.rev))
                /\ state' = [state EXCEPT !.owner = c]
                /\ entry' = NoEntry
                /\ session' = [session EXCEPT ![c] = IF suffix THEN r ELSE [r EXCEPT !.init = "ready"]]
                /\ IF suffix THEN Enqueue(Op("suffix", c, Len(r.log), "append"))
                             ELSE UNCHANGED chain
                /\ call' = Ended(Unheld, c, "published")
       ELSE /\ Enter(c, session[c].log)
            /\ call' = Ended(call, c, "published") /\ UNCHANGED <<state, entry>>
  /\ UNCHANGED <<disk, retirement, service, acked, troubles>>

\* Mutant: a reusable entry is left reserved.
ReleasedEntryStuck(c) == entry

\* The entry after release(): reused if nothing was appended to its session.
ReleasedEntry(c) ==
  IF Len(session[c].log) = Len(View(entry.rev)) THEN [entry EXCEPT !.phase = "ready"] ELSE NoEntry

\* The preparation is disposed unpublished.
Release(c) ==
  /\ call[c].pc = "reserved"
  /\ session' = [session EXCEPT ![c] = Gone]
  /\ IF call[c].holds
       THEN /\ entry' = ReleasedEntry(c)
            /\ call' = Ended(IF ReleasedEntry(c) = NoEntry THEN Unheld ELSE call, c, "failed")
       ELSE call' = Ended(call, c, "failed") /\ UNCHANGED entry
  /\ UNCHANGED <<disk, state, chain, retirement, service, acked, troubles>>

\* Preparations of other ids push this one out of the cache.
Evict ==
  /\ entry.phase = "ready"
  /\ \A c \in Call : ~(call[c].pc = "reading" /\ call[c].holds)
  /\ entry' = NoEntry /\ call' = Unheld
  /\ UNCHANGED <<disk, state, chain, retirement, service, session, acked, troubles>>

-----------------------------------------------------------------------------
(* The plugin's disposal and reload, and the death of the process *)

\* Mutant: only the sessions of the registry are flushed.
FlushedAtDisposal(l) == l \in InRegistry /\ session[l].writing = "none"

\* The keys of the live map.
IsTracked(l) == session[l].tracked

\* The listeners are gone; every tracked session is flushed.
Dispose ==
  /\ service = "running" /\ service' = "disposing"
  /\ session' = [l \in Life |-> IF IsTracked(l)
       THEN [session[l] EXCEPT !.waiters = @ \union {"dispose"}, !.paused = FALSE]
       ELSE session[l]]
  /\ UNCHANGED <<disk, state, entry, chain, retirement, call, acked, troubles>>

\* The flushes have settled and no chain is left.
Close ==
  /\ service = "disposing" /\ chain = <<>> /\ Quiet
  /\ \A l \in Life : "dispose" \notin session[l].waiters
  /\ service' = "closed"
  /\ call' = [c \in Call |-> IF call[c].pc \in {"wait", "reading"}
       THEN [Idle EXCEPT !.pc = "failed"] ELSE call[c]]
  /\ UNCHANGED <<disk, state, entry, chain, retirement, session, acked, troubles>>

\* What is left of a session when the coordinator that tracked it is gone.
Untracked(r) ==
  IF r.phase = "disposed" THEN Gone ELSE [Unborn EXCEPT !.phase = r.phase, !.log = r.log]

\* A new coordinator sees the sessions that are still live.
Reload ==
  /\ service = "closed" /\ service' = "running"
  /\ Trouble
  /\ state' = NoState /\ entry' = NoEntry /\ retirement' = None
  /\ session' = [l \in Life |-> LET r == Untracked(session[l])
                                 IN  IF l \in InRegistry THEN Tracked(r) ELSE r]
  /\ chain' = IF InRegistry = {} THEN <<>>
              ELSE LET l == CHOOSE m \in InRegistry : TRUE
                   IN  <<Op("created", l, Len(session[l].log), "queued")>>
  /\ call' = Unheld
  /\ UNCHANGED <<disk, acked>>

\* What an interrupted append may leave: a first batch is stored as a whole or
\* not at all; later ones leave whole events, then possibly a torn one, or a
\* torn frame from which whole events can be recovered.
Torn(batch) ==
  LET plain(k, t) == [events |-> disk.events \o SubSeq(batch, 1, k),
                      tail |-> <<>>, torn |-> t /\ k < Len(batch)]
      frame(k) == [events |-> disk.events, tail |-> SubSeq(batch, 1, k), torn |-> TRUE]
  IN  IF ~Exists THEN {disk, [disk EXCEPT !.events = batch]}
      ELSE {plain(k, t) : k \in 0..Len(batch), t \in BOOLEAN}
             \union {frame(k) : k \in 0..Len(batch)}

\* The process dies and starts again.
Crash ==
  /\ Trouble
  /\ disk' \in IF Repairing("restore") \/ (Writing("write") /\ Accepts)
                 THEN Torn(Head(chain).batch) ELSE {disk}
  /\ state' = NoState /\ entry' = NoEntry /\ chain' = <<>> /\ retirement' = None
  /\ service' = "running"
  /\ session' = [l \in Life |-> IF session[l].phase = "none" THEN Unborn
                                ELSE Gone]
  /\ call' = [c \in Call |-> IF call[c].pc = "idle" THEN Idle ELSE [Idle EXCEPT !.pc = "failed"]]
  /\ UNCHANGED <<acked>>

-----------------------------------------------------------------------------
\* An earlier process left nothing, or a log that ends in a torn frame.
Init ==
  /\ disk \in {NoEntry.rev} \union
       {[events |-> <<0>>, tail |-> SubSeq(<<0>>, 1, k), torn |-> TRUE] : k \in {0, 1}}
  /\ state = NoState /\ entry = NoEntry /\ chain = <<>> /\ retirement = None
  /\ service = "running"
  /\ session = [l \in Life |-> Unborn] /\ call = [c \in Call |-> Idle]
  /\ acked = <<>> /\ troubles = 0

ChainStep ==
  \/ OnCreated \/ AppendCore \/ AppendSucceeds \/ AppendFails \/ Forget
  \/ Load \/ Commit \/ Truncate \/ Restore \/ RepairFails \/ Check

CallStep(c) == Proceed(c) \/ LiveLoaded(c) \/ Reserve(c) \/ Borrow(c) \/ Publish(c) \/ Release(c)
WriteStep(l) == StartWrite(l) \/ FlushRefused(l) \/ BarrierDone(l)

Next ==
  \/ ChainStep
  \/ \E l \in Life : CreateSession(l) \/ AppendEvent(l) \/ Flush(l) \/ Retire(l) \/ WriteStep(l)
  \/ \E c \in Call :
       \/ \E kind \in {"prepare", "load", "inspect"} : Begin(c, kind)
       \/ CallStep(c) \/ Abort(c) \/ AppendUnpublished(c)
  \/ Evict \/ Dispose \/ Close \/ Reload \/ Crash

Spec == Init /\ [][Next]_vars

\* The backend answers, due continuations run, and whoever holds a reservation
\* publishes it or gives it back (the agent factory disposes its preparation).
FairSpec ==
  /\ Spec /\ WF_vars(ChainStep) /\ WF_vars(Close)
  /\ \A c \in Call : WF_vars(CallStep(c))
  /\ \A l \in Life : WF_vars(WriteStep(l))

-----------------------------------------------------------------------------
(* Properties *)

TypeOK ==
  /\ disk \in [events : Seq(Life \union {0}), tail : Seq(Life \union {0}), torn : BOOLEAN]
  /\ state.owner \in Life \union {None} /\ state.cursor \in Nat
  /\ entry.phase \in {"none", "loading", "ready", "committing", "reserved"}
  /\ \A l \in Life : session[l].written <= session[l].admitted
                     /\ session[l].admitted <= Len(session[l].log)
  /\ \A c \in Call : call[c].holds => entry # NoEntry
  /\ retirement # None => session[retirement].retire \in {"draining", "forgetting"}

\* What a flush reported durable stays the beginning of the stored log, through
\* failed writes, repairs, later sessions of the same id and a crash.
AckedIsStored == IsPrefix(acked, disk.events)

\* The stored log is append-only: no step rewrites or drops a committed event.
StoredOnlyGrows == [][IsPrefix(disk.events, disk'.events)]_vars

\* The stored log never mixes two sessions: it is a prefix of its owner's log,
\* is not torn, ends at the owner's cursor, and only the owner is written.
StoreFollowsOwner ==
  /\ state.owner # None =>
       /\ ~disk.torn /\ IsPrefix(disk.events, session[state.owner].log)
       /\ state.materialized => state.cursor = Len(disk.events)
  /\ Writing("write") => Head(chain).of = state.owner

\* The cursor filter skips nothing: what left a controller is stored.
WrittenIsStored ==
  \A l \in Life : session[l].tracked /\ session[l].init = "ready" =>
    IsPrefix(SubSeq(session[l].log, 1, session[l].written), disk.events)

\* While a preparation is reserved, its session is exactly the stored log: it
\* is balanced, nobody writes under the holder, and no session of the id is live.
ReservationIsExact ==
  entry.phase = "reserved" =>
    /\ entry.rev = disk /\ ~disk.torn /\ Closers(disk.events) = <<>>
    /\ state.known /\ state.owner = None /\ state.cursor = Len(disk.events)
    /\ service = "running" => InRegistry = {}

\* What the coordinator remembers of the store is true at every await: of what
\* it has written, and of what it has lent to the holder of a reservation.
StoreInv == TypeOK /\ WrittenIsStored /\ ReservationIsExact

\* When the backend is closed, no operation is queued, and every admitted event
\* is stored or its flush reported a failure.
CloseIsQuiescent ==
  service = "closed" =>
    /\ chain = <<>>
    /\ \A l \in Life : session[l].tracked /\ HasWork(l) => session[l].failed

\* "A file here means a different session shares this id on disk" (comment of
\* rejectExistingLog): the log that materialization refuses is not the session's.
RefusedLogIsForeign ==
  Writing("write") /\ ~Accepts => ~IsPrefix(disk.events, session[Head(chain).of].log)

\* prepare(), load() and inspect() answer.
CallsAnswer == \A c \in Call : call[c].pc = "wait" ~>
                 call[c].pc \in {"reserved", "published", "read", "live", "failed"}

\* The plugin's disposal ends, whatever was in progress.
DisposalCloses == service = "disposing" ~> service # "disposing"
=============================================================================
