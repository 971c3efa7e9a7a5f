--------------------- MODULE PersistenceCoordinatorProofs ---------------------
(***************************************************************************)
(* Theorems about PersistenceCoordinator, for every number of sessions,    *)
(* calls, events and troubles: the stored log only grows, follows the      *)
(* session that owns it and keeps what a flush reported durable, what the  *)
(* coordinator remembers of it is true, and closing leaves nothing behind. *)
(*                                                                         *)
(* First the steps of prepare(), load() and inspect(), of the repair of a  *)
(* torn log, of the plugin's life and of the death of the process preserve *)
(* the invariant of PersistenceCoordinatorInvariant.                       *)
(***************************************************************************)
EXTENDS PersistenceCoordinatorInvariant

-----------------------------------------------------------------------------
(* prepare(), load() and inspect() *)

\* load() waits for a flush of the live session.
Joined(r) == [r EXCEPT !.waiters = r.waiters \union {"load"}, !.paused = FALSE]

\* Two calls commit, or hold a reservation, with an entry each.
HoldersApart(calls) ==
  \A c, d \in Call : calls[c].pc = calls[d].pc /\ calls[c].pc \in {"committing", "reserved"}
                     /\ calls[c].holds /\ calls[d].holds => c = d

\* A call goes on as before; unless it commits, it may lose its entry.
Spared(k, q) ==
  /\ q.pc = k.pc /\ q.rev = k.rev
  /\ q.holds => k.holds
  /\ k.pc = "committing" /\ k.holds => q.holds

\* A step of the calls in M: of the sessions it touches at most those of their
\* preparations and the waiters of the live one.
LEMMA CallsStep ==
  ASSUME IInv, Types', NEW M \in SUBSET Call,
         UNCHANGED <<disk, service, retirement, acked>>, OrderOK', EntryOK',
         \/ state' = state
         \/ state.owner = None /\ state'.owner = None /\ StateOK',
         \A m \in Life :
            \/ session'[m] = session[m]
            \/ service # "closed" /\ session[m].tracked /\ session'[m] = Joined(session[m])
            \/ /\ m \in M /\ ~session[m].tracked /\ ~session'[m].tracked /\ Controller(session'[m])
               /\ session'[m].phase \in {"prepared", "disposed"} /\ session'[m].writing = "none",
         \A d \in Call \ M : Spared(call[d], call'[d]),
         \A d \in M : \/ call'[d].pc \in {"published", "read", "live", "failed"}
                      \/ call'[d].pc # "reserved" /\ session'[d].phase = "none"
                      \/ /\ call'[d].pc = "reserved" /\ session'[d].phase = "prepared"
                         /\ Begins(disk.events, session'[d].log),
         \A d \in Call : call'[d].holds =>
            /\ entry'.phase # "none" /\ (entry'.phase = "loading" => call'[d].pc = "reading")
            /\ call'[d].pc \in {"committing", "reserved"} => entry'.phase = call'[d].pc,
         HoldersApart(call'),
         \A i \in DOMAIN chain' :
            \/ \E j \in DOMAIN chain :
                 /\ chain'[i] = chain[j] /\ (state' = state \/ j # 1)
                 /\ chain[j].op \in {"check", "commit"} => chain[j].of \notin M
                 /\ chain[j].op = "load" => entry'.phase = "loading"
                 /\ chain[j].op = "commit" /\ call'[chain[j].of].holds => entry'.rev = entry.rev
            \/ OpOK(chain[i])',
         \A j \in DOMAIN chain : chain[j].op = "append" => \E i \in DOMAIN chain' : chain'[i] = chain[j],
         service = "closed" => chain' = <<>> /\ \A d \in Call : call'[d].pc \notin {"wait", "reading"}
  PROVE  IInv'
<1> USE DEF IInv
<1>1. \A m \in Life : /\ session[m] \in SessionRecord /\ session'[m] \in SessionRecord
                      /\ Controller(session[m]) /\ WriterOK(m) /\ Begins(session[m].log, session[m].log)
  BY BeginsFacts DEF Types, SessionOK, SessionRecord
\* Of a tracked session, only the waiters change.
<1>2. ASSUME NEW m \in Life, session[m].tracked
      PROVE  /\ session'[m].tracked /\ session'[m].phase = session[m].phase /\ session'[m].log = session[m].log
             /\ session'[m].init = session[m].init /\ session'[m].admitted = session[m].admitted
             /\ session'[m].written = session[m].written /\ session'[m].writing = session[m].writing
             /\ session'[m].retire = session[m].retire /\ session'[m].failed = session[m].failed
             /\ \/ session'[m] = session[m]
                \/ service # "closed" /\ session'[m].waiters = session[m].waiters \union {"load"}
  <2>1. session[m] \in SessionRecord
    BY <1>1
  <2>2. CASE session'[m] = session[m]
    BY <1>2, <2>2
  <2>3. CASE session'[m] = Joined(session[m]) /\ service # "closed"
    <3> DEFINE r == session[m]
               q == session'[m]
    <3>1. q = [r EXCEPT !.waiters = r.waiters \union {"load"}, !.paused = FALSE]
      BY <2>3 DEF Joined
    <3> HIDE DEF q, r
    <3>2. /\ q.tracked = r.tracked /\ q.phase = r.phase /\ q.log = r.log
          /\ q.init = r.init /\ q.admitted = r.admitted /\ q.written = r.written
          /\ q.writing = r.writing /\ q.retire = r.retire /\ q.failed = r.failed
          /\ q.waiters = r.waiters \union {"load"}
      BY <2>1, <3>1 DEF SessionRecord, r
    <3> QED BY <1>2, <2>3, <3>2 DEF q, r
  <2> QED BY <1>2, <2>2, <2>3
<1>3. ASSUME NEW m \in Life, ~session[m].tracked
      PROVE  /\ ~session'[m].tracked /\ session'[m].waiters = {} /\ session'[m].init = "none"
             /\ session'[m].phase = "live" => session[m].phase = "live"
             /\ session'[m].writing # "none" => session'[m] = session[m]
             /\ m \notin M => session'[m] = session[m]
  BY <1>1, <1>3 DEF Controller
<1>4. Types' /\ state.owner = state'.owner
  OBVIOUS
<1>5. StateOK'
  <2>1. CASE state' = state
    <3>1. state.owner # None => state.owner \in Life /\ session[state.owner].tracked
      BY DEF StateOK, Types, StateRecord
    <3> QED BY <1>1, <1>2, <2>1, <3>1, StateFrame
  <2> QED BY <2>1
<1>6. SessionOK'
  <2> SUFFICES ASSUME NEW m \in Life PROVE Controller(session[m])' /\ WriterOK(m)'
    BY DEF SessionOK
  <2>1. CASE session[m].tracked
    <3>1. Controller(session'[m])
      BY <1>1, <1>2, <2>1 DEF Controller
    <3>2. state'.owner = m => state' = state
      BY NoneIsNoSession
    <3>3. WriterOK(m)'
      BY <1>1, <1>2, <1>4, <2>1, <3>2 DEF WriterOK
    <3> QED BY <3>1, <3>3
  <2>2. CASE ~session[m].tracked
    <3>1. Controller(session'[m])
      BY <1>1, <2>2
    <3> QED BY <1>3, <2>2, <3>1 DEF WriterOK
  <2> QED BY <2>1, <2>2
<1>7. \A m \in Life : session'[m].phase = "live" =>
        session[m].phase = "live" /\ session'[m].tracked = session[m].tracked
  <2> SUFFICES ASSUME NEW m \in Life, session'[m].phase = "live"
               PROVE  session[m].phase = "live" /\ session'[m].tracked = session[m].tracked
    OBVIOUS
  <2>1. session[m].tracked \in BOOLEAN /\ session'[m].tracked \in BOOLEAN
    BY <1>1 DEF SessionRecord
  <2> QED BY <1>2, <1>3, <2>1
<1>8. RegistryOK'
  <2>1. ASSUME retirement # None PROVE session'[retirement].retire \in {"draining", "forgetting"}
    <3>1. retirement \in Life /\ session[retirement].retire \in {"draining", "forgetting"}
      BY <2>1 DEF RegistryOK, Types
    <3>2. session[retirement].tracked
      BY <1>1, <3>1 DEF Controller
    <3> QED BY <1>2, <3>1, <3>2
  <2> QED BY <1>7, <2>1 DEF RegistryOK
<1>9. ASSUME NEW j \in DOMAIN chain, state' = state \/ j # 1,
             chain[j].op \in {"check", "commit"} => chain[j].of \notin M,
             chain[j].op = "load" => entry'.phase = "loading",
             chain[j].op = "commit" /\ call'[chain[j].of].holds => entry'.rev = entry.rev
      PROVE  Keeps(chain[j])
  <2>1. chain[j] \in OpRecord /\ OpOK(chain[j])
    BY ElementOfSeq, LenProperties DEF Types, ChainOK
  <2>2. ASSUME chain[j].op \in SessionOps PROVE Steady(session[chain[j].of], session'[chain[j].of])
    <3>1. chain[j].of \in Life /\ session[chain[j].of].tracked
      BY <2>2, OpsAreTracked
    <3> QED BY <1>1, <1>2, <3>1 DEF Steady, SessionRecord
  <2>3. chain[j].op = "created" /\ chain[j].stage = "queued" => state'.owner # chain[j].of
    BY <1>4, <2>1 DEF OpOK, CreatedOK
  <2>4. chain[j].op = "suffix" => state'.owner = chain[j].of /\ state'.materialized
    BY <2>1, NoneIsNoSession DEF OpOK, SuffixOK
  <2>5. chain[j].stage \in {"write", "truncate", "restore"} \/ (chain[j].op = "created" /\ chain[j].stage = "append") =>
          state' = state /\ disk' = disk
    <3>1. CASE j # 1
      <4>1. chain # <<>>
        BY LenProperties DEF Types
      <4>2. chain[j].stage = Waiting(chain[j].op)
        BY <3>1, <4>1, HeadFacts
      <4> QED BY <4>2 DEF Waiting
    <3> QED BY <1>9, <3>1
  <2>6. chain[j].op = "check" => call'[chain[j].of].pc = "checking"
    BY <1>9, <2>1 DEF OpOK, Spared
  <2>7. ASSUME chain[j].op = "commit"
        PROVE  /\ call'[chain[j].of].pc = "committing" /\ call'[chain[j].of].rev = call[chain[j].of].rev
               /\ IF call'[chain[j].of].holds THEN call[chain[j].of].holds /\ entry'.rev = entry.rev
                  ELSE chain[j].stage = "queued" /\ Len(call[chain[j].of].rev.events) < Len(disk'.events)
    <3>1. CommitOK(chain[j]) /\ chain[j].of \in Call \ M
      BY <1>9, <2>1, <2>7 DEF OpOK, CommitOK
    <3> QED BY <1>9, <2>7, <3>1 DEF CommitOK, Spared
  <2> QED BY <1>9, <2>2, <2>3, <2>4, <2>5, <2>6, <2>7 DEF Keeps, SessionOps
<1>10. ChainOK'
  BY <1>9, ChainFrame
<1>11. CallOK'
  <2>1. \A c \in Call : c \in Life
    BY DEF Life
  <2>2. ASSUME NEW c \in Call \ M, call[c].pc \notin {"published", "read", "live", "failed"}
        PROVE  session'[c].phase = session[c].phase /\ session'[c].log = session[c].log
    BY <1>2, <1>3, <2>1
  <2>3. \A c \in Call : call'[c].pc = "reserved" /\ call'[c].holds => Begins(disk'.events, session'[c].log)
    <3> SUFFICES ASSUME NEW c \in Call, call'[c].pc = "reserved", call'[c].holds
                 PROVE  Begins(disk.events, session'[c].log)
      OBVIOUS
    <3>1. CASE c \in M
      BY <3>1, <2>1
    <3>2. CASE c \notin M
      BY <2>2, <3>2 DEF CallOK, Spared
    <3> QED BY <3>1, <3>2
  <2>4. \A c \in Call : call'[c].pc = "reserved" => session'[c].phase = "prepared"
    BY <2>2 DEF CallOK, Spared
  <2>5. \A c \in Call : call'[c].pc \in {"idle", "wait", "flushing", "reading", "committing", "checking"} =>
            session'[c].phase = "none"
    BY <2>2 DEF CallOK, Spared
  <2> QED BY <2>3, <2>4, <2>5 DEF CallOK, HoldersApart
<1>12. FlushedOK'
  <2> SUFFICES ASSUME service # "running", NEW m \in Life, session'[m].tracked,
                      "dispose" \notin session'[m].waiters
               PROVE  Flushed(session'[m])
    BY DEF FlushedOK
  <2>1. session[m].tracked
    BY <1>3
  <2>2. "dispose" \notin session[m].waiters => Flushed(session[m])
    BY <2>1 DEF FlushedOK
  <2> QED BY <1>2, <2>1, <2>2 DEF Flushed
<1>13. InFlightOK'
  <2> SUFFICES ASSUME NEW m \in Life, session'[m].writing # "none"
               PROVE  \E i \in DOMAIN chain' : chain'[i].op = "append" /\ chain'[i].of = m
    BY DEF InFlightOK
  <2>1. session[m].writing # "none"
    BY <1>2, <1>3
  <2>2. PICK j \in DOMAIN chain : chain[j].op = "append" /\ chain[j].of = m
    BY <2>1 DEF InFlightOK
  <2> QED BY <2>2
<1>14. ClosedOK'
  <2> SUFFICES ASSUME service = "closed", NEW m \in Life
               PROVE  session'[m].waiters = {} /\ (session'[m].tracked => Flushed(session'[m]))
    BY DEF ClosedOK
  <2> QED BY <1>2, <1>3 DEF ClosedOK
<1> QED BY <1>5, <1>6, <1>8, <1>10, <1>11, <1>12, <1>13, <1>14

\* A call that has ended holds nothing.
LEMMA EndedFacts ==
  ASSUME NEW calls \in [Call -> CallRecord], NEW c \in Call,
         NEW result \in {"reserved", "published", "read", "live", "failed"}
  PROVE  /\ Ended(calls, c, result) \in [Call -> CallRecord]
         /\ \A d \in Call \ {c} : Ended(calls, c, result)[d] = calls[d]
         /\ Ended(calls, c, result)[c].pc = result /\ ~Ended(calls, c, result)[c].holds
<1> DEFINE e == [Idle EXCEPT !.pc = result]
<1>1. Idle \in CallRecord /\ ~Idle.holds
  BY BlankEntry DEF Idle, CallRecord
<1>2. e \in CallRecord /\ e.pc = result /\ ~e.holds
  BY <1>1 DEF CallRecord
<1>3. Ended(calls, c, result) = [calls EXCEPT ![c] = e]
  BY DEF Ended
<1> HIDE DEF e
<1> QED BY <1>2, <1>3

\* A call that starts over waits for the retirement in progress.
LEMMA RestartedFacts ==
  ASSUME Types, NEW calls \in [Call -> CallRecord], NEW c \in Call
  PROVE  /\ Restarted(calls, c) \in [Call -> CallRecord]
         /\ \A d \in Call \ {c} : Restarted(calls, c)[d] = calls[d]
         /\ Restarted(calls, c)[c].pc = "wait"
         /\ Restarted(calls, c)[c].holds = calls[c].holds
<1> DEFINE k == calls[c]
           e == [k EXCEPT !.pc = "wait", !.awaits = retirement, !.rev = NoEntry.rev]
<1>1. k \in CallRecord
  OBVIOUS
<1>2. Restarted(calls, c) = [calls EXCEPT ![c] = e]
  BY <1>1 DEF Restarted
<1> HIDE DEF k
<1>3. e \in CallRecord /\ e.pc = "wait" /\ e.holds = k.holds
  BY <1>1, BlankEntry DEF CallRecord, Types
<1> HIDE DEF e
<1> QED BY <1>2, <1>3 DEF k

\* A call gives up the entry it holds, if any.
LEMMA WithoutEntryFacts ==
  ASSUME IInv, NEW c \in Call
  PROVE  /\ CallsWithout(c) \in [Call -> CallRecord] /\ EntryWithout(c) \in EntryRecord
         /\ ~CallsWithout(c)[c].holds
         /\ \A d \in Call : /\ CallsWithout(c)[d].pc = call[d].pc /\ CallsWithout(c)[d].rev = call[d].rev
                            /\ CallsWithout(c)[d].holds => call[d].holds
                            /\ CallsWithout(c)[d].holds => EntryWithout(c) = entry
                            /\ ~call[c].holds => CallsWithout(c)[d] = call[d]
         /\ call[c].holds => EntryWithout(c) = NoEntry
         /\ ~call[c].holds => EntryWithout(c) = entry
<1>1. CASE call[c].holds
  <2>1. CallsWithout(c) = Unheld /\ EntryWithout(c) = NoEntry
    BY <1>1 DEF CallsWithout, EntryWithout
  <2> QED BY <1>1, <2>1, UnheldFacts, BlankEntry DEF IInv
<1>2. CASE ~call[c].holds
  <2>1. CallsWithout(c) = call /\ EntryWithout(c) = entry
    BY <1>2 DEF CallsWithout, EntryWithout
  <2> QED BY <1>2, <2>1 DEF IInv, Types
<1> QED BY <1>1, <1>2

\* A step of one call that leaves the entry and the chain alone.
LEMMA QuietCallStep ==
  ASSUME IInv, Types', NEW c \in Call,
         UNCHANGED <<disk, state, entry, chain, retirement, service, acked>>,
         \A m \in Life :
            \/ session'[m] = session[m]
            \/ service # "closed" /\ session[m].tracked /\ session'[m] = Joined(session[m])
            \/ /\ m = c /\ ~session[m].tracked /\ ~session'[m].tracked /\ Controller(session'[m])
               /\ session'[m].phase = "disposed" /\ session'[m].writing = "none",
         \A d \in Call \ {c} : call'[d] = call[d],
         call[c].pc \notin {"committing", "checking"},
         call'[c].pc \notin {"committing", "reserved"},
         call'[c].holds => entry.phase # "none" /\ (entry.phase = "loading" => call'[c].pc = "reading"),
         \/ call'[c].pc \in {"published", "read", "live", "failed"}
         \/ session'[c].phase = "none" /\ (service = "closed" => call'[c].pc \notin {"wait", "reading"})
  PROVE  IInv'
<1> USE DEF IInv
<1>1. \A m \in Life : session'[m].phase = "live" => session[m].phase = "live"
  <2> SUFFICES ASSUME NEW m \in Life, session'[m].phase = "live" PROVE session[m].phase = "live"
    OBVIOUS
  <2>1. session[m] \in SessionRecord
    BY DEF Types
  <2>2. CASE session'[m] = Joined(session[m])
    <3> DEFINE r == session[m]
               q == session'[m]
    <3>1. q = [r EXCEPT !.waiters = r.waiters \union {"load"}, !.paused = FALSE]
      BY <2>2 DEF Joined
    <3> HIDE DEF q, r
    <3>2. q.phase = r.phase
      BY <2>1, <3>1 DEF SessionRecord, r
    <3> QED BY <3>2 DEF q, r
  <2> QED BY <2>2
<1>2. OrderOK'
  BY <1>1, OrderKept
<1>3. EntryOK'
  BY <1>1, EntryFrame
<1>4. \A j \in DOMAIN chain : chain[j].op \in {"check", "commit"} => chain[j].of \notin {c}
  BY DEF ChainOK, OpOK, CommitOK
<1> DEFINE M == {c}
<1>5. M \in SUBSET Call
  OBVIOUS
<1>6. \A d \in Call \ M : call'[d] = call[d]
  OBVIOUS
<1>7. \A d \in M : \/ call'[d].pc \in {"published", "read", "live", "failed"}
                   \/ call'[d].pc # "reserved" /\ session'[d].phase = "none"
  OBVIOUS
<1>8. \A d \in Call : call'[d].holds =>
            /\ entry'.phase # "none" /\ (entry'.phase = "loading" => call'[d].pc = "reading")
            /\ call'[d].pc \in {"committing", "reserved"} => entry'.phase = call'[d].pc
  BY DEF CallOK
<1>9. HoldersApart(call')
  <2>1. \A a \in Call : call'[a].pc \in {"committing", "reserved"} => call'[a] = call[a]
    OBVIOUS
  <2> SUFFICES ASSUME NEW a \in Call, NEW d \in Call, call'[a].pc = call'[d].pc,
                      call'[a].pc \in {"committing", "reserved"}, call'[a].holds, call'[d].holds
               PROVE  a = d
    BY DEF HoldersApart
  <2>2. call'[a] = call[a] /\ call'[d] = call[d]
    BY <2>1
  <2> QED BY <2>2 DEF CallOK
<1>10. service = "closed" => chain' = <<>> /\ \A d \in Call : call'[d].pc \notin {"wait", "reading"}
  BY DEF ClosedOK
<1>11. \A m \in Life :
            \/ session'[m] = session[m]
            \/ service # "closed" /\ session[m].tracked /\ session'[m] = Joined(session[m])
            \/ /\ m \in M /\ ~session[m].tracked /\ ~session'[m].tracked /\ Controller(session'[m])
               /\ session'[m].phase \in {"prepared", "disposed"} /\ session'[m].writing = "none"
  OBVIOUS
<1>12. \A i \in DOMAIN chain' : \E j \in DOMAIN chain :
                 /\ chain'[i] = chain[j] /\ state' = state
                 /\ chain[j].op \in {"check", "commit"} => chain[j].of \notin M
                 /\ chain[j].op = "load" => entry'.phase = "loading"
                 /\ entry'.rev = entry.rev
  BY <1>4 DEF ChainOK, OpOK
<1>13. \A d \in Call \ M : Spared(call[d], call'[d])
  BY <1>6 DEF Spared
<1>14. \A d \in M : \/ call'[d].pc \in {"published", "read", "live", "failed"}
                    \/ call'[d].pc # "reserved" /\ session'[d].phase = "none"
                    \/ /\ call'[d].pc = "reserved" /\ session'[d].phase = "prepared"
                       /\ Begins(disk.events, session'[d].log)
  BY <1>7
<1>15. \A i \in DOMAIN chain' :
            \/ \E j \in DOMAIN chain :
                 /\ chain'[i] = chain[j] /\ (state' = state \/ j # 1)
                 /\ chain[j].op \in {"check", "commit"} => chain[j].of \notin M
                 /\ chain[j].op = "load" => entry'.phase = "loading"
                 /\ chain[j].op = "commit" /\ call'[chain[j].of].holds => entry'.rev = entry.rev
            \/ OpOK(chain[i])'
  BY <1>12
<1>16. \A j \in DOMAIN chain : chain[j].op = "append" => \E i \in DOMAIN chain' : chain'[i] = chain[j]
  OBVIOUS
<1>17. UNCHANGED <<disk, service, retirement, acked>>
  OBVIOUS
<1> HIDE DEF M, IInv
<1> QED BY <1>2, <1>3, <1>5, <1>8, <1>9, <1>10, <1>11, <1>13, <1>14, <1>15, <1>16, <1>17, CallsStep

\* A call begins.
LEMMA BeginPreserves ==
  ASSUME IInv, NEW c \in Call, NEW kind \in {"prepare", "load", "inspect"}, Begin(c, kind)
  PROVE  IInv'
<1> USE DEF IInv
<1> DEFINE k == call[c]
           e == [k EXCEPT !.pc = "wait", !.kind = kind, !.awaits = retirement]
<1>1. /\ UNCHANGED <<disk, state, entry, chain, retirement, service, session, acked, troubles>>
      /\ call' = [call EXCEPT ![c] = e] /\ k.pc = "idle" /\ k \in CallRecord /\ service = "running"
  BY DEF Begin, coordVars, Types
<1> HIDE DEF k
<1>2. e \in CallRecord /\ e.pc = "wait" /\ e.holds = k.holds
  BY <1>1 DEF CallRecord, Types
<1> HIDE DEF e
<1>3. call' \in [Call -> CallRecord] /\ call'[c] = e /\ \A d \in Call \ {c} : call'[d] = call[d]
  BY <1>1, <1>2 DEF Types
<1>4. Types'
  BY <1>1, <1>3 DEF Types
<1>5. session[c].phase = "none"
      /\ (call'[c].holds => entry.phase # "none" /\ (entry.phase = "loading" => call'[c].pc = "reading"))
  BY <1>1, <1>2, <1>3 DEF CallOK, k
<1> QED BY <1>1, <1>2, <1>3, <1>4, <1>5, QuietCallStep DEF k

\* load() of a live session ends when the flush it asked for has settled.
LEMMA LiveLoadedPreserves ==
  ASSUME IInv, NEW c \in Call, LiveLoaded(c)
  PROVE  IInv'
<1> USE DEF IInv
<1>1. /\ UNCHANGED <<disk, state, entry, chain, retirement, service, session, acked, troubles>>
      /\ call' = Ended(call, c, "live") /\ call[c].pc = "flushing" /\ call \in [Call -> CallRecord]
  BY DEF LiveLoaded, coordVars, Types
<1>2. call' \in [Call -> CallRecord] /\ call'[c].pc = "live" /\ ~call'[c].holds
      /\ \A d \in Call \ {c} : call'[d] = call[d]
  BY <1>1, EndedFacts
<1>3. Types'
  BY <1>1, <1>2 DEF Types
<1> QED BY <1>1, <1>2, <1>3, QuietCallStep

\* A call meets a live session, joins the read in progress or queues one.
LEMMA ProceedPreserves ==
  ASSUME IInv, NEW c \in Call, Proceed(c)
  PROVE  IInv'
<1> USE DEF IInv
<1>1. /\ call[c].pc = "wait" /\ service # "closed" /\ call \in [Call -> CallRecord]
      /\ UNCHANGED <<disk, state, retirement, service, acked, troubles>>
  BY DEF Proceed, Types
<1>2. session[c].phase = "none"
  BY <1>1 DEF CallOK
<1>3. ASSUME NEW result \in {"live", "failed"}, call' = Ended(call, c, result),
             UNCHANGED <<entry, chain, session>>
      PROVE  IInv'
  <2>1. call' \in [Call -> CallRecord] /\ call'[c].pc = result /\ ~call'[c].holds
        /\ \A d \in Call \ {c} : call'[d] = call[d]
    BY <1>1, <1>3, EndedFacts
  <2>2. Types'
    BY <1>1, <1>3, <2>1 DEF Types
  <2> QED BY <1>1, <1>3, <2>1, <2>2, QuietCallStep
<1>4. ASSUME NEW l \in InRegistry, UNCHANGED <<entry, chain>>,
             call' = [call EXCEPT ![c].pc = "flushing", ![c].awaits = l],
             session' = [session EXCEPT ![l].waiters = @ \union {"load"}, ![l].paused = FALSE]
      PROVE  IInv'
  <2> DEFINE k == call[c]
             e == [k EXCEPT !.pc = "flushing", !.awaits = l]
  <2>1. l \in Life /\ session[l].phase = "live" /\ session[l] \in SessionRecord
    BY <1>4 DEF InRegistry, Types
  <2>2. k \in CallRecord /\ call' = [call EXCEPT ![c] = e]
    BY <1>1, <1>4
  <2> HIDE DEF k
  <2>3. e \in CallRecord /\ e.pc = "flushing" /\ e.holds = k.holds
    BY <2>1, <2>2 DEF CallRecord
  <2> HIDE DEF e
  <2>4. call' \in [Call -> CallRecord] /\ call'[c] = e /\ \A d \in Call \ {c} : call'[d] = call[d]
    BY <1>1, <2>2, <2>3
  <2>5. session'[l] = Joined(session[l]) /\ \A m \in Life \ {l} : session'[m] = session[m]
    BY <1>4, <2>1 DEF Joined, Types, SessionRecord
  <2>6. Joined(session[l]) \in SessionRecord
    <3> DEFINE r == session[l]
    <3> HIDE DEF r
    <3>1. Joined(r) \in SessionRecord
      BY <2>1 DEF r, Joined, SessionRecord
    <3> QED BY <3>1 DEF r
  <2>7. session' \in [Life -> SessionRecord]
    BY <1>4, <2>1, <2>5, <2>6 DEF Types
  <2>8. Types'
    BY <1>1, <1>4, <2>4, <2>7 DEF Types
  \* Nobody enters the registry without being tracked, save while the plugin
  \* has been unloaded.
  <2>9. session[l].tracked
    BY <1>1, <2>1 DEF RegistryOK
  <2>10. c # l /\ c \in Life
    BY <1>2, <2>1 DEF Life
  <2>11. session'[c].phase = "none"
         /\ (call'[c].holds => entry.phase # "none" /\ (entry.phase = "loading" => call'[c].pc = "reading"))
    <3>1. session'[c].phase = "none"
      BY <1>2, <2>5, <2>10
    <3>2. call'[c].holds => call[c].holds /\ call[c].pc = "wait"
      BY <1>1, <2>3, <2>4 DEF k
    <3> QED BY <3>1, <3>2 DEF CallOK
  <2> QED BY <1>1, <1>4, <2>3, <2>4, <2>5, <2>8, <2>9, <2>11, QuietCallStep
<1>5. ASSUME InRegistry = {}, call' = [call EXCEPT ![c].pc = "reading", ![c].holds = TRUE],
             UNCHANGED session,
             \/ entry # NoEntry /\ UNCHANGED <<entry, chain>>
             \/ /\ entry = NoEntry /\ entry' = [NoEntry EXCEPT !.phase = "loading"]
                /\ Enqueue(Op("load", None, 0, "queued"))
      PROVE  IInv'
  <2> DEFINE k == call[c]
             e == [k EXCEPT !.pc = "reading", !.holds = TRUE]
  <2>1. k \in CallRecord /\ call' = [call EXCEPT ![c] = e]
    BY <1>1, <1>5
  <2> HIDE DEF k
  <2>2. e \in CallRecord /\ e.pc = "reading" /\ e.holds
    BY <2>1 DEF CallRecord
  <2> HIDE DEF e
  <2>3. call' \in [Call -> CallRecord] /\ call'[c] = e /\ \A d \in Call \ {c} : call'[d] = call[d]
    BY <1>1, <2>1, <2>2
  <2>4. CASE entry # NoEntry /\ UNCHANGED <<entry, chain>>
    <3>1. Types'
      BY <1>1, <1>5, <2>3, <2>4 DEF Types
    <3>2. entry.phase # "none"
      <4>1. entry \in EntryRecord /\ (entry.phase = "none" => entry.rev = NoEntry.rev)
        BY DEF Types, EntryOK
      <4>2. NoEntry \in EntryRecord /\ NoEntry.phase = "none"
        BY BlankEntry
      <4> QED BY <2>4, <4>1, <4>2 DEF EntryRecord
    <3> QED BY <1>1, <1>2, <1>5, <2>2, <2>3, <2>4, <3>1, <3>2, QuietCallStep
  <2>5. CASE /\ entry = NoEntry /\ entry' = [NoEntry EXCEPT !.phase = "loading"]
             /\ Enqueue(Op("load", None, 0, "queued"))
    <3>1. PICK o \in OpRecord : /\ o = Op("load", None, 0, "queued")
                                /\ o.op = "load" /\ o.of = None /\ o.stage = "queued"
      BY NewOp
    <3>2. chain' = Append(chain, o) /\ chain \in Seq(OpRecord)
      BY <2>5, <3>1 DEF Enqueue, Types
    <3>3. /\ chain' \in Seq(OpRecord) /\ DOMAIN chain' = DOMAIN chain \union {Len(chain) + 1}
          /\ \A i \in DOMAIN chain : chain'[i] = chain[i]
          /\ chain'[Len(chain) + 1] = o
      BY <3>2, AppendFacts
    <3>4. entry' \in EntryRecord /\ entry'.phase = "loading" /\ entry'.rev = entry.rev
          /\ entry.phase = "none" /\ entry.rev = NoEntry.rev
      <4>1. NoEntry \in EntryRecord /\ NoEntry.phase = "none"
        BY BlankEntry
      <4> QED BY <2>5, <4>1 DEF EntryRecord
    <3>5. Types'
      BY <1>1, <1>5, <2>3, <3>3, <3>4 DEF Types
    <3>6. \A i \in DOMAIN chain : chain[i].op # "load"
      BY <3>4 DEF ChainOK, OpOK
    <3>7. OrderOK'
      <4>1. \A i \in DOMAIN chain : ~Alike(chain[i], o)
        BY <3>1, <3>6 DEF Alike
      <4> QED BY <1>1, <1>5, <3>1, <3>2, <3>5, <4>1, OrderAppended DEF Waiting
    <3>8. EntryOK'
      BY <1>1, <1>5, <3>4 DEF EntryOK, InRegistry
    <3>9. OpOK(o)'
      BY <3>1, <3>4 DEF OpOK
    <3>10. \A d \in Call : ~call[d].holds
      BY <3>4 DEF CallOK
    <3> DEFINE M == {c}
    <3>11. \A j \in DOMAIN chain : chain[j].op \in {"check", "commit"} => chain[j].of \notin M
      BY <1>1 DEF ChainOK, OpOK, CommitOK
    <3>12. \A i \in DOMAIN chain' :
            \/ \E j \in DOMAIN chain :
                 /\ chain'[i] = chain[j] /\ (state' = state \/ j # 1)
                 /\ chain[j].op \in {"check", "commit"} => chain[j].of \notin M
                 /\ chain[j].op = "load" => entry'.phase = "loading"
                 /\ chain[j].op = "commit" /\ call'[chain[j].of].holds => entry'.rev = entry.rev
            \/ OpOK(chain[i])'
      BY <1>1, <3>3, <3>4, <3>9, <3>11
    <3>13. \A j \in DOMAIN chain : chain[j].op = "append" => \E i \in DOMAIN chain' : chain'[i] = chain[j]
      BY <3>3
    <3>14. \A d \in Call : call'[d].holds => call'[d].pc = "reading"
      BY <2>2, <2>3, <3>10
    <3>15. /\ M \in SUBSET Call /\ \A d \in Call \ M : call'[d] = call[d]
           /\ \A d \in M : call'[d].pc # "reserved" /\ session'[d].phase = "none"
      BY <1>2, <1>5, <2>2, <2>3
    <3>16. \A d \in Call \ M : Spared(call[d], call'[d])
      BY <3>15 DEF Spared
    <3>17. \A d \in Call : call'[d].holds =>
             /\ entry'.phase # "none" /\ (entry'.phase = "loading" => call'[d].pc = "reading")
             /\ call'[d].pc \in {"committing", "reserved"} => entry'.phase = call'[d].pc
      BY <3>4, <3>14
    <3>18. HoldersApart(call')
      BY <3>14 DEF HoldersApart
    <3>19. \A m \in Life :
            \/ session'[m] = session[m]
            \/ service # "closed" /\ session[m].tracked /\ session'[m] = Joined(session[m])
            \/ /\ m \in M /\ ~session[m].tracked /\ ~session'[m].tracked /\ Controller(session'[m])
               /\ session'[m].phase \in {"prepared", "disposed"} /\ session'[m].writing = "none"
      BY <1>5
    <3>20. \A d \in M : \/ call'[d].pc \in {"published", "read", "live", "failed"}
                        \/ call'[d].pc # "reserved" /\ session'[d].phase = "none"
                        \/ /\ call'[d].pc = "reserved" /\ session'[d].phase = "prepared"
                           /\ Begins(disk.events, session'[d].log)
      BY <3>15
    <3>21. M \in SUBSET Call
      BY <3>15
    <3> HIDE DEF M
    <3> QED BY <1>1, <3>5, <3>7, <3>8, <3>12, <3>13, <3>16, <3>17, <3>18, <3>19, <3>20, <3>21, CallsStep
  <2> QED BY <1>5, <2>4, <2>5
<1> QED
  <2>1. CASE call' = Ended(call, c, "failed") /\ UNCHANGED <<entry, chain, session>>
    BY <1>3, <2>1
  <2>2. CASE MeetsLive(c) /\ UNCHANGED <<entry, chain>>
    BY <1>3, <1>4, <2>2 DEF MeetsLive
  <2>3. CASE /\ InRegistry = {} /\ call' = [call EXCEPT ![c].pc = "reading", ![c].holds = TRUE]
             /\ IF entry = NoEntry
                  THEN /\ entry' = [NoEntry EXCEPT !.phase = "loading"]
                       /\ Enqueue(Op("load", None, 0, "queued"))
                  ELSE UNCHANGED <<entry, chain>>
             /\ UNCHANGED session
    BY <1>5, <2>3
  <2> QED BY <2>1, <2>2, <2>3 DEF Proceed

\* A call gives up its entry, and ends or starts over.
LEMMA GivesUp ==
  ASSUME IInv, NEW c \in Call, entry' = EntryWithout(c),
         call' = Ended(CallsWithout(c), c, "failed") \/ call' = Restarted(CallsWithout(c), c),
         call[c].holds => entry.phase = "ready" \/ call[c].pc = "committing"
  PROVE  /\ call' \in [Call -> CallRecord] /\ entry' \in EntryRecord
         /\ ~call'[c].holds /\ call'[c].pc \in {"wait", "failed"}
         /\ \/ entry' = entry /\ \A d \in Call \ {c} : call'[d] = call[d]
            \/ /\ entry' = NoEntry /\ entry.phase # "loading"
               /\ \A d \in Call \ {c} : Spared(call[d], call'[d]) /\ ~call'[d].holds
<1> USE DEF IInv
<1> DEFINE w == CallsWithout(c)
<1>1. /\ w \in [Call -> CallRecord] /\ EntryWithout(c) \in EntryRecord /\ ~w[c].holds
      /\ \A d \in Call : /\ w[d].pc = call[d].pc /\ w[d].rev = call[d].rev
                         /\ w[d].holds => call[d].holds
                         /\ ~call[c].holds => w[d] = call[d]
      /\ call[c].holds => EntryWithout(c) = NoEntry
      /\ ~call[c].holds => EntryWithout(c) = entry
  BY WithoutEntryFacts
<1>2. call[c].holds => \A d \in Call : ~w[d].holds
  BY UnheldFacts DEF CallsWithout
<1> HIDE DEF w
<1>3. /\ call' \in [Call -> CallRecord] /\ ~call'[c].holds /\ call'[c].pc \in {"wait", "failed"}
      /\ \A d \in Call \ {c} : call'[d] = w[d]
  <2>1. CASE call' = Ended(w, c, "failed")
    BY <1>1, <2>1, EndedFacts
  <2>2. CASE call' = Restarted(w, c)
    BY <1>1, <2>2, RestartedFacts
  <2> QED BY <2>1, <2>2 DEF w
<1>4. CASE ~call[c].holds
  BY <1>1, <1>3, <1>4
<1>5. CASE call[c].holds
  <2>1. entry' = NoEntry /\ entry.phase # "loading"
    BY <1>1, <1>5 DEF CallOK
  <2>2. ASSUME NEW d \in Call \ {c} PROVE Spared(call[d], call'[d]) /\ ~call'[d].holds
    <3>1. call'[d] = w[d] /\ ~w[d].holds /\ w[d].pc = call[d].pc /\ w[d].rev = call[d].rev
      BY <1>1, <1>2, <1>3, <1>5
    \* No other call commits with that entry.
    <3>2. call[d].pc = "committing" => ~call[d].holds
      BY <1>5 DEF CallOK
    <3> QED BY <3>1, <3>2 DEF Spared
  <2> QED BY <1>1, <1>3, <2>1, <2>2
<1> QED BY <1>4, <1>5

\* The operation of a call leaves the chain, and the call gives up its entry.
LEMMA CallLeaves ==
  ASSUME IInv, Types', NEW c \in Call, NEW k \in DOMAIN chain,
         chain[k].of = c, chain[k].op \in {"commit", "check"}, IsWithout(chain', chain, k),
         UNCHANGED <<disk, state, retirement, service, session, acked>>,
         \/ entry' = entry /\ \A d \in Call \ {c} : call'[d] = call[d]
         \/ /\ entry' = NoEntry /\ entry.phase # "loading"
            /\ \A d \in Call \ {c} : Spared(call[d], call'[d]) /\ ~call'[d].holds,
         ~call'[c].holds, call'[c].pc \in {"wait", "read", "live", "failed"}
  PROVE  IInv'
<1> USE DEF IInv
<1>1. chain \in Seq(OpRecord) /\ chain' \in Seq(OpRecord)
  BY DEF Types
<1>2. /\ \A i \in DOMAIN chain' : Kept(i, k) \in DOMAIN chain \ {k} /\ chain'[i] = chain[Kept(i, k)]
      /\ \A j \in DOMAIN chain \ {k} : \E i \in DOMAIN chain' : chain'[i] = chain[j]
  BY <1>1, WithoutFacts
<1>3. OpOK(chain[k]) /\ session[c].phase = "none" /\ service # "closed"
  <2>1. OpOK(chain[k]) /\ call[c].pc \in {"committing", "checking"}
    BY DEF ChainOK, OpOK, CommitOK
  <2> QED BY <2>1 DEF CallOK, ClosedOK
<1>4. OrderOK'
  <2>1. state.owner # None => state.owner \in Life
    BY DEF Types, StateRecord
  <2>2. \A i \in DOMAIN chain' : chain'[i].op = "created" /\ state'.owner \notin {None, chain'[i].of} =>
            session'[state'.owner].phase # "live"
    BY <1>2 DEF OrderOK
  <2> QED BY <2>2, OrderRemoved
<1>5. EntryOK'
  <2>1. CASE entry' = entry
    BY <1>2, <2>1, EntryFrame
  <2>2. CASE entry' = NoEntry
    BY <2>2, BlankEntry DEF EntryOK
  <2> QED BY <2>1, <2>2
<1> DEFINE M == {c}
<1>6. M \in SUBSET Call
  OBVIOUS
<1>7. \A d \in Call \ M : Spared(call[d], call'[d])
  BY DEF Spared
<1>8. \A d \in M : \/ call'[d].pc \in {"published", "read", "live", "failed"}
                   \/ call'[d].pc # "reserved" /\ session'[d].phase = "none"
                   \/ /\ call'[d].pc = "reserved" /\ session'[d].phase = "prepared"
                      /\ Begins(disk.events, session'[d].log)
  BY <1>3
<1>9. \A d \in Call : call'[d].holds => d # c /\ entry' = entry /\ call'[d] = call[d]
  OBVIOUS
<1>10. \A d \in Call : call'[d].holds =>
            /\ entry'.phase # "none" /\ (entry'.phase = "loading" => call'[d].pc = "reading")
            /\ call'[d].pc \in {"committing", "reserved"} => entry'.phase = call'[d].pc
  BY <1>9 DEF CallOK
<1>11. HoldersApart(call')
  <2> SUFFICES ASSUME NEW a \in Call, NEW d \in Call, call'[a].pc = call'[d].pc,
                      call'[a].pc \in {"committing", "reserved"}, call'[a].holds, call'[d].holds
               PROVE  a = d
    BY DEF HoldersApart
  <2>1. call'[a] = call[a] /\ call'[d] = call[d]
    BY <1>9
  <2> QED BY <2>1 DEF CallOK
<1>12. \A i \in DOMAIN chain' :
            \/ \E j \in DOMAIN chain :
                 /\ chain'[i] = chain[j] /\ (state' = state \/ j # 1)
                 /\ chain[j].op \in {"check", "commit"} => chain[j].of \notin M
                 /\ chain[j].op = "load" => entry'.phase = "loading"
                 /\ chain[j].op = "commit" /\ call'[chain[j].of].holds => entry'.rev = entry.rev
            \/ OpOK(chain[i])'
  <2> SUFFICES ASSUME NEW j \in DOMAIN chain \ {k}
               PROVE  /\ chain[j].op \in {"check", "commit"} => chain[j].of # c
                      /\ chain[j].op = "load" => entry'.phase = "loading"
                      /\ chain[j].op = "commit" /\ call'[chain[j].of].holds => entry'.rev = entry.rev
    BY <1>2
  <2>1. OpOK(chain[j]) /\ ~Alike(chain[j], chain[k])
    BY DEF ChainOK, OrderOK
  <2>2. chain[j].op \in {"check", "commit"} => chain[j].of # c
    <3>1. chain[j].op = "check" => call[chain[j].of].pc = "checking"
      BY <2>1 DEF OpOK
    <3>2. chain[j].op = "commit" => call[chain[j].of].pc = "committing"
      BY <2>1 DEF OpOK, CommitOK
    <3>3. /\ chain[k].op = "check" => call[c].pc = "checking"
          /\ chain[k].op = "commit" => call[c].pc = "committing"
      BY <1>3 DEF OpOK, CommitOK
    <3> QED BY <2>1, <3>1, <3>2, <3>3 DEF Alike
  <2>3. chain[j].op = "load" => entry.phase = "loading"
    BY <2>1 DEF OpOK
  <2>4. chain[j].op = "commit" => chain[j].of \in Call
    BY <2>1 DEF OpOK, CommitOK
  <2> QED BY <1>9, <2>2, <2>3, <2>4
<1>13. \A j \in DOMAIN chain : chain[j].op = "append" => \E i \in DOMAIN chain' : chain'[i] = chain[j]
  BY <1>2
<1>14. UNCHANGED <<disk, service, retirement, acked>> /\ state' = state /\ \A m \in Life : session'[m] = session[m]
  OBVIOUS
<1> HIDE DEF M, IInv
<1> QED BY <1>3, <1>4, <1>5, <1>6, <1>7, <1>8, <1>10, <1>11, <1>12, <1>13, <1>14, CallsStep

\* The view of inspect() is current, or is read again.
LEMMA CheckPreserves ==
  ASSUME IInv, Check
  PROVE  IInv'
<1> USE DEF IInv
<1>1. /\ chain # <<>> /\ Head(chain).op = "check" /\ chain' = Tail(chain)
      /\ UNCHANGED <<disk, state, retirement, service, session, acked, troubles>>
  BY DEF Check, At
<1>2. /\ Head(chain) = chain[1] /\ 1 \in DOMAIN chain /\ OpOK(Head(chain))
      /\ chain' \in Seq(OpRecord) /\ IsWithout(chain', chain, 1)
  BY <1>1, HeadFacts
<1>3. PICK c \in Call : c = Head(chain).of /\ call[c].pc = "checking"
  BY <1>1, <1>2 DEF OpOK
<1>4. call \in [Call -> CallRecord]
  BY DEF Types
<1>5. ASSUME NEW calls \in [Call -> CallRecord], call' = calls,
             ~calls[c].holds, calls[c].pc \in {"wait", "read", "live", "failed"}, entry' \in EntryRecord,
             \/ entry' = entry /\ \A d \in Call \ {c} : calls[d] = call[d]
             \/ /\ entry' = NoEntry /\ entry.phase # "loading"
                /\ \A d \in Call \ {c} : Spared(call[d], calls[d]) /\ ~calls[d].holds
      PROVE  IInv'
  <2>1. Types'
    BY <1>1, <1>2, <1>5 DEF Types
  <2> QED BY <1>1, <1>2, <1>3, <1>5, <2>1, CallLeaves
<1>6. CASE call' = Ended(call, c, "live") /\ UNCHANGED entry
  <2>1. /\ call' \in [Call -> CallRecord] /\ call'[c].pc = "live" /\ ~call'[c].holds
        /\ \A d \in Call \ {c} : call'[d] = call[d]
    BY <1>4, <1>6, EndedFacts
  <2>2. entry' \in EntryRecord
    BY <1>6 DEF Types
  <2> QED BY <1>5, <1>6, <2>1, <2>2
<1>7. CASE call' = [Ended(call, c, "read") EXCEPT ![c].rev = call[c].rev] /\ UNCHANGED entry
  <2> DEFINE e == Ended(call, c, "read")
             k == e[c]
             q == [k EXCEPT !.rev = call[c].rev]
  <2>1. /\ e \in [Call -> CallRecord] /\ e[c].pc = "read" /\ ~e[c].holds
        /\ \A d \in Call \ {c} : e[d] = call[d]
    BY <1>4, EndedFacts
  <2>2. call' = [e EXCEPT ![c] = q] /\ k \in CallRecord /\ call[c].rev \in Revision
    BY <1>4, <1>7, <2>1 DEF CallRecord
  <2> HIDE DEF e, k
  <2>3. q \in CallRecord /\ q.pc = k.pc /\ q.holds = k.holds
    BY <2>2 DEF CallRecord
  <2> HIDE DEF q
  <2>4. /\ call' \in [Call -> CallRecord] /\ call'[c] = q /\ \A d \in Call \ {c} : call'[d] = call[d]
    BY <2>1, <2>2, <2>3
  <2>5. call'[c].pc = "read" /\ ~call'[c].holds /\ entry' \in EntryRecord
    BY <1>7, <2>1, <2>3, <2>4 DEF k, Types
  <2> QED BY <1>5, <1>7, <2>4, <2>5
<1>8. CASE call' = Restarted(CallsWithout(c), c) /\ entry' = EntryWithout(c)
           /\ (call[c].holds => entry.phase = "ready")
  <2>1. /\ call' \in [Call -> CallRecord] /\ entry' \in EntryRecord
        /\ ~call'[c].holds /\ call'[c].pc \in {"wait", "failed"}
        /\ \/ entry' = entry /\ \A d \in Call \ {c} : call'[d] = call[d]
           \/ /\ entry' = NoEntry /\ entry.phase # "loading"
              /\ \A d \in Call \ {c} : Spared(call[d], call'[d]) /\ ~call'[d].holds
    BY <1>8, GivesUp
  <2> QED BY <1>5, <2>1
<1> QED BY <1>1, <1>3, <1>6, <1>7, <1>8 DEF Check

\* A reader goes on to commit or to check the entry it holds.
LEMMA CallQueues ==
  ASSUME IInv, Types', NEW c \in Call, NEW o \in OpRecord, o.of = c, o.stage = "queued",
         chain' = Append(chain, o), call[c].pc = "reading", call[c].holds, call'[c].holds,
         UNCHANGED <<disk, state, retirement, service, session, acked>>,
         \A d \in Call \ {c} : call'[d] = call[d],
         entry'.rev = entry.rev, call'[c].rev = entry.rev,
         \/ /\ o.op = "commit" /\ call'[c].pc = "committing"
            /\ entry.phase = "ready" /\ entry'.phase = "committing"
         \/ /\ o.op = "check" /\ call'[c].pc = "checking"
            /\ entry' = entry /\ entry.phase # "loading"
  PROVE  IInv'
<1> USE DEF IInv
<1>1. /\ chain \in Seq(OpRecord) /\ DOMAIN chain' = DOMAIN chain \union {Len(chain) + 1}
      /\ \A i \in DOMAIN chain : chain'[i] = chain[i]
      /\ chain'[Len(chain) + 1] = o
  BY AppendFacts DEF Types
<1>2. /\ session[c].phase = "none" /\ service # "closed" /\ entry.phase # "none"
      /\ entry.phase # "loading" /\ entry.rev.events # <<>>
      /\ \A l \in Life : service = "running" => session[l].phase # "live"
  <2>1. session[c].phase = "none" /\ service # "closed" /\ entry.phase # "none"
    BY DEF CallOK, ClosedOK
  <2> QED BY <2>1 DEF EntryOK
<1>3. \A j \in DOMAIN chain : chain[j].op \in {"check", "commit"} => chain[j].of # c
  BY DEF ChainOK, OpOK, CommitOK
<1>4. OrderOK'
  <2>1. \A i \in DOMAIN chain : ~Alike(chain[i], o)
    BY <1>3 DEF Alike
  <2> QED BY <2>1, OrderAppended DEF Waiting
<1>5. EntryOK'
  <2>1. CASE entry' = entry
    <3>1. \A i \in DOMAIN chain' : chain'[i].op = "created" => \E j \in DOMAIN chain : chain[j].op = "created"
      BY <1>1
    <3> QED BY <2>1, <3>1, EntryFrame
  <2>2. CASE entry.phase = "ready" /\ entry'.phase = "committing"
    <3>1. /\ entry'.rev.events # <<>> /\ Len(entry'.rev.events) <= Len(disk'.events)
          /\ \A i \in DOMAIN chain : chain[i].op # "created"
      BY <2>2 DEF EntryOK
    <3>2. \A i \in DOMAIN chain' : chain'[i].op # "created"
      BY <1>1, <3>1
    <3> QED BY <1>2, <2>2, <3>1, <3>2 DEF EntryOK
  <2> QED BY <2>1, <2>2
<1>6. OpOK(o)'
  <2>1. o.op = "commit" => CommitOK(o)'
    BY <1>2 DEF CommitOK
  <2> QED BY <2>1 DEF OpOK
<1> DEFINE M == {c}
<1>7. M \in SUBSET Call
  OBVIOUS
<1>8. \A d \in Call \ M : Spared(call[d], call'[d])
  BY DEF Spared
<1>9. \A d \in M : \/ call'[d].pc \in {"published", "read", "live", "failed"}
                   \/ call'[d].pc # "reserved" /\ session'[d].phase = "none"
                   \/ /\ call'[d].pc = "reserved" /\ session'[d].phase = "prepared"
                      /\ Begins(disk.events, session'[d].log)
  BY <1>2
<1>10. \A d \in Call : call'[d].holds =>
            /\ entry'.phase # "none" /\ (entry'.phase = "loading" => call'[d].pc = "reading")
            /\ call'[d].pc \in {"committing", "reserved"} => entry'.phase = call'[d].pc
  BY <1>2 DEF CallOK
<1>11. HoldersApart(call')
  <2> SUFFICES ASSUME NEW a \in Call, NEW d \in Call, call'[a].pc = call'[d].pc,
                      call'[a].pc \in {"committing", "reserved"}, call'[a].holds, call'[d].holds
               PROVE  a = d
    BY DEF HoldersApart
  <2>1. CASE a # c /\ d # c
    <3>1. call'[a] = call[a] /\ call'[d] = call[d]
      BY <2>1
    <3> QED BY <3>1 DEF CallOK
  <2>2. CASE a = c \/ d = c
    <3>1. \A b \in Call \ {c} : call[b].holds => call[b].pc # "committing" \/ entry.phase = "committing"
      BY DEF CallOK
    <3> QED BY <2>2, <3>1
  <2> QED BY <2>1, <2>2
<1>12. \A i \in DOMAIN chain' :
            \/ \E j \in DOMAIN chain :
                 /\ chain'[i] = chain[j] /\ (state' = state \/ j # 1)
                 /\ chain[j].op \in {"check", "commit"} => chain[j].of \notin M
                 /\ chain[j].op = "load" => entry'.phase = "loading"
                 /\ chain[j].op = "commit" /\ call'[chain[j].of].holds => entry'.rev = entry.rev
            \/ OpOK(chain[i])'
  <2>1. \A j \in DOMAIN chain : chain[j].op # "load"
    BY <1>2 DEF ChainOK, OpOK
  <2> QED BY <1>1, <1>3, <1>6, <2>1
<1>13. \A j \in DOMAIN chain : chain[j].op = "append" => \E i \in DOMAIN chain' : chain'[i] = chain[j]
  BY <1>1
<1>14. UNCHANGED <<disk, service, retirement, acked>> /\ state' = state /\ \A m \in Life : session'[m] = session[m]
  OBVIOUS
<1> HIDE DEF M, IInv
<1> QED BY <1>2, <1>4, <1>5, <1>7, <1>8, <1>9, <1>10, <1>11, <1>12, <1>13, <1>14, CallsStep

\* The first waiter takes the ready entry and queues its commit.
LEMMA ReservePreserves ==
  ASSUME IInv, NEW c \in Call, Reserve(c)
  PROVE  IInv'
<1> USE DEF IInv
<1>1. /\ call[c].pc = "reading" /\ call \in [Call -> CallRecord] /\ entry \in EntryRecord
      /\ UNCHANGED <<disk, state, retirement, service, session, acked, troubles>>
  BY DEF Reserve, Types
<1>2. session[c].phase = "none" /\ service # "closed"
  BY <1>1 DEF CallOK, ClosedOK
<1>3. CASE ~call[c].holds /\ call' = Restarted(call, c) /\ UNCHANGED <<entry, chain>>
  <2>1. /\ call' \in [Call -> CallRecord] /\ call'[c].pc = "wait" /\ ~call'[c].holds
        /\ \A d \in Call \ {c} : call'[d] = call[d]
    BY <1>1, <1>3, RestartedFacts
  <2>2. Types'
    BY <1>1, <1>3, <2>1 DEF Types
  <2> QED BY <1>1, <1>2, <1>3, <2>1, <2>2, QuietCallStep
<1>4. CASE /\ call[c].holds /\ entry.phase = "ready"
           /\ entry' = [entry EXCEPT !.phase = "committing"]
           /\ call' = [call EXCEPT ![c].pc = "committing", ![c].rev = entry.rev]
           /\ Enqueue(Op("commit", c, 0, "queued"))
  <2> DEFINE k == call[c]
             e == [k EXCEPT !.pc = "committing", !.rev = entry.rev]
  <2>1. k \in CallRecord /\ call' = [call EXCEPT ![c] = e] /\ entry.rev \in Revision
    BY <1>1, <1>4 DEF EntryRecord
  <2> HIDE DEF k
  <2>2. e \in CallRecord /\ e.pc = "committing" /\ e.holds = k.holds /\ e.rev = entry.rev
    BY <2>1 DEF CallRecord
  <2> HIDE DEF e
  <2>3. call' \in [Call -> CallRecord] /\ call'[c] = e /\ \A d \in Call \ {c} : call'[d] = call[d]
    BY <1>1, <2>1, <2>2
  <2>4. entry' \in EntryRecord /\ entry'.phase = "committing" /\ entry'.rev = entry.rev
    BY <1>1, <1>4 DEF EntryRecord
  <2>5. PICK o \in OpRecord : /\ o = Op("commit", c, 0, "queued")
                              /\ o.op = "commit" /\ o.of = c /\ o.stage = "queued"
    <3>1. c \in Life \union {None}
      BY DEF Life
    <3> QED BY <3>1, NewOp
  <2>6. chain' = Append(chain, o) /\ chain' \in Seq(OpRecord)
    BY <1>4, <2>5, AppendFacts DEF Enqueue, Types
  <2>7. Types'
    BY <1>1, <2>3, <2>4, <2>6 DEF Types
  <2>8. call'[c].holds /\ call'[c].pc = "committing" /\ call'[c].rev = entry.rev
    BY <1>4, <2>2, <2>3 DEF k
  <2> QED BY <1>1, <1>4, <2>3, <2>4, <2>5, <2>6, <2>7, <2>8, CallQueues
<1> QED BY <1>3, <1>4 DEF Reserve

\* inspect() takes the view and queues its check.
LEMMA BorrowPreserves ==
  ASSUME IInv, NEW c \in Call, Borrow(c)
  PROVE  IInv'
<1> USE DEF IInv
<1>1. /\ call[c].pc = "reading" /\ call \in [Call -> CallRecord] /\ entry \in EntryRecord
      /\ UNCHANGED <<disk, state, entry, retirement, service, session, acked, troubles>>
  BY DEF Borrow, Types
<1>2. session[c].phase = "none" /\ service # "closed"
  BY <1>1 DEF CallOK, ClosedOK
<1>3. CASE ~call[c].holds /\ call' = Restarted(call, c) /\ UNCHANGED chain
  <2>1. /\ call' \in [Call -> CallRecord] /\ call'[c].pc = "wait" /\ ~call'[c].holds
        /\ \A d \in Call \ {c} : call'[d] = call[d]
    BY <1>1, <1>3, RestartedFacts
  <2>2. Types'
    BY <1>1, <1>3, <2>1 DEF Types
  <2> QED BY <1>1, <1>2, <1>3, <2>1, <2>2, QuietCallStep
<1>4. CASE /\ call[c].holds /\ entry.phase # "loading"
           /\ call' = [call EXCEPT ![c].pc = "checking", ![c].rev = entry.rev]
           /\ Enqueue(Op("check", c, 0, "queued"))
  <2> DEFINE k == call[c]
             e == [k EXCEPT !.pc = "checking", !.rev = entry.rev]
  <2>1. k \in CallRecord /\ call' = [call EXCEPT ![c] = e] /\ entry.rev \in Revision
    BY <1>1, <1>4 DEF EntryRecord
  <2> HIDE DEF k
  <2>2. e \in CallRecord /\ e.pc = "checking" /\ e.holds = k.holds /\ e.rev = entry.rev
    BY <2>1 DEF CallRecord
  <2> HIDE DEF e
  <2>3. call' \in [Call -> CallRecord] /\ call'[c] = e /\ \A d \in Call \ {c} : call'[d] = call[d]
    BY <1>1, <2>1, <2>2
  <2>4. PICK o \in OpRecord : /\ o = Op("check", c, 0, "queued")
                              /\ o.op = "check" /\ o.of = c /\ o.stage = "queued"
    <3>1. c \in Life \union {None}
      BY DEF Life
    <3> QED BY <3>1, NewOp
  <2>5. chain' = Append(chain, o) /\ chain' \in Seq(OpRecord)
    BY <1>4, <2>4, AppendFacts DEF Enqueue, Types
  <2>6. Types'
    BY <1>1, <2>3, <2>5 DEF Types
  <2>7. call'[c].holds /\ call'[c].pc = "checking" /\ call'[c].rev = entry.rev
    BY <1>4, <2>2, <2>3 DEF k
  <2> QED BY <1>1, <1>4, <2>3, <2>4, <2>5, <2>6, <2>7, CallQueues
<1> QED BY <1>3, <1>4 DEF Borrow

\* An aborted call leaves the chain, unless its operation has begun.
LEMMA AbortPreserves ==
  ASSUME IInv, NEW c \in Call, Abort(c)
  PROVE  IInv'
<1> USE DEF IInv
<1>1. /\ call \in [Call -> CallRecord]
      /\ UNCHANGED <<disk, state, retirement, service, session, acked, troubles>>
  BY DEF Abort, Types
<1>2. CASE call[c].pc \in {"wait", "reading"} /\ UNCHANGED <<entry, chain>> /\ call' = Ended(call, c, "failed")
  <2>1. /\ call' \in [Call -> CallRecord] /\ call'[c].pc = "failed" /\ ~call'[c].holds
        /\ \A d \in Call \ {c} : call'[d] = call[d]
    BY <1>1, <1>2, EndedFacts
  <2>2. Types'
    BY <1>1, <1>2, <2>1 DEF Types
  <2> QED BY <1>1, <1>2, <2>1, <2>2, QuietCallStep
<1>3. ASSUME NEW i \in DOMAIN chain, chain[i].of = c, chain[i].op \in {"commit", "check"},
             chain' = RemoveAt(chain, i),
             \/ /\ chain[i].op = "commit"
                /\ entry' = EntryWithout(c) /\ call' = Ended(CallsWithout(c), c, "failed")
             \/ UNCHANGED entry /\ call' = Ended(call, c, "failed")
      PROVE  IInv'
  <2>1. chain' \in Seq(OpRecord) /\ IsWithout(chain', chain, i)
    <3>1. chain \in Seq(OpRecord) /\ i \in 1..Len(chain)
      BY <1>3, LenProperties DEF Types
    <3> QED BY <1>3, <3>1, RemoveAtIsWithout
  <2>2. /\ call' \in [Call -> CallRecord] /\ entry' \in EntryRecord
        /\ ~call'[c].holds /\ call'[c].pc \in {"wait", "failed"}
        /\ \/ entry' = entry /\ \A d \in Call \ {c} : call'[d] = call[d]
           \/ /\ entry' = NoEntry /\ entry.phase # "loading"
              /\ \A d \in Call \ {c} : Spared(call[d], call'[d]) /\ ~call'[d].holds
    <3>1. CASE /\ chain[i].op = "commit"
               /\ entry' = EntryWithout(c) /\ call' = Ended(CallsWithout(c), c, "failed")
      <4>1. call[c].pc = "committing"
        BY <1>3, <3>1 DEF ChainOK, OpOK, CommitOK
      <4> QED BY <3>1, <4>1, GivesUp
    <3>2. CASE UNCHANGED entry /\ call' = Ended(call, c, "failed")
      <4>1. entry' \in EntryRecord
        BY <3>2 DEF Types
      <4> QED BY <1>1, <3>2, <4>1, EndedFacts
    <3> QED BY <1>3, <3>1, <3>2
  <2>3. Types'
    BY <1>1, <2>1, <2>2 DEF Types
  <2> QED BY <1>1, <1>3, <2>1, <2>2, <2>3, CallLeaves
<1> QED BY <1>2, <1>3 DEF Abort

\* The queued read ends: its entry is ready, or the calls that wait for it fail.
LEMMA LoadPreserves ==
  ASSUME IInv, Load
  PROVE  IInv'
<1> USE DEF IInv
<1>1. /\ chain # <<>> /\ Head(chain).op = "load" /\ chain' = Tail(chain)
      /\ UNCHANGED <<disk, state, retirement, service, session, acked, troubles>>
  BY DEF Load, At
<1>2. /\ Head(chain) = chain[1] /\ 1 \in DOMAIN chain /\ OpOK(Head(chain)) /\ service # "closed"
      /\ chain' \in Seq(OpRecord) /\ IsWithout(chain', chain, 1)
  BY <1>1, HeadFacts
<1>3. entry.phase = "loading" /\ Head(chain).of = None
  BY <1>1, <1>2 DEF OpOK
\* Nobody has come further than to read the entry, and no onCreated() waits.
<1>4. /\ \A c \in Call : call[c].holds => call[c].pc = "reading"
      /\ \A j \in DOMAIN chain \ {1} : chain[j].op \notin {"load", "created"}
  <2>1. \A j \in DOMAIN chain \ {1} : j > 1 /\ ~Alike(chain[j], Head(chain)) /\ OpOK(chain[j])
    BY <1>1, HeadFacts
  <2>2. \A j \in DOMAIN chain \ {1} : chain[j].op # "load"
    BY <1>1, <1>3, <2>1 DEF OpOK, Alike
  <2>3. \A j \in DOMAIN chain \ {1} : chain[j].op # "created"
    <3>1. \A j \in DOMAIN chain : chain[j].op = "created" => j < 1
      BY <1>1, <1>2 DEF OrderOK
    <3>2. \A j \in DOMAIN chain : j \in Nat
      BY LenProperties DEF Types
    <3> QED BY <2>1, <3>1, <3>2
  <2> QED BY <1>3, <2>2, <2>3 DEF CallOK
<1>5. /\ \A i \in DOMAIN chain' : \E j \in DOMAIN chain \ {1} : chain'[i] = chain[j]
      /\ \A j \in DOMAIN chain \ {1} : \E i \in DOMAIN chain' : chain'[i] = chain[j]
  BY <1>1, TailFacts
<1>6. \A m \in Life : service = "running" => session[m].phase # "live"
  BY <1>3 DEF EntryOK
<1>7. disk \in Revision /\ disk.events \in Seq(Event) /\ Len(disk.events) \in Nat
  BY LenProperties DEF Types, Revision
<1>8. /\ entry' \in EntryRecord
      /\ IF Exists THEN entry'.phase = "ready" /\ entry'.rev = disk ELSE entry' = NoEntry
  <2>1. CASE Exists
    BY <1>7, <2>1 DEF Load, EntryRecord
  <2>2. CASE ~Exists
    BY <2>2, BlankEntry DEF Load
  <2> QED BY <2>1, <2>2
<1>9. EntryOK'
  <2>1. CASE Exists
    <3>1. \A i \in DOMAIN chain' : chain'[i].op # "created"
      BY <1>4, <1>5
    <3>2. entry'.phase = "ready" /\ entry'.rev = disk /\ entry'.rev.events # <<>>
          /\ Len(entry'.rev.events) <= Len(disk.events)
      BY <1>7, <1>8, <2>1 DEF Exists
    <3> QED BY <1>1, <1>6, <3>1, <3>2 DEF EntryOK
  <2>2. CASE ~Exists
    BY <1>8, <2>2, BlankEntry DEF EntryOK
  <2> QED BY <2>1, <2>2
\* The calls that fail, for want of a log.
<1> DEFINE M == {c \in Call : call[c].holds /\ ~Exists}
<1>10. M \in SUBSET Call
  OBVIOUS
<1>11. /\ call' \in [Call -> CallRecord]
       /\ \A d \in Call \ M : call'[d] = call[d]
       /\ \A d \in M : call'[d].pc = "failed" /\ ~call'[d].holds
  <2>1. CASE Exists
    BY <2>1 DEF Load, Types
  <2>2. CASE ~Exists
    <3> DEFINE k == [Idle EXCEPT !.pc = "failed"]
    <3>1. Idle \in CallRecord /\ ~Idle.holds
      BY BlankEntry DEF Idle, CallRecord
    <3>2. k \in CallRecord /\ k.pc = "failed" /\ ~k.holds
      BY <3>1 DEF CallRecord
    <3>3. call' = [c \in Call |-> IF call[c].holds THEN k ELSE call[c]]
      BY <2>2 DEF Load
    <3> HIDE DEF k
    <3>4. \A d \in Call : call'[d] = IF call[d].holds THEN k ELSE call[d]
      BY <3>3
    <3> QED BY <2>2, <3>2, <3>3, <3>4 DEF Types
  <2> QED BY <2>1, <2>2
<1>12. Types'
  BY <1>1, <1>2, <1>8, <1>11 DEF Types
<1>13. OrderOK'
  <2>1. \A i \in DOMAIN chain' : chain'[i].op # "created"
    BY <1>4, <1>5
  <2> QED BY <1>1, <1>2, <1>12, <2>1, OrderRemoved
<1>14. \A d \in Call : call'[d].holds => call'[d] = call[d] /\ call[d].pc = "reading" /\ Exists
  BY <1>4, <1>11
<1>15. \A d \in Call \ M : Spared(call[d], call'[d])
  BY <1>11 DEF Spared
<1>16. \A d \in M : call[d].pc = "reading"
  BY <1>4
<1>17. \A d \in M : \/ call'[d].pc \in {"published", "read", "live", "failed"}
                    \/ call'[d].pc # "reserved" /\ session'[d].phase = "none"
                    \/ /\ call'[d].pc = "reserved" /\ session'[d].phase = "prepared"
                       /\ Begins(disk.events, session'[d].log)
  BY <1>11
<1>18. \A d \in Call : call'[d].holds =>
            /\ entry'.phase # "none" /\ (entry'.phase = "loading" => call'[d].pc = "reading")
            /\ call'[d].pc \in {"committing", "reserved"} => entry'.phase = call'[d].pc
  BY <1>8, <1>14
<1>19. HoldersApart(call')
  BY <1>14 DEF HoldersApart
<1>20. \A i \in DOMAIN chain' :
            \/ \E j \in DOMAIN chain :
                 /\ chain'[i] = chain[j] /\ (state' = state \/ j # 1)
                 /\ chain[j].op \in {"check", "commit"} => chain[j].of \notin M
                 /\ chain[j].op = "load" => entry'.phase = "loading"
                 /\ chain[j].op = "commit" /\ call'[chain[j].of].holds => entry'.rev = entry.rev
            \/ OpOK(chain[i])'
  <2>1. \A j \in DOMAIN chain : chain[j].op \in {"check", "commit"} =>
          chain[j].of \in Call /\ call[chain[j].of].pc # "reading"
    BY DEF ChainOK, OpOK, CommitOK
  <2> HIDE DEF M
  <2> QED BY <1>1, <1>4, <1>5, <1>14, <1>16, <2>1
<1>21. \A j \in DOMAIN chain : chain[j].op = "append" => \E i \in DOMAIN chain' : chain'[i] = chain[j]
  BY <1>1, <1>2, <1>5
<1> HIDE DEF M, IInv
<1> QED BY <1>1, <1>2, <1>13, <1>9, <1>10, <1>12, <1>15, <1>17, <1>18, <1>19, <1>20, <1>21, CallsStep

\* The cache drops a ready entry that nobody waits for.
LEMMA EvictPreserves ==
  ASSUME IInv, Evict
  PROVE  IInv'
<1> USE DEF IInv
<1>1. /\ entry.phase = "ready" /\ entry' = NoEntry /\ call' = Unheld
      /\ UNCHANGED <<disk, state, chain, retirement, service, session, acked, troubles>>
  BY DEF Evict
<1>2. Types'
  BY <1>1, UnheldFacts, BlankEntry DEF Types
<1>3. \A d \in Call : ~call'[d].holds /\ call'[d].pc = call[d].pc /\ call'[d].rev = call[d].rev
  BY <1>1, UnheldFacts
<1>4. OrderOK'
  BY <1>1, <1>2, OrderKept
<1>5. EntryOK'
  BY <1>1, BlankEntry DEF EntryOK
<1> DEFINE M == {}
<1>6. M \in SUBSET Call /\ \A d \in M : FALSE
  OBVIOUS
<1>7. \A d \in Call \ M : Spared(call[d], call'[d])
  BY <1>1, <1>3 DEF Spared, CallOK
<1>8. HoldersApart(call')
  BY <1>3 DEF HoldersApart
<1>9. \A i \in DOMAIN chain' :
            \/ \E j \in DOMAIN chain :
                 /\ chain'[i] = chain[j] /\ (state' = state \/ j # 1)
                 /\ chain[j].op \in {"check", "commit"} => chain[j].of \notin M
                 /\ chain[j].op = "load" => entry'.phase = "loading"
                 /\ chain[j].op = "commit" /\ call'[chain[j].of].holds => entry'.rev = entry.rev
            \/ OpOK(chain[i])'
  <2>1. \A j \in DOMAIN chain : /\ chain[j].op # "load"
                                /\ chain[j].op = "commit" => chain[j].of \in Call
    BY <1>1 DEF ChainOK, OpOK, CommitOK
  <2> QED BY <1>1, <1>3, <2>1
<1>10. service = "closed" => chain' = <<>> /\ \A d \in Call : call'[d].pc \notin {"wait", "reading"}
  BY <1>1, <1>3 DEF ClosedOK
<1> HIDE DEF M, IInv
<1> QED BY <1>1, <1>2, <1>3, <1>4, <1>5, <1>6, <1>7, <1>8, <1>9, <1>10, CallsStep

\* A reservation that is given back becomes ready again, or goes.
LEMMA ReleasePreserves ==
  ASSUME IInv, NEW c \in Call, Release(c)
  PROVE  IInv'
<1> USE DEF IInv
<1>1. /\ call[c].pc = "reserved" /\ call \in [Call -> CallRecord] /\ entry \in EntryRecord
      /\ session' = [session EXCEPT ![c] = Gone] /\ c \in Life
      /\ UNCHANGED <<disk, state, chain, retirement, service, acked, troubles>>
  BY DEF Release, Types, Life
<1>2. session' \in [Life -> SessionRecord] /\ session'[c] = Gone /\ \A m \in Life \ {c} : session'[m] = session[m]
  BY <1>1, BlankRecords DEF Types
<1>3. Controller(Gone) /\ Len(<<>>) = 0
  BY BlankRecords DEF Controller
<1>4. session[c].phase = "prepared" /\ ~session[c].tracked
  BY <1>1 DEF CallOK, SessionOK, Controller
<1>5. \A m \in Life :
            \/ session'[m] = session[m]
            \/ service # "closed" /\ session[m].tracked /\ session'[m] = Joined(session[m])
            \/ /\ m = c /\ ~session[m].tracked /\ ~session'[m].tracked /\ Controller(session'[m])
               /\ session'[m].phase = "disposed" /\ session'[m].writing = "none"
  BY <1>2, <1>3, <1>4, BlankRecords
<1>6. CASE ~call[c].holds
  <2>1. call' = Ended(call, c, "failed") /\ entry' = entry
    BY <1>6 DEF Release
  <2>2. /\ call' \in [Call -> CallRecord] /\ call'[c].pc = "failed" /\ ~call'[c].holds
        /\ \A d \in Call \ {c} : call'[d] = call[d]
    BY <1>1, <2>1, EndedFacts
  <2>3. Types'
    BY <1>1, <1>2, <2>1, <2>2 DEF Types
  <2> QED BY <1>1, <1>5, <2>1, <2>2, <2>3, QuietCallStep
<1>7. CASE call[c].holds
  <2>1. entry' = ReleasedEntry(c) /\ entry.phase = "reserved"
    BY <1>1, <1>7 DEF Release, CallOK
  <2>2. /\ entry' \in EntryRecord
        /\ entry' = NoEntry \/ (entry'.phase = "ready" /\ entry'.rev = entry.rev)
    BY <1>1, <2>1, BlankEntry DEF ReleasedEntry, EntryRecord
  <2>3. /\ call' \in [Call -> CallRecord] /\ call'[c].pc = "failed" /\ ~call'[c].holds
        /\ \A d \in Call \ {c} : /\ call'[d].pc = call[d].pc /\ call'[d].rev = call[d].rev
                                 /\ call'[d].holds => call[d].holds /\ entry' # NoEntry
    <3> DEFINE w == IF ReleasedEntry(c) = NoEntry THEN Unheld ELSE call
    <3>1. call' = Ended(w, c, "failed")
      BY <1>7 DEF Release
    <3>2. w \in [Call -> CallRecord]
      BY <1>1, UnheldFacts
    <3>3. \A d \in Call : /\ w[d].pc = call[d].pc /\ w[d].rev = call[d].rev
                          /\ w[d].holds => call[d].holds /\ entry' # NoEntry
      BY <2>1, UnheldFacts
    <3> HIDE DEF w
    <3>4. /\ call' \in [Call -> CallRecord] /\ call'[c].pc = "failed" /\ ~call'[c].holds
          /\ \A d \in Call \ {c} : call'[d] = w[d]
      BY <3>1, <3>2, EndedFacts
    <3> QED BY <3>3, <3>4
  <2>4. Types'
    BY <1>1, <1>2, <2>2, <2>3 DEF Types
  <2>5. \A m \in Life : session'[m].phase = "live" => session[m].phase = "live"
    BY <1>2, BlankRecords
  <2>6. OrderOK'
    BY <1>1, <2>4, <2>5, OrderKept
  <2>7. EntryOK'
    <3>1. CASE entry' = NoEntry
      BY <3>1, BlankEntry DEF EntryOK
    <3>2. CASE entry'.phase = "ready" /\ entry'.rev = entry.rev
      BY <1>1, <2>1, <2>5, <3>2 DEF EntryOK
    <3> QED BY <2>2, <3>1, <3>2
  \* Nobody else commits with the entry, or has reserved it.
  <2>8. \A d \in Call \ {c} : call[d].holds => call[d].pc \notin {"committing", "reserved"}
    BY <1>1, <1>7, <2>1 DEF CallOK
  <2> DEFINE M == {c}
  <2>9. M \in SUBSET Call
    OBVIOUS
  <2>10. \A d \in Call \ M : Spared(call[d], call'[d])
    BY <2>3, <2>8 DEF Spared
  <2>11. \A d \in M : call'[d].pc \in {"published", "read", "live", "failed"}
    BY <2>3
  <2>12. \A d \in Call : call'[d].holds =>
            d # c /\ call[d].holds /\ entry'.phase = "ready" /\ call'[d].pc \notin {"committing", "reserved"}
    BY <2>2, <2>3, <2>8
  <2>13. \A d \in Call : call'[d].holds =>
            /\ entry'.phase # "none" /\ (entry'.phase = "loading" => call'[d].pc = "reading")
            /\ call'[d].pc \in {"committing", "reserved"} => entry'.phase = call'[d].pc
    BY <2>12
  <2>14. HoldersApart(call')
    BY <2>12 DEF HoldersApart
  <2>15. \A i \in DOMAIN chain' :
            \/ \E j \in DOMAIN chain :
                 /\ chain'[i] = chain[j] /\ (state' = state \/ j # 1)
                 /\ chain[j].op \in {"check", "commit"} => chain[j].of \notin M
                 /\ chain[j].op = "load" => entry'.phase = "loading"
                 /\ chain[j].op = "commit" /\ call'[chain[j].of].holds => entry'.rev = entry.rev
            \/ OpOK(chain[i])'
    <3>1. \A j \in DOMAIN chain : /\ chain[j].op # "load"
                                  /\ chain[j].op = "commit" => chain[j].of \in Call /\ call[chain[j].of].pc = "committing"
                                  /\ chain[j].op = "check" => call[chain[j].of].pc = "checking"
      BY <2>1 DEF ChainOK, OpOK, CommitOK
    <3>2. \A j \in DOMAIN chain : chain[j].op \in {"check", "commit"} => chain[j].of # c
      BY <1>1, <3>1
    <3>3. \A j \in DOMAIN chain : chain[j].op = "commit" => ~call'[chain[j].of].holds
      BY <2>3, <2>12, <3>1, <3>2
    <3> QED BY <1>1, <3>1, <3>2, <3>3
  <2>16. \A m \in Life :
            \/ session'[m] = session[m]
            \/ service # "closed" /\ session[m].tracked /\ session'[m] = Joined(session[m])
            \/ /\ m \in M /\ ~session[m].tracked /\ ~session'[m].tracked /\ Controller(session'[m])
               /\ session'[m].phase \in {"prepared", "disposed"} /\ session'[m].writing = "none"
    BY <1>5
  <2>17. service = "closed" => chain' = <<>> /\ \A d \in Call : call'[d].pc \notin {"wait", "reading"}
    BY <1>1, <2>3 DEF ClosedOK
  <2> HIDE DEF M, IInv
  <2> QED BY <1>1, <2>4, <2>6, <2>7, <2>9, <2>10, <2>11, <2>13, <2>14, <2>15, <2>16, <2>17, CallsStep
<1> QED BY <1>6, <1>7

-----------------------------------------------------------------------------
(* commitPrepared() and the repair of the stored log *)

\* What a commit finds when its turn has come.
LEMMA CommitFacts ==
  ASSUME IInv, chain # <<>>, Head(chain).op = "commit"
  PROVE  \E c \in Call :
           /\ c = Head(chain).of /\ call[c].pc = "committing" /\ session[c].phase = "none"
           /\ CommitOK(Head(chain)) /\ call[c].rev \in Revision /\ call[c].rev.events # <<>>
           /\ call[c].holds => /\ entry.phase = "committing" /\ entry.rev = call[c].rev
                               /\ \A d \in Call \ {c} : call[d].holds => call[d].pc \notin {"committing", "reserved"}
                               /\ \A j \in DOMAIN chain : chain[j].op \notin {"load", "created"}
           /\ ~call[c].holds => ~Current(call[c].rev) /\ Head(chain).stage = "queued"
           /\ \A j \in DOMAIN chain \ {1} : chain[j].op = "commit" => chain[j].of # c
<1> USE DEF IInv
<1>1. /\ Head(chain) = chain[1] /\ 1 \in DOMAIN chain /\ OpOK(Head(chain))
      /\ \A j \in DOMAIN chain \ {1} : ~Alike(chain[j], Head(chain))
  BY HeadFacts
<1>2. CommitOK(Head(chain))
  BY <1>1 DEF OpOK
<1>3. PICK c \in Call : c = Head(chain).of
  BY <1>2 DEF CommitOK
<1>4. /\ call[c].pc = "committing" /\ session[c].phase = "none"
      /\ call[c].rev \in Revision /\ call[c].rev.events # <<>>
  BY <1>2, <1>3 DEF CommitOK, CallOK, Types, CallRecord
<1>5. ASSUME call[c].holds
      PROVE  /\ entry.phase = "committing" /\ entry.rev = call[c].rev
             /\ \A d \in Call \ {c} : call[d].holds => call[d].pc \notin {"committing", "reserved"}
             /\ \A j \in DOMAIN chain : chain[j].op \notin {"load", "created"}
  <2>1. entry.phase = "committing" /\ entry.rev = call[c].rev
    BY <1>2, <1>3, <1>4, <1>5 DEF CommitOK, CallOK
  <2>2. \A d \in Call \ {c} : call[d].holds => call[d].pc \notin {"committing", "reserved"}
    BY <1>4, <1>5, <2>1 DEF CallOK
  <2>3. \A j \in DOMAIN chain : chain[j].op \notin {"load", "created"}
    BY <2>1 DEF EntryOK, ChainOK, OpOK
  <2> QED BY <2>1, <2>2, <2>3
<1>6. ASSUME ~call[c].holds PROVE ~Current(call[c].rev) /\ Head(chain).stage = "queued"
  <2>1. Head(chain).stage = "queued" /\ Len(call[c].rev.events) < Len(disk.events)
    BY <1>2, <1>3, <1>6 DEF CommitOK
  <2>2. disk.events \in Seq(Event)
    BY DEF Types, Revision
  <2>3. Len(disk.events) \in Nat
    BY <2>2, LenProperties
  <2> QED BY <2>1, <2>3 DEF Current
<1>7. \A j \in DOMAIN chain \ {1} : chain[j].op = "commit" => chain[j].of # c
  BY <1>1, <1>3 DEF Alike
<1> QED BY <1>2, <1>3, <1>4, <1>5, <1>6, <1>7

\* The commit ends, or goes back to its caller, and the entry goes.
LEMMA CommitGivesUp ==
  ASSUME IInv, chain # <<>>, Head(chain).op = "commit", NEW c \in Call, c = Head(chain).of,
         call' = Ended(CallsWithout(c), c, "failed") \/ call' = Restarted(CallsWithout(c), c),
         entry' = EntryWithout(c), chain' = Tail(chain), troubles' \in Nat,
         UNCHANGED <<disk, state, retirement, service, session, acked>>
  PROVE  IInv'
<1> USE DEF IInv
<1>1. call[c].pc = "committing"
  BY CommitFacts
<1>2. /\ Head(chain) = chain[1] /\ 1 \in DOMAIN chain
      /\ chain' \in Seq(OpRecord) /\ IsWithout(chain', chain, 1)
  BY HeadFacts
<1>3. /\ call' \in [Call -> CallRecord] /\ entry' \in EntryRecord
      /\ ~call'[c].holds /\ call'[c].pc \in {"wait", "failed"}
      /\ \/ entry' = entry /\ \A d \in Call \ {c} : call'[d] = call[d]
         \/ /\ entry' = NoEntry /\ entry.phase # "loading"
            /\ \A d \in Call \ {c} : Spared(call[d], call'[d]) /\ ~call'[d].holds
  BY <1>1, GivesUp
<1>4. Types'
  BY <1>2, <1>3 DEF Types
<1> QED BY <1>2, <1>3, <1>4, CallLeaves

\* The log is current: the entry becomes a reservation, is handed out, or stays.
LEMMA CommitSettles ==
  ASSUME IInv, Types', At("commit", "queued"), NEW c \in Call, c = Head(chain).of, call[c].holds,
         state.owner = None, Current(call[c].rev), ~disk.torn, Closers(disk.events) = <<>>,
         state' = Owned(Len(disk.events), None), chain' = Tail(chain),
         UNCHANGED <<disk, retirement, service, acked>>,
         \/ entry' = NoEntry
         \/ entry'.phase \in {"ready", "reserved"} /\ entry'.rev = entry.rev,
         \A d \in Call \ {c} : Spared(call[d], call'[d]) /\ (call'[d].holds => entry' # NoEntry),
         \/ call'[c].pc \in {"read", "failed"} /\ ~call'[c].holds /\ session' = session
         \/ /\ call'[c].pc = "reserved" /\ entry'.phase = "reserved"
            /\ session'[c].phase = "prepared" /\ session'[c].log = disk.events
            /\ ~session[c].tracked /\ ~session'[c].tracked /\ Controller(session'[c])
            /\ session'[c].writing = "none"
            /\ \A m \in Life \ {c} : session'[m] = session[m]
  PROVE  IInv'
<1> USE DEF IInv
<1>1. /\ chain # <<>> /\ Head(chain).op = "commit" /\ Head(chain).of = c
  BY DEF At
<1>2. /\ call[c].pc = "committing" /\ session[c].phase = "none" /\ c \in Life
      /\ entry.phase = "committing" /\ entry.rev = disk /\ disk.events # <<>>
      /\ \A d \in Call \ {c} : call[d].holds => call[d].pc \notin {"committing", "reserved"}
      /\ \A j \in DOMAIN chain : chain[j].op \notin {"load", "created"}
      /\ \A j \in DOMAIN chain \ {1} : chain[j].op = "commit" => chain[j].of # c
  BY <1>1, CommitFacts DEF Current, Life
<1>3. /\ Head(chain) = chain[1] /\ 1 \in DOMAIN chain /\ service # "closed"
      /\ chain' \in Seq(OpRecord) /\ IsWithout(chain', chain, 1)
      /\ \A i \in DOMAIN chain' : \E j \in DOMAIN chain \ {1} : chain'[i] = chain[j]
      /\ \A j \in DOMAIN chain \ {1} : \E i \in DOMAIN chain' : chain'[i] = chain[j]
  BY <1>1, HeadFacts, TailFacts
<1>4. disk.events \in Seq(Event) /\ Len(disk.events) \in Nat /\ Len(disk.events) > 0
  <2>1. disk.events \in Seq(Event)
    BY DEF Types, Revision
  <2> QED BY <1>2, <2>1, LenProperties
<1>5. /\ state'.owner = None /\ state'.known /\ state'.materialized /\ state'.cursor = Len(disk.events)
  BY <1>4, OwnedState
<1>6. StateOK'
  BY <1>2, <1>5 DEF StateOK
<1>7. \A m \in Life : session'[m].phase = "live" => session[m].phase = "live"
  OBVIOUS
<1>8. OrderOK'
  <2>1. \A i \in DOMAIN chain' : chain'[i].op # "created"
    BY <1>2, <1>3
  <2> QED BY <1>3, <1>7, <2>1, OrderRemoved
<1>9. EntryOK'
  <2>1. CASE entry' = NoEntry
    BY <2>1, BlankEntry DEF EntryOK
  <2>2. CASE entry'.phase \in {"ready", "reserved"} /\ entry'.rev = entry.rev
    <3>1. /\ entry'.rev = disk /\ Len(entry'.rev.events) <= Len(disk'.events)
          /\ \A i \in DOMAIN chain' : chain'[i].op # "created"
      BY <1>2, <1>3, <1>4, <2>2
    <3>2. service = "running" => \A m \in Life : session'[m].phase # "live"
      BY <1>2, <1>7 DEF EntryOK
    <3> QED BY <1>2, <1>5, <2>2, <3>1, <3>2 DEF EntryOK
  <2> QED BY <2>1, <2>2
<1> DEFINE M == {c}
<1>10. M \in SUBSET Call
  OBVIOUS
<1>11. \A d \in Call \ M : Spared(call[d], call'[d])
  OBVIOUS
<1>12. Begins(disk.events, disk.events)
  BY <1>4, BeginsFacts
<1>13. \A d \in M : \/ call'[d].pc \in {"published", "read", "live", "failed"}
                    \/ call'[d].pc # "reserved" /\ session'[d].phase = "none"
                    \/ /\ call'[d].pc = "reserved" /\ session'[d].phase = "prepared"
                       /\ Begins(disk.events, session'[d].log)
  BY <1>12
<1>14. \A d \in Call \ {c} : call'[d].holds =>
         call[d].holds /\ call'[d].pc = call[d].pc /\ call'[d].pc \notin {"committing", "reserved"}
  BY <1>2 DEF Spared
<1>15. \A d \in Call : call'[d].holds =>
            /\ entry'.phase # "none" /\ (entry'.phase = "loading" => call'[d].pc = "reading")
            /\ call'[d].pc \in {"committing", "reserved"} => entry'.phase = call'[d].pc
  <2>1. \A d \in Call : call'[d].holds => entry'.phase \in {"ready", "reserved"}
    OBVIOUS
  <2>2. call'[c].pc \notin {"committing", "reserved"} \/ entry'.phase = call'[c].pc
    OBVIOUS
  <2> QED BY <1>14, <2>1, <2>2
<1>16. HoldersApart(call')
  BY <1>14 DEF HoldersApart
<1>17. \A i \in DOMAIN chain' :
            \/ \E j \in DOMAIN chain :
                 /\ chain'[i] = chain[j] /\ (state' = state \/ j # 1)
                 /\ chain[j].op \in {"check", "commit"} => chain[j].of \notin M
                 /\ chain[j].op = "load" => entry'.phase = "loading"
                 /\ chain[j].op = "commit" /\ call'[chain[j].of].holds => entry'.rev = entry.rev
            \/ OpOK(chain[i])'
  <2>1. \A j \in DOMAIN chain \ {1} :
          /\ chain[j].op \in {"check", "commit"} => chain[j].of # c
          /\ chain[j].op = "commit" => ~call'[chain[j].of].holds
    <3>1. \A j \in DOMAIN chain \ {1} :
             /\ chain[j].op = "check" => call[chain[j].of].pc = "checking"
             /\ chain[j].op = "commit" => /\ chain[j].of \in Call \ {c}
                                          /\ call[chain[j].of].pc = "committing"
      BY <1>2 DEF ChainOK, OpOK, CommitOK
    <3> QED BY <1>2, <1>14, <3>1
  <2> QED BY <1>2, <1>3, <2>1
<1>18. \A j \in DOMAIN chain : chain[j].op = "append" => \E i \in DOMAIN chain' : chain'[i] = chain[j]
  BY <1>1, <1>3
<1>19. \A m \in Life :
            \/ session'[m] = session[m]
            \/ service # "closed" /\ session[m].tracked /\ session'[m] = Joined(session[m])
            \/ /\ m \in M /\ ~session[m].tracked /\ ~session'[m].tracked /\ Controller(session'[m])
               /\ session'[m].phase \in {"prepared", "disposed"} /\ session'[m].writing = "none"
  OBVIOUS
<1> HIDE DEF M, IInv
<1> QED BY <1>3, <1>5, <1>6, <1>8, <1>9, <1>10, <1>11, <1>13, <1>15, <1>16, <1>17, <1>18, <1>19, CallsStep

\* commitPrepared(): the call fails, starts over, repairs the log or has what it asked for.
LEMMA CommitPreserves ==
  ASSUME IInv, Commit
  PROVE  IInv'
<1> USE DEF IInv
<1>1. /\ At("commit", "queued") /\ chain # <<>> /\ Head(chain).op = "commit"
      /\ UNCHANGED <<disk, retirement, service, acked, troubles>>
  BY DEF Commit, At
<1>2. PICK c \in Call :
        /\ c = Head(chain).of /\ call[c].pc = "committing" /\ session[c].phase = "none"
        /\ CommitOK(Head(chain)) /\ call[c].rev \in Revision /\ call[c].rev.events # <<>>
        /\ call[c].holds => /\ entry.phase = "committing" /\ entry.rev = call[c].rev
                            /\ \A d \in Call \ {c} : call[d].holds => call[d].pc \notin {"committing", "reserved"}
                            /\ \A j \in DOMAIN chain : chain[j].op \notin {"load", "created"}
        /\ ~call[c].holds => ~Current(call[c].rev) /\ Head(chain).stage = "queued"
  BY <1>1, CommitFacts
<1>3. call \in [Call -> CallRecord] /\ entry \in EntryRecord /\ disk \in Revision /\ state \in StateRecord
      /\ troubles' \in Nat /\ c \in Life /\ disk.events \in Seq(Event) /\ disk.tail \in Seq(Event)
      /\ Len(disk.events) \in Nat
  BY <1>1, LenProperties DEF Types, Life, Revision
<1>4. CASE /\ call' = Ended(CallsWithout(c), c, "failed") \/ call' = Restarted(CallsWithout(c), c)
           /\ entry' = EntryWithout(c) /\ chain' = Tail(chain) /\ UNCHANGED <<state, session>>
  BY <1>1, <1>2, <1>3, <1>4, CommitGivesUp
<1> DEFINE closers == Closers(Logical(call[c].rev))
<1>5. closers \in Seq(Event)
  BY <1>2, ViewIsLog
<1>6. CASE /\ state.owner = None /\ Current(call[c].rev) /\ (disk.torn \/ closers # <<>>)
           /\ ToStage(IF disk.torn THEN "truncate" ELSE "restore", disk.tail \o closers)
           /\ UNCHANGED <<state, session, entry, call>>
  \* The coordinator knows no log that needs repair.
  <2>1. ~state.known /\ call[c].holds
    <3>1. ~disk.torn => closers = Closers(disk.events)
      BY <1>3, <1>6, UntornLog DEF Current
    <3> QED BY <1>2, <1>6, <3>1 DEF StateOK
  <2>2. PICK b \in Seq(Event) : b = disk.tail \o closers
    BY <1>3, <1>5, ConcatProperties
  <2>3. PICK s \in {"truncate", "restore"} : s = (IF disk.torn THEN "truncate" ELSE "restore")
    OBVIOUS
  <2>4. ToStage(s, b)
    BY <1>6, <2>2, <2>3, Zenon
  <2>5. PICK o \in OpRecord :
            /\ chain' \in Seq(OpRecord) /\ DOMAIN chain' = DOMAIN chain
            /\ \A i \in DOMAIN chain \ {1} : chain'[i] = chain[i]
            /\ chain'[1] = o /\ o.op = Head(chain).op /\ o.of = c
            /\ o.n = Head(chain).n /\ o.stage = s /\ o.batch = b
    BY <1>1, <1>2, <2>4, StagedHead
  <2>6. Types'
    BY <1>1, <1>6, <2>5 DEF Types
  <2>7. OpOK(o)'
    <3>1. s = "restore" => ~disk.torn
      BY <2>3
    <3>2. CommitOK(o)'
      BY <1>1, <1>2, <1>6, <2>1, <2>5, <3>1 DEF CommitOK
    <3> QED BY <1>1, <2>5, <3>2 DEF OpOK
  <2> DEFINE M == {}
  <2>8. M \in SUBSET Call /\ \A d \in M : FALSE
    OBVIOUS
  <2>9. OrderOK'
    BY <1>1, <1>2, <1>6, <2>5, <2>6, OrderStaged DEF OrderOK
  <2>10. EntryOK'
    <3>1. \A i \in DOMAIN chain' : chain'[i].op # "created"
      BY <1>1, <1>2, <2>1, <2>5
    <3> QED BY <1>1, <1>6, <2>6, <3>1, EntryFrame
  <2>11. \A d \in Call \ M : Spared(call[d], call'[d])
    BY <1>6 DEF Spared
  <2>12. HoldersApart(call')
    BY <1>2, <1>6, <2>1 DEF HoldersApart
  <2>13. \A d \in Call : call'[d].holds =>
            /\ entry'.phase # "none" /\ (entry'.phase = "loading" => call'[d].pc = "reading")
            /\ call'[d].pc \in {"committing", "reserved"} => entry'.phase = call'[d].pc
    BY <1>6 DEF CallOK
  <2>14. \A i \in DOMAIN chain' :
            \/ \E j \in DOMAIN chain :
                 /\ chain'[i] = chain[j] /\ (state' = state \/ j # 1)
                 /\ chain[j].op \in {"check", "commit"} => chain[j].of \notin M
                 /\ chain[j].op = "load" => entry'.phase = "loading"
                 /\ chain[j].op = "commit" /\ call'[chain[j].of].holds => entry'.rev = entry.rev
            \/ OpOK(chain[i])'
    BY <1>2, <1>6, <2>1, <2>5, <2>7
  <2>15. \A j \in DOMAIN chain : chain[j].op = "append" => \E i \in DOMAIN chain' : chain'[i] = chain[j]
    BY <1>1, <2>5, HeadFacts
  <2>16. service # "closed"
    BY <1>1, HeadFacts
  <2>17. state' = state /\ \A m \in Life : session'[m] = session[m]
    BY <1>6
  <2> HIDE DEF M, IInv, closers
  <2> QED BY <1>1, <2>6, <2>8, <2>9, <2>10, <2>11, <2>12, <2>13, <2>14, <2>15, <2>16, <2>17, CallsStep
<1>7. CASE /\ state.owner = None /\ Current(call[c].rev) /\ ~disk.torn /\ closers = <<>> /\ call[c].holds
           /\ state' = Owned(Len(disk.events), None) /\ chain' = Tail(chain)
           /\ \/ /\ call[c].kind = "load"
                 /\ call' = [Ended(Unheld, c, "read") EXCEPT ![c].rev = call[c].rev]
                 /\ entry' = NoEntry /\ UNCHANGED session
              \/ /\ call[c].kind = "prepare"
                 /\ call' = [Ended(call, c, "reserved") EXCEPT ![c].holds = TRUE]
                 /\ entry' = [entry EXCEPT !.phase = "reserved"]
                 /\ session' = [session EXCEPT ![c].phase = "prepared", ![c].log = disk.events]
              \/ /\ call[c].kind = "prepare"
                 /\ call' = Ended(call, c, "failed")
                 /\ entry' = [entry EXCEPT !.phase = "ready"] /\ UNCHANGED session
  <2>1. Closers(disk.events) = <<>>
    BY <1>3, <1>7, UntornLog DEF Current
  <2>2. state' \in StateRecord /\ chain' \in Seq(OpRecord)
    BY <1>1, <1>3, <1>7, OwnedState, HeadFacts
  <2>3. CASE /\ call' = [Ended(Unheld, c, "read") EXCEPT ![c].rev = call[c].rev]
             /\ entry' = NoEntry /\ UNCHANGED session
    <3> DEFINE e == Ended(Unheld, c, "read")
               k == e[c]
               q == [k EXCEPT !.rev = call[c].rev]
    <3>1. /\ e \in [Call -> CallRecord] /\ e[c].pc = "read" /\ ~e[c].holds
          /\ \A d \in Call \ {c} : e[d] = Unheld[d]
      BY UnheldFacts, EndedFacts
    <3>2. call' = [e EXCEPT ![c] = q] /\ k \in CallRecord
      BY <1>3, <2>3, <3>1
    <3> HIDE DEF e, k
    <3>3. q \in CallRecord /\ q.pc = k.pc /\ q.holds = k.holds
      BY <1>2, <3>2 DEF CallRecord
    <3> HIDE DEF q
    <3>4. /\ call' \in [Call -> CallRecord] /\ call'[c] = q /\ \A d \in Call \ {c} : call'[d] = Unheld[d]
      BY <3>1, <3>2, <3>3
    <3>5. call'[c].pc = "read" /\ ~call'[c].holds
      BY <3>1, <3>3, <3>4 DEF k
    <3>6. \A d \in Call \ {c} : Spared(call[d], call'[d]) /\ ~call'[d].holds
      BY <1>2, <1>7, <3>4, UnheldFacts DEF Spared
    <3>7. Types'
      BY <1>1, <1>3, <2>2, <2>3, <3>4, BlankEntry DEF Types
    <3> QED BY <1>1, <1>2, <1>7, <2>1, <2>3, <3>5, <3>6, <3>7, CommitSettles
  <2>4. CASE /\ call' = [Ended(call, c, "reserved") EXCEPT ![c].holds = TRUE]
             /\ entry' = [entry EXCEPT !.phase = "reserved"]
             /\ session' = [session EXCEPT ![c].phase = "prepared", ![c].log = disk.events]
    <3> DEFINE e == Ended(call, c, "reserved")
               k == e[c]
               q == [k EXCEPT !.holds = TRUE]
    <3>1. /\ e \in [Call -> CallRecord] /\ e[c].pc = "reserved"
          /\ \A d \in Call \ {c} : e[d] = call[d]
      BY <1>3, EndedFacts
    <3>2. call' = [e EXCEPT ![c] = q] /\ k \in CallRecord
      BY <1>3, <2>4, <3>1
    <3> HIDE DEF e, k
    <3>3. q \in CallRecord /\ q.pc = k.pc /\ q.holds
      BY <3>2 DEF CallRecord
    <3> HIDE DEF q
    <3>4. /\ call' \in [Call -> CallRecord] /\ call'[c] = q /\ \A d \in Call \ {c} : call'[d] = call[d]
      BY <3>1, <3>2, <3>3
    <3>5. call'[c].pc = "reserved"
      BY <3>1, <3>3, <3>4 DEF k
    <3>6. entry' \in EntryRecord /\ entry'.phase = "reserved" /\ entry'.rev = entry.rev
      BY <1>3, <2>4 DEF EntryRecord
    <3>7. entry' # NoEntry
      BY <3>6, BlankEntry
    <3>8. \A d \in Call \ {c} : Spared(call[d], call'[d])
      BY <3>4 DEF Spared
    <3> DEFINE r == session[c]
               p == [r EXCEPT !.phase = "prepared", !.log = disk.events]
    <3>9. r \in SessionRecord /\ Controller(r) /\ r.phase = "none" /\ session' = [session EXCEPT ![c] = p]
      BY <1>2, <1>3, <2>4 DEF Types, SessionOK
    <3> HIDE DEF r
    <3>10. /\ p \in SessionRecord /\ p.phase = "prepared" /\ p.log = disk.events /\ p.tracked = r.tracked
           /\ p.init = r.init /\ p.admitted = r.admitted /\ p.written = r.written /\ p.writing = r.writing
           /\ p.waiters = r.waiters /\ p.retire = r.retire
      BY <1>3, <3>9 DEF SessionRecord
    <3> HIDE DEF p
    <3>11. ~r.tracked /\ ~p.tracked /\ Controller(p) /\ p.writing = "none"
      BY <1>3, <3>9, <3>10 DEF Controller, SessionRecord
    <3>12. session' \in [Life -> SessionRecord] /\ session'[c] = p /\ \A m \in Life \ {c} : session'[m] = session[m]
      BY <1>3, <3>9, <3>10 DEF Types
    <3>13. Types'
      BY <1>1, <1>3, <2>2, <3>4, <3>6, <3>12 DEF Types
    <3> QED BY <1>1, <1>2, <1>7, <2>1, <3>5, <3>6, <3>7, <3>8, <3>10, <3>11, <3>12, <3>13, CommitSettles DEF r
  <2>5. CASE /\ call' = Ended(call, c, "failed")
             /\ entry' = [entry EXCEPT !.phase = "ready"] /\ UNCHANGED session
    <3>1. /\ call' \in [Call -> CallRecord] /\ call'[c].pc = "failed" /\ ~call'[c].holds
          /\ \A d \in Call \ {c} : call'[d] = call[d]
      BY <1>3, <2>5, EndedFacts
    <3>2. entry' \in EntryRecord /\ entry'.phase = "ready" /\ entry'.rev = entry.rev
      BY <1>3, <2>5 DEF EntryRecord
    <3>3. entry' # NoEntry
      BY <3>2, BlankEntry
    <3>4. \A d \in Call \ {c} : Spared(call[d], call'[d])
      BY <3>1 DEF Spared
    <3>5. Types'
      BY <1>1, <1>3, <2>2, <2>5, <3>1, <3>2 DEF Types
    <3> QED BY <1>1, <1>2, <1>7, <2>1, <2>5, <3>1, <3>2, <3>3, <3>4, <3>5, CommitSettles
  <2> QED BY <1>7, <2>3, <2>4, <2>5
<1> QED BY <1>1, <1>2, <1>4, <1>6, <1>7 DEF Commit

\* A step of a repair that the head makes for a commit: the log has grown.
LEMMA RepairStep ==
  ASSUME IInv, Types', StateOK', chain # <<>>, Head(chain).op = "commit",
         NEW c \in Call, c = Head(chain).of, call[c].holds,
         Len(disk.events) <= Len(disk'.events), Begins(acked, disk'.events),
         UNCHANGED <<state, retirement, service, session, acked>>,
         \/ /\ UNCHANGED <<entry, call>> /\ DOMAIN chain' = DOMAIN chain
            /\ \A i \in DOMAIN chain \ {1} : chain'[i] = chain[i]
            /\ chain'[1].op = "commit" /\ chain'[1].of = c /\ OpOK(chain[1])'
         \/ /\ entry' = NoEntry /\ call' = Restarted(CallsWithout(c), c)
            /\ chain' = Tail(chain)
  PROVE  IInv'
<1> USE DEF IInv
<1>1. /\ call[c].pc = "committing" /\ session[c].phase = "none"
      /\ entry.phase = "committing" /\ entry.rev = call[c].rev
      /\ \A d \in Call \ {c} : call[d].holds => call[d].pc \notin {"committing", "reserved"}
      /\ \A j \in DOMAIN chain : chain[j].op \notin {"load", "created"}
      /\ \A j \in DOMAIN chain \ {1} : chain[j].op = "commit" => chain[j].of # c
  BY CommitFacts
<1>2. /\ Head(chain) = chain[1] /\ 1 \in DOMAIN chain /\ service # "closed"
      /\ Tail(chain) \in Seq(OpRecord) /\ IsWithout(Tail(chain), chain, 1)
      /\ \A i \in DOMAIN Tail(chain) : \E j \in DOMAIN chain \ {1} : Tail(chain)[i] = chain[j]
      /\ \A j \in DOMAIN chain \ {1} : \E i \in DOMAIN Tail(chain) : Tail(chain)[i] = chain[j]
  BY HeadFacts, TailFacts
<1>3. /\ \A i \in DOMAIN chain' : (i = 1 /\ UNCHANGED <<entry, call>> /\ OpOK(chain[1])' /\ chain'[1].op = "commit")
                               \/ \E j \in DOMAIN chain \ {1} : chain'[i] = chain[j]
      /\ \A j \in DOMAIN chain \ {1} : \E i \in DOMAIN chain' : chain'[i] = chain[j]
  <2>1. CASE chain' = Tail(chain)
    BY <1>2, <2>1
  <2>2. CASE chain' # Tail(chain)
    BY <1>2, <2>2
  <2> QED BY <2>1, <2>2
<1>4. /\ \A d \in Call \ {c} : call'[d].pc = call[d].pc /\ call'[d].rev = call[d].rev
                               /\ (call'[d].holds => call[d].holds)
      /\ UNCHANGED <<entry, call>> \/ (entry' = NoEntry /\ (\A d \in Call : ~call'[d].holds)
                                       /\ call'[c].pc = "wait")
  <2>1. CASE UNCHANGED <<entry, call>>
    BY <2>1
  <2>2. CASE entry' = NoEntry /\ call' = Restarted(CallsWithout(c), c)
    <3>1. CallsWithout(c) = Unheld /\ Unheld \in [Call -> CallRecord]
      BY UnheldFacts DEF CallsWithout
    <3>2. /\ \A d \in Call \ {c} : call'[d] = Unheld[d]
          /\ call'[c].pc = "wait" /\ call'[c].holds = Unheld[c].holds
      BY <2>2, <3>1, RestartedFacts
    <3> QED BY <2>2, <3>2, UnheldFacts
  <2> QED BY <2>1, <2>2
<1>5. OrderOK'
  <2>1. \A i \in DOMAIN chain' : chain'[i].op # "created"
    BY <1>1, <1>3
  <2>2. CASE chain' = Tail(chain)
    BY <1>2, <2>1, <2>2, OrderRemoved
  <2>3. CASE chain' # Tail(chain)
    BY <1>1, <2>3, OrderStaged
  <2> QED BY <2>2, <2>3
<1>6. ASSUME NEW j \in DOMAIN chain \ {1} PROVE Keeps(chain[j])
  <2>1. /\ OpOK(chain[j]) /\ chain[j].stage = Waiting(chain[j].op) /\ chain[j] \in OpRecord
    BY HeadFacts
  <2>2. ASSUME chain[j].op \in SessionOps PROVE Steady(session[chain[j].of], session'[chain[j].of])
    <3>1. chain[j].of \in Life
      BY <2>2, OpsAreTracked
    <3>2. session[chain[j].of] \in SessionRecord
      BY <3>1 DEF Types
    <3>3. Begins(session[chain[j].of].log, session[chain[j].of].log)
      BY <3>2, BeginsFacts DEF SessionRecord
    <3> QED BY <3>2, <3>3 DEF Steady, SessionRecord
  <2>3. chain[j].op = "suffix" => state'.owner = chain[j].of /\ state'.materialized
    BY <2>1 DEF OpOK, SuffixOK
  <2>4. chain[j].stage \notin {"write", "truncate", "restore"} /\ chain[j].op \notin {"created", "load"}
    BY <1>1, <2>1 DEF Waiting
  <2>5. chain[j].op = "check" => call'[chain[j].of].pc = "checking"
    BY <1>1, <1>4, <2>1 DEF OpOK
  <2>6. ASSUME chain[j].op = "commit"
        PROVE  /\ call'[chain[j].of].pc = "committing" /\ call'[chain[j].of].rev = call[chain[j].of].rev
               /\ ~call'[chain[j].of].holds
               /\ chain[j].stage = "queued" /\ Len(call[chain[j].of].rev.events) < Len(disk'.events)
    <3>1. CommitOK(chain[j]) /\ chain[j].stage = "queued"
      BY <2>1, <2>6 DEF OpOK, Waiting
    <3>2. PICK d \in Call \ {c} : d = chain[j].of
      BY <1>1, <2>6, <3>1 DEF CommitOK
    <3>3. call[d].pc = "committing" /\ ~call[d].holds /\ Len(call[d].rev.events) < Len(disk.events)
      BY <1>1, <3>1, <3>2 DEF CommitOK
    <3>4. call[d].rev.events \in Seq(Event) /\ disk.events \in Seq(Event) /\ disk'.events \in Seq(Event)
      BY DEF Types, CallRecord, Revision
    <3>5. Len(call[d].rev.events) \in Nat /\ Len(disk.events) \in Nat /\ Len(disk'.events) \in Nat
      BY <3>4, LenProperties
    <3>6. Len(call[d].rev.events) < Len(disk'.events)
      BY <3>3, <3>5
    <3> QED BY <1>4, <3>1, <3>2, <3>3, <3>6
  <2> QED BY <2>2, <2>3, <2>4, <2>5, <2>6 DEF Keeps, SessionOps
<1>7. ChainOK'
  BY <1>3, <1>6, ChainFrame
<1>8. SessionOK' /\ RegistryOK' /\ FlushedOK'
  <2>1. SessionOK'
    BY DEF SessionOK, Controller, WriterOK
  <2>2. RegistryOK'
    BY DEF RegistryOK
  <2>3. FlushedOK'
    BY DEF FlushedOK, Flushed
  <2> QED BY <2>1, <2>2, <2>3
<1>9. EntryOK'
  <2>1. CASE UNCHANGED <<entry, call>>
    <3>1. \A i \in DOMAIN chain' : chain'[i].op # "created"
      BY <1>1, <1>3
    <3>2. entry.rev.events \in Seq(Event) /\ disk.events \in Seq(Event) /\ disk'.events \in Seq(Event)
      BY DEF Types, EntryRecord, Revision
    <3>3. Len(entry.rev.events) \in Nat /\ Len(disk.events) \in Nat /\ Len(disk'.events) \in Nat
      BY <3>2, LenProperties
    <3>4. Len(entry.rev.events) <= Len(disk'.events) /\ entry.rev.events # <<>>
      BY <1>1, <3>3 DEF EntryOK
    <3> QED BY <1>1, <2>1, <3>1, <3>4 DEF EntryOK
  <2>2. CASE entry' = NoEntry
    BY <2>2, BlankEntry DEF EntryOK
  <2> QED BY <1>4, <2>1, <2>2
<1>10. CallOK'
  <2>1. CASE UNCHANGED <<entry, call>>
    BY <1>1, <2>1 DEF CallOK
  <2>2. CASE (\A d \in Call : ~call'[d].holds) /\ call'[c].pc = "wait"
    BY <1>1, <1>4, <2>2 DEF CallOK
  <2> QED BY <1>4, <2>1, <2>2
<1>11. InFlightOK'
  <2>1. \A j \in DOMAIN chain : chain[j].op = "append" => \E i \in DOMAIN chain' : chain'[i] = chain[j]
    BY <1>2, <1>3
  <2> SUFFICES ASSUME NEW m \in Life, session[m].writing # "none"
               PROVE  \E i \in DOMAIN chain' : chain'[i].op = "append" /\ chain'[i].of = m
    BY DEF InFlightOK
  <2>2. PICK j \in DOMAIN chain : chain[j].op = "append" /\ chain[j].of = m
    BY DEF InFlightOK
  <2> QED BY <2>1, <2>2
<1>12. ClosedOK'
  BY <1>2 DEF ClosedOK
<1> QED BY <1>5, <1>7, <1>8, <1>9, <1>10, <1>11, <1>12

\* Whose repair it is: of a commit that holds its entry, or of a session that
\* adopts the stored log.
LEMMA RepairFacts ==
  ASSUME IInv, NEW s \in {"truncate", "restore"}, Repairing(s)
  PROVE  /\ chain # <<>> /\ Head(chain).stage = s /\ Head(chain) \in OpRecord
         /\ ~state.known /\ state.owner = None
         /\ s = "restore" => ~disk.torn /\ disk.tail = <<>>
         /\ Head(chain).op \in {"commit", "created"}
         /\ Head(chain).op = "commit" => /\ CommitOK(Head(chain)) /\ Head(chain).of \in Call
                                         /\ call[Head(chain).of].holds
         /\ Head(chain).op = "created" => /\ CreatedOK(Head(chain)) /\ Head(chain).of \in Life
                                          /\ disk.events # <<>>
                                          /\ Begins(disk.events \o Head(chain).batch, session[Head(chain).of].log)
<1>1. chain # <<>> /\ Head(chain).stage = s
  BY DEF Repairing
<1>2. OpOK(Head(chain)) /\ Head(chain) \in OpRecord
  BY <1>1, HeadFacts
<1>3. Head(chain).op \in {"commit", "created"}
  BY <1>1, <1>2 DEF OpOK, SuffixOK, AppendOK, OpRecord
<1>4. Head(chain).op = "commit" => /\ CommitOK(Head(chain)) /\ Head(chain).of \in Call
                                   /\ call[Head(chain).of].holds
  BY <1>1, <1>2 DEF OpOK, CommitOK
<1>5. Head(chain).op = "created" => /\ CreatedOK(Head(chain)) /\ Head(chain).of \in Life
                                    /\ disk.events # <<>>
                                    /\ Begins(disk.events \o Head(chain).batch, session[Head(chain).of].log)
  BY <1>1, <1>2 DEF OpOK, CreatedOK
<1>6. ~state.known
  BY <1>1, <1>3, <1>4, <1>5 DEF CommitOK, CreatedOK
<1>7. state.owner = None
  BY <1>6 DEF IInv, StateOK, NoState
<1>8. s = "restore" => ~disk.torn /\ disk.tail = <<>>
  BY <1>1, <1>3, <1>4, <1>5 DEF CommitOK, CreatedOK, IInv, StateOK
<1> QED BY <1>1, <1>2, <1>3, <1>4, <1>5, <1>6, <1>7, <1>8

\* A failed repair: the call fails, or the initialization of the session.
LEMMA RepairFailsPreserves ==
  ASSUME IInv, RepairFails
  PROVE  IInv'
<1>1. PICK s \in {"truncate", "restore"} : Repairing(s)
  BY DEF RepairFails
<1>2. /\ chain # <<>> /\ Head(chain).op \in {"commit", "created"} /\ state.owner = None
      /\ Head(chain).op = "commit" => Head(chain).of \in Call
      /\ Head(chain).op = "created" => Head(chain).of \in Life
  BY <1>1, RepairFacts
<1>3. /\ chain' = Tail(chain) /\ troubles' \in Nat
      /\ UNCHANGED <<disk, state, retirement, service, acked>>
  BY DEF RepairFails, Trouble, IInv, Types
<1>4. CASE Head(chain).op = "commit"
  <2>1. PICK c \in Call : c = Head(chain).of
    BY <1>2, <1>4
  <2>2. call' = Ended(CallsWithout(c), c, "failed") /\ entry' = EntryWithout(c) /\ UNCHANGED session
    BY <1>4, <2>1 DEF RepairFails
  <2> QED BY <1>2, <1>3, <1>4, <2>1, <2>2, CommitGivesUp
<1>5. CASE Head(chain).op = "created"
  <2>1. PICK l \in Life : l = Head(chain).of
    BY <1>2, <1>5
  <2>2. session' = [session EXCEPT ![l].init = "failed"] /\ UNCHANGED <<call, entry>>
    BY <1>5, <2>1 DEF RepairFails
  <2>3. session' \in [Life -> SessionRecord]
    <3> DEFINE r == session[l]
               q == [r EXCEPT !.init = "failed"]
    <3>1. r \in SessionRecord /\ session' = [session EXCEPT ![l] = q]
      BY <2>2 DEF IInv, Types
    <3> HIDE DEF r
    <3>2. q \in SessionRecord
      BY <3>1 DEF SessionRecord
    <3> HIDE DEF q
    <3> QED BY <3>1, <3>2 DEF IInv, Types
  <2>4. chain' \in Seq(OpRecord)
    BY <1>2, <1>3, HeadFacts
  <2>5. Types'
    BY <1>3, <2>2, <2>3, <2>4 DEF IInv, Types
  <2>6. StateOK'
    BY <1>2, <1>3 DEF IInv, StateOK
  <2>7. state.owner # l
    BY <1>2, NoneIsNoSession
  <2>8. Len(disk.events) <= Len(disk'.events) /\ Begins(acked, disk'.events)
    BY <1>3, LenProperties DEF IInv, Types, Revision
  <2> QED BY <1>2, <1>3, <1>5, <2>1, <2>2, <2>5, <2>6, <2>7, <2>8, AdoptionStep
<1> QED BY <1>2, <1>4, <1>5

\* The stored log without its torn tail, and with what a repair appends.
LEMMA RepairedLog ==
  ASSUME Types, NEW b \in Seq(Event)
  PROVE  /\ Untorn \in Revision /\ Untorn.events = disk.events /\ Untorn.tail = <<>> /\ ~Untorn.torn
         /\ [disk EXCEPT !.events = @ \o b] \in Revision
         /\ [disk EXCEPT !.events = @ \o b].events = disk.events \o b
         /\ [disk EXCEPT !.events = @ \o b].tail = disk.tail
         /\ [disk EXCEPT !.events = @ \o b].torn = disk.torn
         /\ Begins(disk.events, disk.events \o b)
         /\ disk.events \o b \in Seq(Event)
<1>1. disk \in Revision /\ disk.events \in Seq(Event)
  BY DEF Types, Revision
<1>2. disk.events \o b \in Seq(Event) /\ Begins(disk.events, disk.events \o b)
  <2>1. disk.events \o b \in Seq(Event)
    BY <1>1, ConcatProperties
  <2>2. Begins(disk.events, disk.events \o b)
    BY <1>1, BeginsFacts
  <2> QED BY <2>1, <2>2
<1>3. Untorn \in Revision /\ Untorn.events = disk.events /\ Untorn.tail = <<>> /\ ~Untorn.torn
  <2>1. <<>> \in Seq(Event)
    OBVIOUS
  <2>2. PICK t \in Seq(Event) : t = <<>>
    BY <2>1
  <2>3. Untorn = [disk EXCEPT !.torn = FALSE, !.tail = t]
    BY <2>2 DEF Untorn
  <2> QED BY <1>1, <2>2, <2>3 DEF Revision
<1>4. PICK e \in Seq(Event) : e = disk.events \o b
  BY <1>2
<1>5. [disk EXCEPT !.events = @ \o b] = [disk EXCEPT !.events = e]
  BY <1>4
<1>6. /\ [disk EXCEPT !.events = e] \in Revision /\ [disk EXCEPT !.events = e].events = e
      /\ [disk EXCEPT !.events = e].tail = disk.tail /\ [disk EXCEPT !.events = e].torn = disk.torn
  BY <1>1, <1>4 DEF Revision
<1> QED BY <1>2, <1>3, <1>4, <1>5, <1>6

\* The stored log has grown, so what was acknowledged still begins it.
LEMMA AckedStays ==
  ASSUME IInv, disk' \in Revision, Begins(disk.events, disk'.events)
  PROVE  Len(disk.events) <= Len(disk'.events) /\ Begins(acked, disk'.events)
<1>1. disk.events \in Seq(Event) /\ disk'.events \in Seq(Event) /\ acked \in Seq(Event)
  BY DEF IInv, Types, Revision
<1>2. Begins(acked, disk'.events)
  BY <1>1, BeginsTransitive DEF IInv
<1> QED BY <1>2 DEF Begins

\* The torn tail is cut off; no stored event is in it.
LEMMA TruncatePreserves ==
  ASSUME IInv, Truncate
  PROVE  IInv'
<1>1. /\ Repairing("truncate") /\ disk' = Untorn
      /\ UNCHANGED <<state, entry, retirement, service, session, call, acked, troubles>>
  BY DEF Truncate
<1>2. /\ chain # <<>> /\ ~state.known /\ state.owner = None /\ Head(chain) \in OpRecord
      /\ Head(chain).op \in {"commit", "created"}
      /\ Head(chain).op = "commit" => /\ CommitOK(Head(chain)) /\ Head(chain).of \in Call
                                      /\ call[Head(chain).of].holds
      /\ Head(chain).op = "created" => /\ CreatedOK(Head(chain)) /\ Head(chain).of \in Life
                                       /\ disk.events # <<>>
                                       /\ Begins(disk.events \o Head(chain).batch, session[Head(chain).of].log)
  BY <1>1, RepairFacts
<1>3. PICK b \in Seq(Event) : b = Head(chain).batch
  BY <1>2 DEF OpRecord
<1>4. ToStage("restore", b)
  BY <1>3 DEF Truncate
<1>5. PICK o \in OpRecord :
        /\ chain' \in Seq(OpRecord) /\ DOMAIN chain' = DOMAIN chain
        /\ \A i \in DOMAIN chain \ {1} : chain'[i] = chain[i]
        /\ chain'[1] = o /\ o.op = Head(chain).op /\ o.of = Head(chain).of
        /\ o.n = Head(chain).n /\ o.stage = "restore" /\ o.batch = b
  BY <1>2, <1>4, StagedHead
<1>6. disk' \in Revision /\ disk'.events = disk.events /\ disk'.tail = <<>> /\ ~disk'.torn
  BY <1>1, <1>3, RepairedLog DEF IInv
<1>7. Types'
  BY <1>1, <1>5, <1>6 DEF IInv, Types
<1>8. Begins(disk.events, disk'.events)
  BY <1>6, BeginsFacts DEF Revision
<1>9. Len(disk.events) <= Len(disk'.events) /\ Begins(acked, disk'.events)
  BY <1>6, <1>8, AckedStays
<1>10. StateOK'
  BY <1>1, <1>2, <1>6 DEF IInv, StateOK
<1>11. CASE Head(chain).op = "commit"
  <2>1. PICK c \in Call : c = Head(chain).of
    BY <1>2, <1>11
  <2>2. CommitOK(o)'
    BY <1>1, <1>2, <1>5, <1>6, <1>11, <2>1 DEF CommitOK
  <2>3. OpOK(o)'
    BY <1>5, <1>11, <2>2 DEF OpOK
  <2> QED BY <1>1, <1>2, <1>5, <1>7, <1>9, <1>10, <1>11, <2>1, <2>3, RepairStep
<1>12. CASE Head(chain).op = "created"
  <2>1. PICK l \in Life : l = Head(chain).of
    BY <1>2, <1>12
  <2>2. CreatedOK(o)'
    BY <1>1, <1>2, <1>3, <1>5, <1>6, <1>12, <2>1 DEF CreatedOK
  <2>3. OpOK(o)'
    BY <1>5, <1>12, <2>2 DEF OpOK
  <2>4. state.owner # l
    BY <1>2, NoneIsNoSession
  <2> QED BY <1>1, <1>2, <1>5, <1>7, <1>9, <1>10, <1>12, <2>1, <2>3, <2>4, AdoptionStep
<1> QED BY <1>2, <1>11, <1>12

\* The recovered events and the closers are stored; an adopting session owns the log.
LEMMA RestorePreserves ==
  ASSUME IInv, Restore
  PROVE  IInv'
<1>1. /\ Repairing("restore") /\ disk' = [disk EXCEPT !.events = @ \o Head(chain).batch]
      /\ UNCHANGED <<retirement, service, session, acked, troubles>>
  BY DEF Restore
<1>2. /\ chain # <<>> /\ ~state.known /\ state.owner = None /\ Head(chain) \in OpRecord
      /\ ~disk.torn /\ disk.tail = <<>>
      /\ Head(chain).op \in {"commit", "created"}
      /\ Head(chain).op = "commit" => /\ CommitOK(Head(chain)) /\ Head(chain).of \in Call
                                      /\ call[Head(chain).of].holds
      /\ Head(chain).op = "created" => /\ CreatedOK(Head(chain)) /\ Head(chain).of \in Life
                                       /\ disk.events # <<>>
                                       /\ Begins(disk.events \o Head(chain).batch, session[Head(chain).of].log)
  BY <1>1, RepairFacts
<1>3. PICK b \in Seq(Event) : b = Head(chain).batch
  BY <1>2 DEF OpRecord
<1>4. /\ disk' \in Revision /\ disk'.events = disk.events \o b /\ disk'.tail = <<>> /\ ~disk'.torn
      /\ Begins(disk.events, disk'.events)
  BY <1>1, <1>2, <1>3, RepairedLog DEF IInv
<1>5. Len(disk.events) <= Len(disk'.events) /\ Begins(acked, disk'.events)
  BY <1>4, AckedStays
<1>6. CASE Head(chain).op = "commit"
  <2>1. PICK c \in Call : c = Head(chain).of
    BY <1>2, <1>6
  <2>2. /\ call' = Restarted(CallsWithout(c), c) /\ entry' = NoEntry
        /\ chain' = Tail(chain) /\ UNCHANGED state
    BY <1>2, <1>6, <2>1 DEF Restore, EntryWithout
  <2>3. call' \in [Call -> CallRecord]
    BY <2>2, WithoutEntryFacts, RestartedFacts DEF IInv
  <2>4. Types'
    BY <1>1, <1>2, <1>4, <2>2, <2>3, HeadFacts, BlankEntry DEF IInv, Types
  <2>5. StateOK'
    BY <1>1, <1>2, <1>4, <2>2 DEF IInv, StateOK
  <2> QED BY <1>1, <1>2, <1>5, <1>6, <2>1, <2>2, <2>4, <2>5, RepairStep
\* The session owns the log that it has adopted.
<1>7. CASE Head(chain).op = "created"
  <2>1. PICK l \in Life : l = Head(chain).of
    BY <1>2, <1>7
  <2>2. /\ state' = Owned(Len(disk'.events), l) /\ ToStage("append", <<>>) /\ UNCHANGED <<call, entry>>
    BY <1>7, <2>1 DEF Restore
  <2>3. <<>> \in Seq(Event)
    OBVIOUS
  <2>4. PICK o \in OpRecord :
        /\ chain' \in Seq(OpRecord) /\ DOMAIN chain' = DOMAIN chain
        /\ \A i \in DOMAIN chain \ {1} : chain'[i] = chain[i]
        /\ chain'[1] = o /\ o.op = Head(chain).op /\ o.of = Head(chain).of
        /\ o.n = Head(chain).n /\ o.stage = "append" /\ o.batch = <<>>
    BY <1>2, <2>2, <2>3, StagedHead, Zenon
  <2>5. disk'.events \in Seq(Event) /\ Len(disk'.events) \in Nat
    BY <1>4, LenProperties DEF Revision
  <2>6. /\ state' \in StateRecord /\ state'.cursor = Len(disk'.events) /\ state'.owner = l
        /\ state'.known /\ (state'.materialized <=> Len(disk'.events) > 0)
    BY <2>2, <2>5, OwnedState
  <2>7. Types'
    BY <1>1, <1>4, <2>2, <2>4, <2>6 DEF IInv, Types
  <2>8. session[l].init = "pending" /\ Controller(session[l])
    BY <1>2, <1>7, <2>1 DEF CreatedOK, IInv, SessionOK
  <2>9. session[l].tracked /\ l # None
    BY <2>8, NoneIsNoSession DEF Controller
  <2>10. StateOK'
    <3>1. Begins(disk'.events, session'[l].log)
      BY <1>1, <1>2, <1>3, <1>4, <1>7, <2>1
    <3>2. state'.cursor = IF state'.materialized THEN Len(disk'.events) ELSE 0
      BY <2>5, <2>6
    <3> QED BY <1>1, <1>4, <2>6, <2>9, <3>1, <3>2 DEF StateOK
  <2>11. CreatedOK(o)'
    BY <1>1, <1>2, <1>7, <2>1, <2>4, <2>6 DEF CreatedOK
  <2>12. OpOK(o)'
    BY <1>7, <2>4, <2>11 DEF OpOK
  <2>13. state.owner # l
    BY <1>2, NoneIsNoSession
  <2> QED BY <1>1, <1>2, <1>5, <1>7, <2>1, <2>2, <2>4, <2>6, <2>7, <2>10, <2>12, <2>13, AdoptionStep
<1> QED BY <1>2, <1>6, <1>7

-----------------------------------------------------------------------------
(* The session of a reservation *)

\* The session of a reservation is prepared, and the plugin does not track it.
LEMMA PreparedFacts ==
  ASSUME IInv, NEW c \in Call, call[c].pc = "reserved"
  PROVE  /\ c \in Life /\ session[c] \in SessionRecord /\ session[c].phase = "prepared"
         /\ ~session[c].tracked /\ session[c].init = "none" /\ session[c].admitted = 0
         /\ session[c].written = 0 /\ session[c].writing = "none" /\ session[c].waiters = {}
         /\ session[c].retire = "none" /\ session[c].log \in Seq(Event)
         /\ state.owner # c /\ retirement # c
         /\ \A j \in DOMAIN chain : chain[j].op \in SessionOps => chain[j].of # c
<1> USE DEF IInv
<1>1. /\ c \in Life /\ session[c] \in SessionRecord /\ session[c].phase = "prepared"
      /\ Controller(session[c]) /\ session[c].log \in Seq(Event)
  BY DEF CallOK, Types, SessionOK, SessionRecord, Life
<1>2. /\ ~session[c].tracked /\ session[c].init = "none" /\ session[c].admitted = 0
      /\ session[c].written = 0 /\ session[c].writing = "none" /\ session[c].waiters = {}
      /\ session[c].retire = "none"
  BY <1>1 DEF Controller, SessionRecord
<1>3. state.owner # c /\ retirement # c
  BY <1>1, <1>2, NoneIsNoSession DEF StateOK, RegistryOK
<1>4. \A j \in DOMAIN chain : chain[j].op \in SessionOps => chain[j].of # c
  BY <1>2, OpsAreTracked
<1> QED BY <1>1, <1>2, <1>3, <1>4

\* The holder of a reservation makes the log of its session longer.
LEMMA AppendUnpublishedPreserves ==
  ASSUME IInv, NEW c \in Call, AppendUnpublished(c)
  PROVE  IInv'
<1> USE DEF IInv
<1> DEFINE r == session[c]
           q == session'[c]
<1>1. /\ c \in Life /\ r \in SessionRecord /\ r.phase = "prepared" /\ ~r.tracked
      /\ r.init = "none" /\ r.admitted = 0 /\ r.written = 0 /\ r.writing = "none"
      /\ r.waiters = {} /\ r.retire = "none" /\ c \in Event /\ r.log \in Seq(Event)
      /\ \A j \in DOMAIN chain : chain[j].op \in SessionOps => chain[j].of # c
  BY PreparedFacts DEF AppendUnpublished, Event
<1>2. /\ UNCHANGED <<disk, state, entry, call, service, chain, retirement, acked, troubles>>
      /\ session' = [session EXCEPT ![c] = [r EXCEPT !.log = Append(r.log, c)]]
  BY <1>1 DEF AppendUnpublished, coordVars, Types
<1>3. q = [r EXCEPT !.log = Append(r.log, c)] /\ \A m \in Life \ {c} : session'[m] = session[m]
  BY <1>1, <1>2 DEF Types
<1>4. PICK e \in Seq(Event) : e = Append(r.log, c)
  BY <1>1, AppendProperties
<1>5. Begins(r.log, e) /\ Len(e) \in Nat
  BY <1>1, <1>4, BeginsFacts, LenProperties
<1>6. q = [r EXCEPT !.log = e]
  BY <1>3, <1>4, Zenon
<1> HIDE DEF r, q
<1>7. /\ q \in SessionRecord /\ q.log = e /\ q.phase = r.phase /\ q.tracked = r.tracked /\ q.init = r.init
      /\ q.admitted = r.admitted /\ q.written = r.written /\ q.writing = r.writing
      /\ q.waiters = r.waiters /\ q.retire = r.retire
  BY <1>1, <1>6 DEF SessionRecord
<1>8. Types'
  BY <1>1, <1>2, <1>3, <1>7 DEF Types, q, r
<1>9. Controller(q) /\ WriterOK(c)'
  BY <1>1, <1>5, <1>7 DEF Controller, WriterOK, q
<1>10. \A m \in Life : session'[m].phase = session[m].phase /\ session'[m].tracked = session[m].tracked
                       /\ session'[m].retire = session[m].retire /\ session'[m].writing = session[m].writing
                       /\ session'[m].waiters = session[m].waiters
  BY <1>3, <1>7 DEF q, r
<1>11. retirement' # None => session'[retirement'].retire \in {"draining", "forgetting"}
  BY <1>2, <1>10 DEF RegistryOK, Types
<1>12. OrderOK'
  BY <1>2, <1>8, <1>10, OrderKept
<1>13. \A i \in DOMAIN chain' :
         \/ \E j \in DOMAIN chain :
              /\ chain'[i] = chain[j]
              /\ chain[j].op \in SessionOps /\ chain[j].of = c => Steady(session[c], session'[c])
         \/ /\ OpOK(chain[i])'
            /\ chain'[i].op = "created" => \E j \in DOMAIN chain : chain[j].op = "created"
  BY <1>1, <1>2
<1>14. session'[c].phase = session[c].phase /\ Begins(session[c].log, session'[c].log)
       /\ ~session[c].tracked /\ Controller(session'[c])
  BY <1>1, <1>5, <1>7, <1>9 DEF q, r
<1>15. StateOK' /\ SessionOK' /\ RegistryOK' /\ ChainOK' /\ EntryOK' /\ CallOK'
  BY <1>1, <1>2, <1>3, <1>8, <1>9, <1>11, <1>12, <1>13, <1>14, SessionStep
<1>16. FlushedOK'
  BY <1>1, <1>2, <1>3, <1>7 DEF FlushedOK, q
<1>17. InFlightOK'
  BY <1>2, <1>10 DEF InFlightOK
<1>18. ClosedOK'
  BY <1>1, <1>2, <1>3, <1>7, <1>10 DEF ClosedOK, q
<1> QED BY <1>2, <1>8, <1>12, <1>15, <1>16, <1>17, <1>18

\* attachPrepared(): the holder of the reservation owns the state.
LEMMA AttachPreserves ==
  ASSUME IInv, NEW c \in Call, Publish(c), service = "running", call[c].holds
  PROVE  IInv'
<1> USE DEF IInv
<1> DEFINE r == session[c]
           q == session'[c]
           p == [r EXCEPT !.phase = "live", !.tracked = TRUE, !.init = "pending",
                          !.admitted = Len(r.log), !.written = Len(r.log)]
           suffix == Len(r.log) > state.cursor
<1>1. /\ c \in Life /\ r \in SessionRecord /\ r.phase = "prepared" /\ ~r.tracked
      /\ r.init = "none" /\ r.admitted = 0 /\ r.written = 0 /\ r.writing = "none"
      /\ r.waiters = {} /\ r.retire = "none" /\ r.log \in Seq(Event) /\ retirement # c
      /\ \A j \in DOMAIN chain : chain[j].op \in SessionOps => chain[j].of # c
  BY PreparedFacts DEF Publish
<1>2. /\ entry.phase = "reserved" /\ Begins(disk.events, r.log) /\ Len(r.log) \in Nat
      /\ state.known /\ state.owner = None /\ state.materialized /\ state.cursor = Len(disk.events)
      /\ disk.events # <<>> /\ ~disk.torn
      /\ \A m \in Life : session[m].phase # "live"
      /\ \A i \in DOMAIN chain : chain[i].op # "created"
  BY <1>1, LenProperties DEF CallOK, EntryOK, StateOK, Publish
<1>3. /\ UNCHANGED <<disk, retirement, service, acked, troubles>>
      /\ state' = [state EXCEPT !.owner = c] /\ entry' = NoEntry
      /\ session' = [session EXCEPT ![c] = IF suffix THEN Tracked(r) ELSE [Tracked(r) EXCEPT !.init = "ready"]]
      /\ IF suffix THEN Enqueue(Op("suffix", c, Len(r.log), "append")) ELSE UNCHANGED chain
      /\ call' = Ended(Unheld, c, "published")
  <2>1. Tracked(r).log = r.log
    BY <1>1 DEF Tracked, SessionRecord
  <2> QED BY <2>1 DEF Publish
<1>4. Tracked(r) = p
  BY <1>1 DEF Tracked, SessionRecord
<1>5. /\ p \in SessionRecord /\ p.phase = "live" /\ p.log = r.log /\ p.tracked /\ p.init = "pending"
      /\ p.admitted = Len(r.log) /\ p.written = Len(r.log) /\ p.writing = "none" /\ p.waiters = {}
      /\ p.retire = "none"
  <2> HIDE DEF r
  <2> QED BY <1>1, <1>2 DEF SessionRecord
<1> HIDE DEF p
<1>6. /\ q \in SessionRecord /\ q.phase = "live" /\ q.log = r.log /\ q.tracked
      /\ q.admitted = Len(r.log) /\ q.written = Len(r.log) /\ q.writing = "none" /\ q.waiters = {}
      /\ q.retire = "none" /\ q.init = (IF suffix THEN "pending" ELSE "ready")
      /\ \A m \in Life \ {c} : session'[m] = session[m]
  <2>1. CASE suffix
    <3>1. q = p /\ \A m \in Life \ {c} : session'[m] = session[m]
      BY <1>1, <1>3, <1>4, <2>1 DEF Types
    <3> HIDE DEF q, r
    <3> QED BY <1>5, <2>1, <3>1
  <2>2. CASE ~suffix
    <3>1. q = [p EXCEPT !.init = "ready"] /\ \A m \in Life \ {c} : session'[m] = session[m]
      BY <1>1, <1>3, <1>4, <2>2 DEF Types
    <3> HIDE DEF q, r
    <3> QED BY <1>5, <2>2, <3>1 DEF SessionRecord
  <2> QED BY <2>1, <2>2
<1>7. session' \in [Life -> SessionRecord]
  BY <1>3, <1>6 DEF Types
<1>8. PICK o \in OpRecord : /\ o = Op("suffix", c, Len(r.log), "append")
                            /\ o.op = "suffix" /\ o.of = c /\ o.n = Len(r.log) /\ o.stage = "append"
  BY <1>1, <1>2, NewOp
<1>9. suffix => chain' = Append(chain, o)
  BY <1>3, <1>8 DEF Enqueue
<1>10. ~suffix => chain' = chain
  BY <1>3
<1>11. /\ state' \in StateRecord /\ state'.owner = c /\ state'.known /\ state'.materialized
       /\ state'.cursor = Len(disk.events)
  BY <1>1, <1>2, <1>3 DEF Types, StateRecord
<1>12. /\ call' \in [Call -> CallRecord] /\ call'[c].pc = "published"
       /\ \A d \in Call : ~call'[d].holds
       /\ \A d \in Call \ {c} : call'[d].pc = call[d].pc /\ call'[d].rev = call[d].rev
  <2>1. /\ Unheld \in [Call -> CallRecord]
        /\ \A d \in Call : ~Unheld[d].holds /\ Unheld[d].pc = call[d].pc /\ Unheld[d].rev = call[d].rev
    BY UnheldFacts
  <2>2. /\ call' \in [Call -> CallRecord] /\ call'[c].pc = "published" /\ ~call'[c].holds
        /\ \A d \in Call \ {c} : call'[d] = Unheld[d]
    BY <1>3, <2>1, EndedFacts
  <2> QED BY <2>1, <2>2
<1> HIDE DEF q, r, suffix
<1>13. /\ chain' \in Seq(OpRecord)
       /\ suffix => /\ DOMAIN chain' = DOMAIN chain \union {Len(chain) + 1}
                    /\ chain'[Len(chain) + 1] = o
       /\ \A i \in DOMAIN chain : i \in DOMAIN chain' /\ chain'[i] = chain[i]
  <2>1. CASE suffix
    <3>1. chain \in Seq(OpRecord) /\ chain' = Append(chain, o)
      BY <1>9, <2>1 DEF Types
    <3>2. /\ chain' \in Seq(OpRecord) /\ DOMAIN chain' = DOMAIN chain \union {Len(chain) + 1}
          /\ \A i \in DOMAIN chain : chain'[i] = chain[i]
          /\ chain'[Len(chain) + 1] = o
      BY <3>1, AppendFacts
    <3> QED BY <2>1, <3>2
  <2>2. CASE ~suffix
    BY <1>10, <2>2 DEF Types
  <2> QED BY <2>1, <2>2
<1>14. Types'
  BY <1>3, <1>7, <1>11, <1>12, <1>13, BlankEntry DEF Types
<1>15. StateOK'
  BY <1>2, <1>3, <1>6, <1>11, NoneIsNoSession DEF StateOK, q, r
<1>16. Controller(q) /\ WriterOK(c)'
  <2>1. Controller(q)
    BY <1>2, <1>6 DEF Controller, r
  <2>2. Len(r.log) <= state'.cursor \/ suffix
    <3>1. state.cursor \in Nat
      BY DEF Types, StateRecord
    <3> QED BY <1>2, <1>11, <3>1 DEF suffix, r
  <2> QED BY <1>6, <1>11, <2>1, <2>2 DEF WriterOK, q
<1>17. SessionOK'
  <2> SUFFICES ASSUME NEW m \in Life, m # c PROVE Controller(session[m])' /\ WriterOK(m)'
    BY <1>16 DEF SessionOK, q
  <2>1. session'[m] = session[m] /\ Controller(session[m]) /\ WriterOK(m) /\ state.owner # m
    BY <1>2, <1>6, NoneIsNoSession DEF SessionOK
  <2> QED BY <1>11, <2>1 DEF WriterOK
<1>18. RegistryOK'
  <2>1. \A m \in Life : session'[m].phase = "live" => m = c
    BY <1>2, <1>6
  <2>2. retirement # None => session'[retirement].retire \in {"draining", "forgetting"}
    BY <1>1, <1>6 DEF RegistryOK, Types
  <2> QED BY <1>3, <1>6, <2>1, <2>2 DEF RegistryOK, q
<1>19. OrderOK'
  <2>1. CASE suffix
    <3>1. \A i \in DOMAIN chain : ~Alike(chain[i], o)
      BY <1>1, <1>8 DEF SessionOps, Alike
    <3>2. o.stage = Waiting(o.op)
      BY <1>8 DEF Waiting
    <3> QED BY <1>2, <1>8, <1>9, <1>14, <2>1, <3>1, <3>2, OrderAppended
  <2>2. CASE ~suffix
    BY <1>2, <1>10, <2>2 DEF OrderOK
  <2> QED BY <2>1, <2>2
<1>20. ASSUME NEW j \in DOMAIN chain PROVE Keeps(chain[j])
  <2>1. chain[j] \in OpRecord /\ OpOK(chain[j])
    BY ElementOfSeq, LenProperties DEF Types, ChainOK
  <2>2. chain[j].op \notin {"created", "suffix", "load"}
    BY <1>2, <2>1, NoneIsNoSession DEF OpOK, SuffixOK
  <2>3. chain[j].op # "append"
    <3> SUFFICES ASSUME chain[j].op = "append" PROVE FALSE
      OBVIOUS
    <3>1. chain[j].of \in Life /\ session[chain[j].of].writing # "none"
      BY <2>1 DEF OpOK, AppendOK
    <3>2. Controller(session[chain[j].of]) /\ WriterOK(chain[j].of) /\ state.owner # chain[j].of
      BY <1>2, <3>1, NoneIsNoSession DEF SessionOK
    <3> QED BY <3>1, <3>2 DEF Controller, WriterOK
  <2>4. chain[j].op = "forget" => Steady(session[chain[j].of], session'[chain[j].of])
    <3> SUFFICES ASSUME chain[j].op = "forget" PROVE Steady(session[chain[j].of], session'[chain[j].of])
      OBVIOUS
    <3>1. chain[j].of \in Life \ {c}
      BY <1>1, OpsAreTracked DEF SessionOps
    <3>2. session'[chain[j].of] = session[chain[j].of] /\ session[chain[j].of] \in SessionRecord
      BY <1>6, <3>1 DEF Types
    <3>3. Begins(session[chain[j].of].log, session[chain[j].of].log)
      BY <3>2, BeginsFacts DEF SessionRecord
    <3> QED BY <3>2, <3>3 DEF Steady, SessionRecord
  <2>5. chain[j].op = "check" => call'[chain[j].of].pc = "checking"
    <3>1. chain[j].op = "check" => chain[j].of \in Call /\ call[chain[j].of].pc = "checking"
      BY <2>1 DEF OpOK
    <3>2. call[c].pc = "reserved"
      BY DEF Publish
    <3> QED BY <1>12, <3>1, <3>2
  <2>6. ASSUME chain[j].op = "commit"
        PROVE  /\ call'[chain[j].of].pc = "committing" /\ call'[chain[j].of].rev = call[chain[j].of].rev
               /\ ~call'[chain[j].of].holds
               /\ chain[j].stage = "queued" /\ Len(call[chain[j].of].rev.events) < Len(disk'.events)
    <3>1. CommitOK(chain[j])
      BY <2>1, <2>6 DEF OpOK
    <3>2. PICK d \in Call \ {c} : d = chain[j].of
      BY <3>1 DEF CommitOK, Publish
    <3>3. call[d].pc = "committing" /\ ~call[d].holds
      BY <1>2, <3>1, <3>2 DEF CommitOK, CallOK
    <3>4. chain[j].stage = "queued" /\ Len(call[d].rev.events) < Len(disk.events)
      BY <3>1, <3>2, <3>3 DEF CommitOK
    <3> QED BY <1>3, <1>12, <3>2, <3>3, <3>4
  <2>7. chain[j].op \in {"forget", "commit", "check"} /\ chain[j].stage = "queued"
    BY <2>1, <2>2, <2>3, <2>6 DEF OpOK, OpRecord
  <2> QED BY <2>4, <2>5, <2>6, <2>7 DEF Keeps
<1>21. ChainOK'
  <2>1. suffix => OpOK(o)'
    <3>1. suffix => SuffixOK(o)'
      BY <1>1, <1>6, <1>8, <1>11 DEF SuffixOK, q
    <3> QED BY <1>8, <3>1 DEF OpOK
  <2>2. \A i \in DOMAIN chain' : i \in DOMAIN chain \/ (suffix /\ chain'[i] = o)
    BY <1>10, <1>13
  <2> QED BY <1>13, <1>14, <1>20, <2>1, <2>2, ChainFrame
<1>22. EntryOK'
  BY <1>3, BlankEntry DEF EntryOK
<1>23. CallOK'
  <2>1. \A d \in Call : d \in Life
    BY DEF Life
  <2>2. \A d \in Call \ {c} : session'[d] = session[d]
    BY <1>6, <2>1
  <2> QED BY <1>12, <2>2 DEF CallOK
<1>24. FlushedOK' /\ ClosedOK'
  BY <1>3 DEF FlushedOK, ClosedOK
<1>25. InFlightOK'
  BY <1>6, <1>13 DEF InFlightOK, q
<1> QED BY <1>3, <1>14, <1>15, <1>17, <1>18, <1>19, <1>21, <1>22, <1>23, <1>24, <1>25

\* The session of a reservation enters the registry, with its reservation or as a new one.
LEMMA PublishPreserves ==
  ASSUME IInv, NEW c \in Call, Publish(c)
  PROVE  IInv'
<1>1. CASE service = "running" /\ call[c].holds
  BY <1>1, AttachPreserves
<1>2. CASE ~(service = "running" /\ call[c].holds)
  <2>1. /\ Enter(c, session[c].log) /\ call' = Ended(call, c, "published")
        /\ UNCHANGED <<disk, state, entry, retirement, service, acked, troubles>>
        /\ call[c].pc = "reserved"
    BY <1>2 DEF Publish
  <2>2. c \in Life /\ session[c].phase = "prepared" /\ session[c].log \in Seq(Event)
    BY <2>1, PreparedFacts
  <2>3. /\ call' \in [Call -> CallRecord] /\ call'[c].pc = "published" /\ ~call'[c].holds
        /\ \A d \in Call \ {c} : call'[d] = call[d]
    <3>1. call \in [Call -> CallRecord]
      BY DEF IInv, Types
    <3> QED BY <2>1, <3>1, EndedFacts
  <2> QED BY <2>1, <2>2, <2>3, EnterPreserves
<1> QED BY <1>1, <1>2

-----------------------------------------------------------------------------
(* The plugin's disposal and reload, and the death of the process *)

\* The plugin starts to unload: every session of the live map is flushed.
LEMMA DisposePreserves ==
  ASSUME IInv, Dispose
  PROVE  IInv'
<1> USE DEF IInv
<1>1. /\ service = "running" /\ service' = "disposing"
      /\ UNCHANGED <<disk, state, entry, chain, retirement, call, acked, troubles>>
  BY DEF Dispose
<1>2. ASSUME NEW m \in Life
      PROVE  /\ session[m] \in SessionRecord /\ session'[m] \in SessionRecord
             /\ session'[m].tracked = session[m].tracked /\ session'[m].phase = session[m].phase
             /\ session'[m].log = session[m].log /\ session'[m].init = session[m].init
             /\ session'[m].admitted = session[m].admitted /\ session'[m].written = session[m].written
             /\ session'[m].writing = session[m].writing /\ session'[m].retire = session[m].retire
             /\ session[m].tracked => session'[m].waiters = session[m].waiters \union {"dispose"}
             /\ ~session[m].tracked => session'[m].waiters = session[m].waiters
  <2> DEFINE r == session[m]
             q == session'[m]
  <2>1. r \in SessionRecord
    BY DEF Types
  <2>2. q = IF r.tracked THEN [r EXCEPT !.waiters = r.waiters \union {"dispose"}, !.paused = FALSE] ELSE r
    BY <2>1 DEF Dispose, IsTracked, SessionRecord
  <2> HIDE DEF q, r
  <2>3. CASE r.tracked
    <3>1. q = [r EXCEPT !.waiters = r.waiters \union {"dispose"}, !.paused = FALSE]
      BY <2>2, <2>3
    <3>2. /\ q \in SessionRecord /\ q.tracked = r.tracked /\ q.phase = r.phase /\ q.log = r.log
          /\ q.init = r.init /\ q.admitted = r.admitted /\ q.written = r.written
          /\ q.writing = r.writing /\ q.retire = r.retire /\ q.waiters = r.waiters \union {"dispose"}
      BY <2>1, <3>1 DEF SessionRecord
    <3> QED BY <2>1, <2>3, <3>2 DEF q, r
  <2>4. CASE ~r.tracked
    BY <2>1, <2>2, <2>4 DEF q, r
  <2> QED BY <2>3, <2>4
<1>3. session' \in [Life -> SessionRecord]
  <2>1. session' = [l \in Life |-> session'[l]]
    BY DEF Dispose
  <2> QED BY <1>2, <2>1
<1>4. Types'
  BY <1>1, <1>3 DEF Types
<1>5. \A m \in Life : Begins(session[m].log, session'[m].log)
  BY <1>2, BeginsFacts DEF SessionRecord
<1>6. StateOK'
  <2>1. state.owner # None => state.owner \in Life /\ session[state.owner].tracked
    BY DEF StateOK, Types, StateRecord
  <2> QED BY <1>1, <1>2, <1>4, <1>5, <2>1, StateFrame
<1>7. SessionOK'
  <2> SUFFICES ASSUME NEW m \in Life PROVE Controller(session'[m]) /\ WriterOK(m)'
    BY DEF SessionOK
  <2>1. Controller(session[m]) /\ WriterOK(m)
    BY DEF SessionOK
  <2>2. Controller(session'[m])
    BY <1>2, <2>1 DEF Controller, SessionRecord
  <2>3. WriterOK(m)'
    BY <1>1, <1>2, <2>1 DEF WriterOK
  <2> QED BY <2>2, <2>3
<1>8. RegistryOK'
  BY <1>1, <1>2 DEF RegistryOK, Types
<1>9. OrderOK'
  BY <1>1, <1>2, <1>4, OrderKept
<1>10. ChainOK'
  <2> SUFFICES ASSUME NEW j \in DOMAIN chain PROVE Keeps(chain[j])
    BY <1>1, <1>4, ChainFrame
  <2>1. chain[j] \in OpRecord /\ OpOK(chain[j])
    BY ElementOfSeq, LenProperties DEF Types, ChainOK
  <2>2. chain[j].op \in {"created", "suffix", "append", "forget"} =>
          Steady(session[chain[j].of], session'[chain[j].of])
    <3>1. chain[j].op \in {"created", "suffix", "append", "forget"} => chain[j].of \in Life
      BY OpsAreTracked DEF SessionOps
    <3> QED BY <1>2, <1>5, <3>1 DEF Steady, SessionRecord
  <2> QED BY <1>1, <1>4, <2>1, <2>2, KeepsWithSteadySession
<1>11. EntryOK'
  BY <1>1, <1>2, <1>4, EntryFrame
<1>12. CallOK'
  <2>1. \A c \in Call : c \in Life
    BY DEF Life
  <2> QED BY <1>1, <1>2, <1>4, <1>5, <2>1, CallFrame
<1>13. FlushedOK'
  BY <1>2 DEF FlushedOK
<1>14. InFlightOK'
  BY <1>1, <1>2 DEF InFlightOK
<1>15. ClosedOK'
  BY <1>1 DEF ClosedOK
<1> QED BY <1>1, <1>4, <1>6, <1>7, <1>8, <1>9, <1>10, <1>11, <1>12, <1>13, <1>14, <1>15

\* The plugin is closed: nobody waits, and the calls in progress fail.
LEMMA ClosePreserves ==
  ASSUME IInv, Close
  PROVE  IInv'
<1> USE DEF IInv
<1>1. /\ service = "disposing" /\ service' = "closed" /\ chain = <<>> /\ Quiet
      /\ \A l \in Life : "dispose" \notin session[l].waiters
      /\ UNCHANGED <<disk, state, entry, chain, retirement, session, acked, troubles>>
  BY DEF Close
<1>2. ASSUME NEW c \in Call
      PROVE  \/ call[c].pc \in {"wait", "reading"} /\ call'[c].pc = "failed" /\ ~call'[c].holds
             \/ call[c].pc \notin {"wait", "reading"} /\ call'[c] = call[c]
  BY DEF Close, Idle
<1>3. call' \in [Call -> CallRecord]
  <2>1. NoEntry.rev \in Revision
    BY BlankEntry
  <2>2. [Idle EXCEPT !.pc = "failed"] \in CallRecord
    BY <2>1 DEF Idle, CallRecord
  <2> QED BY <2>2 DEF Close, Types
<1>4. Types'
  BY <1>1, <1>3 DEF Types
<1>5. StateOK' /\ SessionOK' /\ RegistryOK' /\ OrderOK' /\ EntryOK' /\ InFlightOK'
  <2>1. StateOK' /\ SessionOK'
    BY <1>1 DEF StateOK, SessionOK, Controller, WriterOK
  <2>2. RegistryOK' /\ OrderOK' /\ InFlightOK'
    BY <1>1 DEF RegistryOK, OrderOK, InFlightOK, Alike
  <2>3. EntryOK'
    BY <1>1 DEF EntryOK
  <2> QED BY <2>1, <2>2, <2>3
<1>6. ChainOK'
  BY <1>1 DEF ChainOK
<1>7. CallOK'
  BY <1>1, <1>2 DEF CallOK
<1>8. \A l \in Life : session[l].tracked => Flushed(session[l])
  BY <1>1 DEF FlushedOK
\* A waiter that is left would be due, or wait for an operation of the chain.
<1>9. \A l \in Life : session[l].waiters = {}
  <2> SUFFICES ASSUME NEW l \in Life PROVE session[l].waiters = {}
    OBVIOUS
  <2>1. session[l] \in SessionRecord /\ Controller(session[l])
    BY DEF Types, SessionOK
  <2>2. CASE ~session[l].tracked
    BY <2>1, <2>2 DEF Controller
  <2>3. CASE session[l].tracked
    <3>1. Flushed(session[l]) /\ "dispose" \notin session[l].waiters
      BY <1>1, <1>8, <2>3
    <3>2. session[l].init # "pending" /\ session[l].waiters \subseteq {"load"}
      BY <2>1, <3>1 DEF Flushed, SessionRecord
    <3>3. session[l].writing = "none"
      BY <1>1 DEF InFlightOK
    <3>4. session[l].waiters \ {"flush"} = {}
      BY <1>1, <3>2, <3>3 DEF Quiet
    <3> QED BY <3>2, <3>4
  <2> QED BY <2>2, <2>3
<1>10. FlushedOK' /\ ClosedOK'
  <2>1. \A l \in Life : session'[l].tracked => Flushed(session'[l])
    BY <1>1, <1>8
  <2>2. \A c \in Call : call'[c].pc \notin {"wait", "reading"}
    BY <1>2
  <2> QED BY <1>1, <1>9, <2>1, <2>2 DEF FlushedOK, ClosedOK
<1> QED BY <1>1, <1>4, <1>5, <1>6, <1>7, <1>10

\* What a session is to a coordinator that has just started.
LEMMA UntrackedFacts ==
  ASSUME NEW r \in SessionRecord
  PROVE  /\ Untracked(r) \in SessionRecord /\ Controller(Untracked(r))
         /\ Untracked(r).phase = r.phase /\ ~Untracked(r).tracked /\ Untracked(r).init = "none"
         /\ Untracked(r).writing = "none" /\ Untracked(r).waiters = {} /\ Untracked(r).retire = "none"
         /\ Len(Untracked(r).log) \in Nat
         /\ r.phase # "disposed" => Untracked(r).log = r.log
<1>1. CASE r.phase = "disposed"
  <2>1. Untracked(r) = Gone
    BY <1>1 DEF Untracked
  <2>2. Len(Gone.log) = 0
    BY BlankRecords, EmptySeq
  <2>3. Controller(Gone)
    BY BlankRecords, <2>2 DEF Controller
  <2> QED BY <1>1, <2>1, <2>2, <2>3, BlankRecords
<1>2. CASE r.phase # "disposed"
  <2> DEFINE q == [Unborn EXCEPT !.phase = r.phase, !.log = r.log]
  <2>1. Untracked(r) = q
    BY <1>2 DEF Untracked
  <2>2. Len(r.log) \in Nat /\ r.phase \in {"none", "prepared", "live", "disposed"} /\ r.log \in Seq(Event)
    BY LenProperties DEF SessionRecord
  <2>3. Unborn \in SessionRecord
    BY BlankRecords
  <2>4. /\ q \in SessionRecord /\ q.phase = r.phase /\ q.log = r.log /\ ~q.tracked /\ q.init = "none"
        /\ q.admitted = 0 /\ q.written = 0 /\ q.writing = "none" /\ q.waiters = {} /\ q.retire = "none"
    BY <2>2, <2>3 DEF Unborn, SessionRecord
  <2> HIDE DEF q
  <2>5. Controller(q)
    BY <2>2, <2>4 DEF Controller
  <2> QED BY <2>1, <2>2, <2>4, <2>5
<1> QED BY <1>1, <1>2

\* A live session that a coordinator starts to track.
LEMMA TrackedFacts ==
  ASSUME NEW r \in SessionRecord, Len(r.log) \in Nat, r.writing = "none", r.waiters = {}, r.retire = "none"
  PROVE  /\ Tracked(r) \in SessionRecord /\ Controller(Tracked(r))
         /\ Tracked(r).phase = "live" /\ Tracked(r).log = r.log /\ Tracked(r).tracked
         /\ Tracked(r).init = "pending" /\ Tracked(r).written = Len(r.log)
         /\ Tracked(r).writing = "none"
<1> DEFINE q == Tracked(r)
<1>1. /\ q \in SessionRecord /\ q.phase = "live" /\ q.log = r.log /\ q.tracked /\ q.init = "pending"
      /\ q.admitted = Len(r.log) /\ q.written = Len(r.log) /\ q.writing = "none" /\ q.waiters = {}
      /\ q.retire = "none"
  BY DEF Tracked, SessionRecord
<1> HIDE DEF q
<1>2. Controller(q)
  BY <1>1 DEF Controller
<1> QED BY <1>1, <1>2 DEF q

\* A new coordinator knows nothing and initializes the live session again.
LEMMA ReloadPreserves ==
  ASSUME IInv, Reload
  PROVE  IInv'
<1> USE DEF IInv
<1>1. /\ service = "closed" /\ service' = "running" /\ troubles' \in Nat
      /\ state' = NoState /\ entry' = NoEntry /\ retirement' = None /\ call' = Unheld
      /\ UNCHANGED <<disk, acked>>
  BY DEF Reload, Trouble, Types
<1>2. ASSUME NEW m \in Life
      PROVE  /\ session'[m] \in SessionRecord /\ Controller(session'[m])
             /\ session'[m].phase = session[m].phase /\ session'[m].init # "ready"
             /\ session'[m].writing = "none"
             /\ session[m].phase = "live" =>
                  /\ session'[m].tracked /\ session'[m].init = "pending"
                  /\ session'[m].written = Len(session[m].log)
  <2> DEFINE r == session[m]
             u == Untracked(r)
  <2>1. r \in SessionRecord
    BY DEF Types
  <2>2. session'[m] = IF r.phase = "live" THEN Tracked(u) ELSE u
    BY DEF Reload, InRegistry
  <2>3. /\ u \in SessionRecord /\ Controller(u) /\ u.phase = r.phase /\ u.init = "none" /\ u.writing = "none"
        /\ u.waiters = {} /\ u.retire = "none" /\ Len(u.log) \in Nat
        /\ r.phase = "live" => u.log = r.log
    BY <2>1, UntrackedFacts
  <2> HIDE DEF u, r
  <2>4. CASE r.phase = "live"
    <3>1. /\ Tracked(u) \in SessionRecord /\ Controller(Tracked(u))
          /\ Tracked(u).phase = "live" /\ Tracked(u).tracked
          /\ Tracked(u).init = "pending" /\ Tracked(u).written = Len(u.log)
          /\ Tracked(u).writing = "none"
      BY <2>3, TrackedFacts
    <3> QED BY <2>2, <2>3, <2>4, <3>1 DEF r
  <2>5. CASE r.phase # "live"
    BY <2>2, <2>3, <2>5 DEF r
  <2> QED BY <2>4, <2>5
<1>3. session' \in [Life -> SessionRecord]
  <2>1. session' = [l \in Life |-> session'[l]]
    BY DEF Reload
  <2> QED BY <1>2, <2>1
<1>4. \/ chain' = <<>>
      \/ \E l \in Life, o \in OpRecord :
           /\ session[l].phase = "live" /\ chain' = <<o>> /\ o.op = "created" /\ o.of = l
           /\ o.n = Len(session[l].log) /\ o.stage = "queued"
  <2>1. CASE InRegistry = {}
    BY <2>1 DEF Reload
  <2>2. CASE InRegistry # {}
    <3>1. PICK l \in Life : l = (CHOOSE m \in InRegistry : TRUE) /\ session[l].phase = "live"
      BY <2>2 DEF InRegistry
    <3>2. Len(session[l].log) \in Nat
      BY LenProperties DEF Types, SessionRecord
    <3>3. PICK o \in OpRecord : /\ o = Op("created", l, Len(session[l].log), "queued")
                                /\ o.op = "created" /\ o.of = l /\ o.n = Len(session[l].log) /\ o.stage = "queued"
      BY <3>2, NewOp
    <3>4. chain' = <<o>>
      BY <2>2, <3>1, <3>3 DEF Reload
    <3> QED BY <3>1, <3>3, <3>4
  <2> QED BY <2>1, <2>2
<1>5. /\ chain' \in Seq(OpRecord)
      /\ \A i \in DOMAIN chain' : i = 1 /\ chain'[i].op = "created" /\ chain'[i].stage = "queued"
                                  /\ chain'[i].of \in Life /\ session[chain'[i].of].phase = "live"
                                  /\ chain'[i].n = Len(session[chain'[i].of].log)
  <2>1. CASE chain' = <<>>
    BY <2>1
  <2>2. CASE \E l \in Life, o \in OpRecord :
               /\ session[l].phase = "live" /\ chain' = <<o>> /\ o.op = "created" /\ o.of = l
               /\ o.n = Len(session[l].log) /\ o.stage = "queued"
    BY <2>2
  <2> QED BY <1>4, <2>1, <2>2
<1>6. /\ state' \in StateRecord /\ entry' \in EntryRecord
      /\ state'.owner = None /\ ~state'.known /\ entry'.phase = "none"
  BY <1>1, BlankState, BlankEntry
<1>7. /\ call' \in [Call -> CallRecord]
      /\ \A c \in Call : call'[c].pc = call[c].pc /\ ~call'[c].holds
  BY <1>1, UnheldFacts
<1>8. Types'
  BY <1>1, <1>3, <1>5, <1>6, <1>7 DEF Types
<1>9. StateOK'
  BY <1>1, <1>6 DEF StateOK
<1>10. SessionOK'
  BY <1>2 DEF SessionOK, WriterOK
<1>11. RegistryOK'
  BY <1>1, <1>2 DEF RegistryOK
<1>12. OrderOK'
  BY <1>5, <1>6 DEF OrderOK
<1>13. ChainOK'
  <2> SUFFICES ASSUME NEW i \in DOMAIN chain' PROVE OpOK(chain[i])'
    BY DEF ChainOK
  <2>1. PICK l \in Life : l = chain'[i].of /\ session[l].phase = "live"
    BY <1>5
  <2>2. /\ chain'[i].op = "created" /\ chain'[i].stage = "queued" /\ chain'[i].n = session'[l].written
        /\ session'[l].init = "pending" /\ state'.owner # l
    BY <1>2, <1>5, <1>6, <2>1, NoneIsNoSession
  <2>3. CreatedOK(chain[i])'
    BY <2>1, <2>2 DEF CreatedOK
  <2> QED BY <2>2, <2>3 DEF OpOK
<1>14. EntryOK'
  BY <1>1, <1>6 DEF EntryOK
<1>15. CallOK'
  <2>1. \A c \in Call : c \in Life
    BY DEF Life
  <2> QED BY <1>2, <1>7, <2>1 DEF CallOK
<1>16. FlushedOK' /\ ClosedOK' /\ InFlightOK'
  BY <1>1, <1>2 DEF FlushedOK, ClosedOK, InFlightOK
<1> QED BY <1>1, <1>8, <1>9, <1>10, <1>11, <1>12, <1>13, <1>14, <1>15, <1>16

\* An interrupted append leaves the log as it was, or longer; only a log that
\* exists ends in a torn frame.
LEMMA TornFacts ==
  ASSUME IInv, NEW b \in Seq(Event), NEW d \in Torn(b)
  PROVE  /\ d \in Revision /\ Begins(disk.events, d.events)
         /\ d.torn \/ d.tail = <<>>
         /\ d.torn => d.events # <<>>
<1>1. /\ disk \in Revision /\ disk.events \in Seq(Event) /\ disk.tail \in Seq(Event) /\ disk.torn \in BOOLEAN
      /\ disk.torn \/ disk.tail = <<>>
      /\ disk.torn => disk.events # <<>>
  BY DEF IInv, Types, StateOK, Revision
<1>2. Begins(disk.events, disk.events)
  BY <1>1, BeginsFacts
<1>3. CASE ~Exists
  <2>1. disk.events = <<>> /\ ~disk.torn /\ disk.tail = <<>>
    BY <1>1, <1>3 DEF Exists
  <2>2. CASE d = disk
    BY <1>1, <1>2, <2>2
  <2>3. CASE d = [disk EXCEPT !.events = b]
    <3>1. d \in Revision /\ d.events = b /\ d.tail = disk.tail /\ d.torn = disk.torn
      BY <1>1, <2>3 DEF Revision
    <3>2. Begins(<<>>, b)
      BY BeginsFacts
    <3> QED BY <2>1, <3>1, <3>2
  <2> QED BY <1>3, <2>2, <2>3 DEF Torn
<1>4. CASE Exists
  <2>1. \A k \in 0..Len(b) : SubSeq(b, 1, k) \in Seq(Event)
    <3>1. Len(b) \in Nat
      BY LenProperties
    <3> QED BY <3>1, SubSeqProperties
  <2>2. ASSUME NEW k \in 0..Len(b), NEW t \in BOOLEAN,
               d = [events |-> disk.events \o SubSeq(b, 1, k), tail |-> <<>>, torn |-> t /\ k < Len(b)]
        PROVE  /\ d \in Revision /\ Begins(disk.events, d.events)
               /\ d.torn \/ d.tail = <<>>
               /\ d.torn => d.events # <<>>
    <3>1. PICK s \in Seq(Event) : s = SubSeq(b, 1, k)
      BY <2>1
    <3>2. disk.events \o s \in Seq(Event)
      BY <1>1, ConcatProperties
    <3>3. Begins(disk.events, disk.events \o s)
      BY <1>1, BeginsFacts
    <3>4. PICK e \in Seq(Event) : e = disk.events \o SubSeq(b, 1, k) /\ Begins(disk.events, e)
      BY <3>1, <3>2, <3>3
    <3>5. Len(e) \in Nat /\ Len(disk.events) \in Nat /\ Len(disk.events) <= Len(e) /\ Len(disk.events) # 0
      BY <1>1, <1>4, <3>4, LenProperties, EmptySeq DEF Begins, Exists
    <3>6. e # <<>>
      BY <3>5
    <3>7. PICK p \in BOOLEAN : p = (t /\ k < Len(b))
      OBVIOUS
    <3>8. d = [events |-> e, tail |-> <<>>, torn |-> p]
      BY <2>2, <3>4, <3>7, Zenon
    <3>9. d \in Revision /\ d.events = e /\ d.tail = <<>>
      BY <3>8 DEF Revision
    <3> QED BY <3>4, <3>6, <3>9
  <2>3. ASSUME NEW k \in 0..Len(b), d = [events |-> disk.events, tail |-> SubSeq(b, 1, k), torn |-> TRUE]
        PROVE  /\ d \in Revision /\ Begins(disk.events, d.events)
               /\ d.torn \/ d.tail = <<>>
               /\ d.torn => d.events # <<>>
    <3>1. d \in Revision /\ d.events = disk.events /\ d.torn
      BY <1>1, <2>1, <2>3 DEF Revision
    <3> QED BY <1>2, <1>4, <3>1 DEF Exists
  <2>4. \/ \E k \in 0..Len(b), t \in BOOLEAN :
             d = [events |-> disk.events \o SubSeq(b, 1, k), tail |-> <<>>, torn |-> t /\ k < Len(b)]
        \/ \E k \in 0..Len(b) : d = [events |-> disk.events, tail |-> SubSeq(b, 1, k), torn |-> TRUE]
    <3> DEFINE plain(k, t) == [events |-> disk.events \o SubSeq(b, 1, k), tail |-> <<>>, torn |-> t /\ k < Len(b)]
               frame(k) == [events |-> disk.events, tail |-> SubSeq(b, 1, k), torn |-> TRUE]
    <3>1. Torn(b) = {plain(k, t) : k \in 0..Len(b), t \in BOOLEAN} \union {frame(k) : k \in 0..Len(b)}
      BY <1>4 DEF Torn
    <3> HIDE DEF plain, frame
    <3>2. (\E k \in 0..Len(b), t \in BOOLEAN : d = plain(k, t)) \/ (\E k \in 0..Len(b) : d = frame(k))
      BY <3>1
    <3> QED BY <3>2, Zenon DEF plain, frame
  <2> QED BY <2>2, <2>3, <2>4
<1> QED BY <1>3, <1>4

\* What the death of the process leaves of the stored log.
LEMMA CrashedLog ==
  ASSUME IInv, Crash
  PROVE  /\ disk' \in Revision /\ Begins(disk.events, disk'.events)
         /\ disk'.torn \/ disk'.tail = <<>>
         /\ disk'.torn => disk'.events # <<>>
<1>1. CASE disk' = disk
  <2>1. disk \in Revision /\ disk.events \in Seq(Event)
    BY DEF IInv, Types, Revision
  <2>2. Begins(disk.events, disk.events)
    BY <2>1, BeginsFacts
  <2> QED BY <1>1, <2>1, <2>2 DEF IInv, StateOK
<1>2. CASE chain # <<>> /\ disk' \in Torn(Head(chain).batch)
  <2>1. PICK b \in Seq(Event) : b = Head(chain).batch
    BY <1>2, HeadFacts DEF OpRecord
  <2> QED BY <1>2, <2>1, TornFacts
<1> QED BY <1>1, <1>2 DEF Crash, Repairing, Writing

\* After the death of the process only the stored log is left.
LEMMA CrashPreserves ==
  ASSUME IInv, Crash
  PROVE  IInv'
<1> USE DEF IInv
<1>1. /\ service' = "running" /\ troubles' \in Nat /\ chain' = <<>>
      /\ state' = NoState /\ entry' = NoEntry /\ retirement' = None /\ UNCHANGED acked
  BY DEF Crash, Trouble, Types
<1>2. /\ disk' \in Revision /\ Begins(disk.events, disk'.events)
      /\ disk'.torn \/ disk'.tail = <<>>
      /\ disk'.torn => disk'.events # <<>>
  BY CrashedLog
<1>3. Begins(acked, disk'.events)
  BY <1>2, AckedStays
<1>4. ASSUME NEW m \in Life
      PROVE  \/ session[m].phase = "none" /\ session'[m] = Unborn
             \/ session[m].phase # "none" /\ session'[m] = Gone
  BY DEF Crash
<1>5. session' \in [Life -> SessionRecord]
  BY BlankRecords DEF Crash
<1>6. ASSUME NEW c \in Call
      PROVE  /\ call'[c].pc \in {"idle", "failed"} /\ ~call'[c].holds
             /\ call'[c].pc = "idle" => call[c].pc = "idle"
  BY DEF Crash, Idle
<1>7. call' \in [Call -> CallRecord]
  <2>1. NoEntry.rev \in Revision
    BY BlankEntry
  <2>2. Idle \in CallRecord /\ [Idle EXCEPT !.pc = "failed"] \in CallRecord
    BY <2>1 DEF Idle, CallRecord
  <2> QED BY <2>2 DEF Crash
<1>8. /\ state' \in StateRecord /\ entry' \in EntryRecord
      /\ state'.owner = None /\ ~state'.known /\ entry'.phase = "none"
  BY <1>1, BlankState, BlankEntry
<1>9. Types'
  BY <1>1, <1>2, <1>5, <1>7, <1>8 DEF Types
<1>10. StateOK'
  BY <1>1, <1>2, <1>8 DEF StateOK
<1>11. \A m \in Life : /\ ~session'[m].tracked /\ session'[m].init = "none" /\ session'[m].phase \notin {"live", "prepared"}
                       /\ session'[m].writing = "none" /\ Controller(session'[m])
  <2>1. Len(Unborn.log) = 0 /\ Len(Gone.log) = 0
    BY BlankRecords DEF Unborn
  <2>2. Controller(Unborn) /\ Controller(Gone)
    BY <2>1, BlankRecords DEF Controller, Unborn
  <2> QED BY <1>4, <2>2, BlankRecords DEF Unborn
<1>12. SessionOK' /\ RegistryOK'
  BY <1>1, <1>11 DEF SessionOK, WriterOK, RegistryOK
<1>13. OrderOK' /\ ChainOK'
  BY <1>1 DEF OrderOK, ChainOK
<1>14. EntryOK'
  BY <1>1, <1>8 DEF EntryOK
<1>15. CallOK'
  <2>1. \A c \in Call : c \in Life
    BY DEF Life
  <2>2. \A c \in Call : call'[c].pc = "idle" => session'[c].phase = "none"
    BY <1>4, <1>6, <2>1 DEF CallOK, Unborn
  <2> QED BY <1>6, <2>2 DEF CallOK
<1>16. FlushedOK' /\ InFlightOK' /\ ClosedOK'
  BY <1>1, <1>11 DEF FlushedOK, InFlightOK, ClosedOK
<1> QED BY <1>1, <1>3, <1>9, <1>10, <1>12, <1>13, <1>14, <1>15, <1>16

-----------------------------------------------------------------------------
(* The inductive invariant *)

\* Nothing has happened yet; an earlier process may have left a torn log.
LEMMA InitEstablishes == Init => IInv
<1> SUFFICES ASSUME Init PROVE IInv
  OBVIOUS
<1>1. /\ state = NoState /\ entry = NoEntry /\ chain = <<>> /\ retirement = None
      /\ service = "running" /\ session = [l \in Life |-> Unborn]
      /\ call = [c \in Call |-> Idle] /\ acked = <<>> /\ troubles = 0
  BY DEF Init
<1>2. <<>> \in Seq(Event) /\ <<0>> \in Seq(Event) /\ <<0>> # <<>>
  BY DEF Event
<1>3. /\ disk \in Revision
      /\ disk.torn \/ disk.tail = <<>>
      /\ disk.torn => disk.events # <<>>
  <2>1. CASE disk = NoEntry.rev
    <3>1. NoEntry.rev \in Revision /\ NoEntry.rev.tail = <<>> /\ ~NoEntry.rev.torn
      BY BlankEntry DEF NoEntry
    <3> QED BY <2>1, <3>1
  <2>2. CASE disk # NoEntry.rev
    <3>1. PICK k \in {0, 1} : disk = [events |-> <<0>>, tail |-> SubSeq(<<0>>, 1, k), torn |-> TRUE]
      BY <2>2 DEF Init
    <3>2. PICK s \in Seq(Event) : s = <<0>> /\ Len(s) = 1
      BY <1>2
    <3>3. SubSeq(s, 1, k) \in Seq(Event)
      BY <3>2, SubSeqProperties
    <3>4. PICK t \in Seq(Event) : t = SubSeq(<<0>>, 1, k)
      BY <3>2, <3>3
    <3>5. disk = [events |-> <<0>>, tail |-> t, torn |-> TRUE]
      BY <3>1, <3>4
    <3> QED BY <1>2, <3>5 DEF Revision
  <2> QED BY <2>1, <2>2
<1>4. Types
  <2>1. session \in [Life -> SessionRecord]
    BY <1>1, BlankRecords
  <2>2. Idle \in CallRecord
    BY BlankEntry DEF Idle, CallRecord
  <2>3. call \in [Call -> CallRecord] /\ chain \in Seq(OpRecord)
    BY <1>1, <2>2
  <2>4. acked \in Seq(Event) /\ troubles \in Nat /\ retirement \in Life \union {None}
    BY <1>1, <1>2
  <2>5. state \in StateRecord /\ entry \in EntryRecord
    BY <1>1, BlankState, BlankEntry
  <2> QED BY <1>1, <1>3, <2>1, <2>3, <2>4, <2>5 DEF Types
<1>5. \A l \in Life : /\ Controller(session[l]) /\ session[l].init = "none" /\ session[l].phase = "none"
                      /\ session[l].writing = "none" /\ ~session[l].tracked
  <2>1. Len(Unborn.log) = 0
    BY DEF Unborn
  <2>2. Controller(Unborn)
    BY <2>1 DEF Controller, Unborn
  <2> QED BY <1>1, <2>2 DEF Unborn
<1>6. StateOK
  BY <1>1, <1>3, BlankState DEF StateOK
<1>7. SessionOK /\ RegistryOK
  BY <1>1, <1>5 DEF SessionOK, WriterOK, RegistryOK
<1>8. OrderOK /\ ChainOK
  BY <1>1 DEF OrderOK, ChainOK
<1>9. EntryOK
  BY <1>1, BlankEntry DEF EntryOK
<1>10. CallOK
  <2>1. \A c \in Call : c \in Life /\ ~call[c].holds /\ call[c].pc = "idle"
    BY <1>1 DEF Life, Idle
  <2> QED BY <1>5, <2>1 DEF CallOK
<1>11. FlushedOK /\ InFlightOK /\ ClosedOK
  BY <1>1, <1>5 DEF FlushedOK, InFlightOK, ClosedOK
<1>12. Begins(acked, disk.events)
  <2>1. disk.events \in Seq(Event)
    BY <1>3 DEF Revision
  <2>2. Begins(<<>>, disk.events)
    BY <2>1, BeginsFacts
  <2> QED BY <1>1, <2>2
<1> QED BY <1>4, <1>6, <1>7, <1>8, <1>9, <1>10, <1>11, <1>12 DEF IInv

\* Stuttering.
LEMMA StutterPreserves ==
  ASSUME IInv, UNCHANGED vars
  PROVE  IInv'
<1>1. UNCHANGED <<disk, state, entry, chain, retirement, service, session, call, acked, troubles>>
  BY DEF vars, coordVars
<1>2. Types' /\ StateOK' /\ SessionOK' /\ RegistryOK'
  BY <1>1 DEF IInv, Types, StateOK, SessionOK, Controller, WriterOK, RegistryOK
<1>3. OrderOK' /\ EntryOK' /\ CallOK'
  BY <1>1 DEF IInv, OrderOK, Alike, EntryOK, CallOK
<1>4. FlushedOK' /\ InFlightOK' /\ ClosedOK'
  BY <1>1 DEF IInv, FlushedOK, Flushed, InFlightOK, ClosedOK
<1>5. ChainOK'
  <2> SUFFICES ASSUME NEW j \in DOMAIN chain PROVE Keeps(chain[j])
    BY <1>1, <1>2, ChainFrame
  <2>1. chain[j] \in OpRecord /\ OpOK(chain[j])
    BY ElementOfSeq, LenProperties DEF IInv, Types, ChainOK
  <2>2. chain[j].op \in {"created", "suffix", "append", "forget"} =>
          Steady(session[chain[j].of], session'[chain[j].of])
    <3>1. chain[j].op \in {"created", "suffix", "append", "forget"} =>
            chain[j].of \in Life /\ session[chain[j].of] \in SessionRecord
      BY OpsAreTracked DEF SessionOps, IInv, Types
    <3>2. \A r \in SessionRecord : Begins(r.log, r.log)
      BY BeginsFacts DEF SessionRecord
    <3> QED BY <1>1, <3>1, <3>2 DEF Steady, SessionRecord
  <2> QED BY <1>1, <1>2, <2>1, <2>2, KeepsWithSteadySession DEF IInv
<1>6. Begins(acked, disk.events)'
  BY <1>1 DEF IInv
<1> QED BY <1>2, <1>3, <1>4, <1>5, <1>6 DEF IInv

\* Every step keeps the invariant.
LEMMA NextPreserves ==
  ASSUME IInv, [Next]_vars
  PROVE  IInv'
<1>1. CASE ChainStep
  BY <1>1, OnCreatedPreserves, AppendCorePreserves, AppendSucceedsPreserves, AppendFailsPreserves,
     ForgetPreserves, LoadPreserves, CommitPreserves, TruncatePreserves, RestorePreserves,
     RepairFailsPreserves, CheckPreserves DEF ChainStep
<1>2. ASSUME NEW l \in Life,
             CreateSession(l) \/ AppendEvent(l) \/ Flush(l) \/ Retire(l) \/ WriteStep(l)
      PROVE  IInv'
  BY <1>2, CreateSessionPreserves, AppendEventPreserves, FlushPreserves, RetirePreserves,
     StartWritePreserves, FlushRefusedPreserves, BarrierDonePreserves DEF WriteStep
<1>3. ASSUME NEW c \in Call,
             \/ \E kind \in {"prepare", "load", "inspect"} : Begin(c, kind)
             \/ CallStep(c) \/ Abort(c) \/ AppendUnpublished(c)
      PROVE  IInv'
  <2>1. CASE \E kind \in {"prepare", "load", "inspect"} : Begin(c, kind)
    BY <2>1, BeginPreserves
  <2>2. CASE CallStep(c)
    BY <2>2, ProceedPreserves, LiveLoadedPreserves, ReservePreserves, BorrowPreserves,
       PublishPreserves, ReleasePreserves DEF CallStep
  <2>3. CASE Abort(c) \/ AppendUnpublished(c)
    BY <2>3, AbortPreserves, AppendUnpublishedPreserves
  <2> QED BY <1>3, <2>1, <2>2, <2>3
<1>4. CASE Evict \/ Dispose \/ Close \/ Reload \/ Crash
  BY <1>4, EvictPreserves, DisposePreserves, ClosePreserves, ReloadPreserves, CrashPreserves
<1>5. CASE UNCHANGED vars
  BY <1>5, StutterPreserves
<1> QED BY <1>1, <1>2, <1>3, <1>4, <1>5 DEF Next

\* A step that writes the log.
LEMMA WritesAppend ==
  ASSUME IInv, AppendSucceeds \/ AppendFails \/ Truncate \/ Restore \/ Crash
  PROVE  Begins(disk.events, disk'.events)
<1>1. disk \in Revision /\ disk.events \in Seq(Event) /\ Types
  BY DEF IInv, Types, Revision
<1>2. Begins(disk.events, disk.events)
  BY <1>1, BeginsFacts
<1>3. CASE AppendSucceeds \/ Restore
  <2>1. chain # <<>> /\ disk' = [disk EXCEPT !.events = @ \o Head(chain).batch]
    BY <1>3 DEF AppendSucceeds, Writing, Restore, Repairing
  <2>2. PICK b \in Seq(Event) : b = Head(chain).batch
    BY <2>1, HeadFacts DEF OpRecord
  <2>3. [disk EXCEPT !.events = @ \o b].events = disk.events \o b /\ Begins(disk.events, disk.events \o b)
    BY <1>1, RepairedLog
  <2> QED BY <2>1, <2>2, <2>3
<1>4. CASE AppendFails
  <2>1. CASE disk' = disk
    BY <1>2, <2>1
  <2>2. CASE disk' # disk
    <3>1. /\ Writing("write") /\ ~state.materialized /\ Accepts
          /\ disk' = [disk EXCEPT !.events = Head(chain).batch]
      BY <1>4, <2>2 DEF AppendFails
    <3>2. PICK b \in Seq(Event) : b = Head(chain).batch
      BY <3>1, HeadFacts DEF OpRecord, Writing
    <3>3. disk.events = <<>> /\ disk'.events = b
      BY <1>1, <3>1, <3>2 DEF Accepts, Exists, Revision
    <3> QED BY <3>2, <3>3, BeginsFacts
  <2> QED BY <2>1, <2>2
<1>5. CASE Truncate
  <2>1. <<>> \in Seq(Event)
    OBVIOUS
  <2>2. Untorn.events = disk.events
    BY <1>1, <2>1, RepairedLog, Zenon
  <2> QED BY <1>2, <1>5, <2>2 DEF Truncate
<1>6. CASE Crash
  BY <1>6, CrashedLog
<1> QED BY <1>3, <1>4, <1>5, <1>6

\* No step changes the stored log but by making it longer.
LEMMA LogGrows ==
  ASSUME IInv, [Next]_vars
  PROVE  Begins(disk.events, disk'.events)
<1>1. CASE disk' = disk
  <2>1. disk.events \in Seq(Event)
    BY DEF IInv, Types, Revision
  <2> QED BY <1>1, <2>1, BeginsFacts
<1>2. CASE disk' # disk
  <2>1. Next
    BY <1>2 DEF vars
  <2>2. ASSUME NEW l \in Life
        PROVE  ~(CreateSession(l) \/ AppendEvent(l) \/ Flush(l) \/ Retire(l) \/ WriteStep(l))
    BY <1>2 DEF CreateSession, AppendEvent, Flush, Retire, WriteStep, StartWrite, FlushRefused, BarrierDone
  <2>3. ASSUME NEW c \in Call
        PROVE  ~(CallStep(c) \/ Abort(c) \/ AppendUnpublished(c) \/ \E kind \in {"prepare", "load", "inspect"} : Begin(c, kind))
    BY <1>2 DEF CallStep, Abort, AppendUnpublished, Begin, Proceed, LiveLoaded, Reserve, Borrow, Publish, Release
  <2>4. ~Evict /\ ~Dispose /\ ~Close /\ ~Reload
    BY <1>2 DEF Evict, Dispose, Close, Reload
  <2>5. ~OnCreated /\ ~AppendCore /\ ~Forget /\ ~Load /\ ~Commit /\ ~RepairFails /\ ~Check
    BY <1>2 DEF OnCreated, AppendCore, Forget, Load, Commit, RepairFails, Check
  <2> QED BY <2>1, <2>2, <2>3, <2>4, <2>5, WritesAppend DEF Next, ChainStep
<1> QED BY <1>1, <1>2

-----------------------------------------------------------------------------
(* Theorems *)

\* In every reachable state each operation in the chain finds, when its turn
\* comes, the owner, the cursor, the stored log and the entry it was queued for.
THEOREM CoordinatorInvariant == Spec => []IInv
<1>1. Init => IInv
  BY InitEstablishes
<1>2. IInv /\ [Next]_vars => IInv'
  BY NextPreserves
<1> QED BY <1>1, <1>2, PTL DEF Spec

\* What has left a write controller is stored: the cursor filter of
\* appendLiveBatch() skips nothing.
LEMMA InvariantImpliesWritten == IInv => WrittenIsStored
<1> SUFFICES ASSUME IInv, NEW l \in Life, session[l].tracked, session[l].init = "ready"
             PROVE  IsPrefix(SubSeq(session[l].log, 1, session[l].written), disk.events)
  BY DEF WrittenIsStored
<1>1. session[l].written \in Nat /\ disk.events \in Seq(Event)
  BY DEF IInv, Types, SessionRecord, Revision
<1>2. PICK n \in 0..session[l].written : n = session[l].written
  BY <1>1
<1>3. PICK s \in Seq(Event) : s = SubSeq(session[l].log, 1, session[l].written) /\ Begins(s, disk.events)
  BY <1>2, DrainedIsStored
<1> QED BY <1>1, <1>3, PrefixIsBegins

\* A reservation is exactly the stored log, and no session of the id is live.
LEMMA InvariantImpliesReservation == IInv => ReservationIsExact
<1> SUFFICES ASSUME IInv, entry.phase = "reserved" PROVE ReservationIsExact
  BY DEF ReservationIsExact
<1>1. /\ entry.rev = disk /\ ~disk.torn /\ Closers(disk.events) = <<>>
      /\ state.known /\ state.owner = None
      /\ service = "running" => \A l \in Life : session[l].phase # "live"
  BY DEF IInv, EntryOK
<1>2. state.cursor = Len(disk.events)
  BY <1>1 DEF IInv, StateOK
<1> QED BY <1>1, <1>2 DEF ReservationIsExact, InRegistry

\* The types follow from the invariant.
LEMMA InvariantImpliesTypeOK == IInv => TypeOK
<1> SUFFICES ASSUME IInv PROVE TypeOK
  OBVIOUS
<1>1. /\ disk \in [events : Seq(Life \union {0}), tail : Seq(Life \union {0}), torn : BOOLEAN]
      /\ state.owner \in Life \union {None} /\ state.cursor \in Nat
      /\ entry.phase \in {"none", "loading", "ready", "committing", "reserved"}
  BY DEF IInv, Types, Revision, Event, StateRecord, EntryRecord
<1>2. \A l \in Life : session[l].written <= session[l].admitted
                      /\ session[l].admitted <= Len(session[l].log)
  BY DEF IInv, SessionOK, Controller
<1>3. \A c \in Call : call[c].holds => entry # NoEntry
  BY BlankEntry DEF IInv, CallOK
<1>4. retirement # None => session[retirement].retire \in {"draining", "forgetting"}
  BY DEF IInv, RegistryOK
<1> QED BY <1>1, <1>2, <1>3, <1>4 DEF TypeOK

\* What the coordinator remembers of the store is true at every await: the
\* cursor of appendLiveBatch() skips nothing, and a reserved preparation is
\* exactly the stored log.
THEOREM StoreMemoryIsTrue == Spec => []StoreInv
<1>1. IInv => StoreInv
  BY InvariantImpliesTypeOK, InvariantImpliesWritten, InvariantImpliesReservation DEF StoreInv
<1> QED BY <1>1, CoordinatorInvariant, PTL

\* A log that flush() reported durable stays the beginning of the stored log,
\* through failed writes, commitRepair(), later sessions of the id and a crash.
THEOREM AckedStaysStored == Spec => []AckedIsStored
<1>1. IInv => AckedIsStored
  <2> SUFFICES ASSUME IInv PROVE IsPrefix(acked, disk.events)
    BY DEF AckedIsStored
  <2>1. acked \in Seq(Event) /\ disk.events \in Seq(Event) /\ Begins(acked, disk.events)
    BY DEF IInv, Types, Revision
  <2> QED BY <2>1, PrefixIsBegins
<1> QED BY <1>1, CoordinatorInvariant, PTL

\* The session that states.get(id) names as the owner is the only one that is
\* written, and the stored log is a prefix of its log.
THEOREM StoreFollowsItsOwner == Spec => []StoreFollowsOwner
<1>1. IInv => StoreFollowsOwner
  <2> SUFFICES ASSUME IInv PROVE StoreFollowsOwner
    OBVIOUS
  <2>1. ASSUME state.owner # None
        PROVE  /\ ~disk.torn /\ IsPrefix(disk.events, session[state.owner].log)
               /\ state.materialized => state.cursor = Len(disk.events)
    <3>1. /\ ~disk.torn /\ Begins(disk.events, session[state.owner].log)
          /\ state.materialized => state.cursor = Len(disk.events)
      BY <2>1 DEF IInv, StateOK
    <3>2. disk.events \in Seq(Event) /\ session[state.owner].log \in Seq(Event)
      BY <2>1 DEF IInv, Types, Revision, StateRecord, SessionRecord
    <3> QED BY <3>1, <3>2, PrefixIsBegins
  <2>2. Writing("write") => Head(chain).of = state.owner
    BY HeadWrites
  <2> QED BY <2>1, <2>2 DEF StoreFollowsOwner
<1> QED BY <1>1, CoordinatorInvariant, PTL

\* When close() has ended nothing is queued, and a session with events that are
\* not stored has had a failed flush.
THEOREM ClosedIsQuiescent == Spec => []CloseIsQuiescent
<1>1. IInv => CloseIsQuiescent
  <2> SUFFICES ASSUME IInv, service = "closed" PROVE CloseIsQuiescent
    BY DEF CloseIsQuiescent
  <2>1. chain = <<>>
    BY DEF IInv, ClosedOK
  <2>2. ASSUME NEW l \in Life, session[l].tracked, HasWork(l) PROVE session[l].failed
    <3>1. Flushed(session[l]) /\ Controller(session[l]) /\ session[l] \in SessionRecord
      BY <2>2 DEF IInv, ClosedOK, SessionOK, Types
    <3>2. session[l].admitted > session[l].written \/ session[l].writing # "none"
      BY <2>2 DEF HasWork
    <3> QED BY <2>2, <3>1, <3>2 DEF Flushed, Controller, SessionRecord
  <2> QED BY <2>1, <2>2 DEF CloseIsQuiescent
<1> QED BY <1>1, CoordinatorInvariant, PTL

\* No step of append, materialize(), commitRepair() or the death of the process
\* rewrites or drops a stored event.
THEOREM StoredLogOnlyGrows == Spec => StoredOnlyGrows
<1>1. IInv /\ IInv' /\ [Next]_vars => [IsPrefix(disk.events, disk'.events)]_vars
  <2> SUFFICES ASSUME IInv, IInv', [Next]_vars PROVE IsPrefix(disk.events, disk'.events)
    OBVIOUS
  <2>1. disk.events \in Seq(Event) /\ disk'.events \in Seq(Event)
    BY DEF IInv, Types, Revision
  <2>2. Begins(disk.events, disk'.events)
    BY LogGrows
  <2> QED BY <2>1, <2>2, PrefixIsBegins
<1> QED BY <1>1, CoordinatorInvariant, PTL DEF Spec, StoredOnlyGrows
=============================================================================
