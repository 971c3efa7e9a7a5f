-------------------- MODULE PersistenceCoordinatorInvariant --------------------
(***************************************************************************)
(* The inductive invariant of PersistenceCoordinator, and its preservation *)
(* by the steps of the sessions: creation, events, flushes and retirement, *)
(* onCreated(), appendCore() and the end of a write.  The steps of the     *)
(* calls and of the plugin, and the theorems, are in                       *)
(* PersistenceCoordinatorProofs.                                           *)
(*                                                                         *)
(* The invariant says, of every operation that waits in the chain, what    *)
(* still holds when its turn comes: who owns the state, how far the stored *)
(* log and the cursor are, and whose entry it is.                          *)
(***************************************************************************)
EXTENDS PersistenceCoordinator, SequenceTheorems, TLAPS

\* t begins with s.
Begins(s, t) == Len(s) <= Len(t) /\ \A i \in 1..Len(s) : s[i] = t[i]

Event    == Life \union {0}
Revision == [events : Seq(Event), tail : Seq(Event), torn : BOOLEAN]
StateRecord ==
  [cursor : Nat, materialized : BOOLEAN, owner : Life \union {None}, known : BOOLEAN]
EntryRecord ==
  [phase : {"none", "loading", "ready", "committing", "reserved"}, rev : Revision]
SessionRecord ==
  [phase : {"none", "prepared", "live", "disposed"}, log : Seq(Event), tracked : BOOLEAN,
   init : {"none", "pending", "ready", "failed"}, admitted : Nat, written : Nat,
   writing : {"none", "background", "barrier"}, paused : BOOLEAN,
   waiters : SUBSET {"flush", "load", "retire", "dispose"},
   retire : {"none", "draining", "forgetting", "done", "failed"}, failed : BOOLEAN]
CallRecord ==
  [pc : {"idle", "wait", "flushing", "reading", "committing", "checking",
         "reserved", "published", "read", "live", "failed"},
   kind : {"none", "prepare", "load", "inspect"}, holds : BOOLEAN,
   awaits : Life \union {None}, rev : Revision]
OpRecord ==
  [op : {"created", "suffix", "append", "forget", "load", "commit", "check"},
   of : Life \union {None}, n : Nat,
   stage : {"queued", "append", "write", "truncate", "restore"}, batch : Seq(Event)]

Types ==
  /\ disk \in Revision /\ state \in StateRecord /\ entry \in EntryRecord
  /\ chain \in Seq(OpRecord) /\ retirement \in Life \union {None}
  /\ service \in {"running", "disposing", "closed"}
  /\ session \in [Life -> SessionRecord] /\ call \in [Call -> CallRecord]
  /\ acked \in Seq(Event) /\ troubles \in Nat

-----------------------------------------------------------------------------
(* The parts of the inductive invariant *)

\* What states.get(id) says of the stored log.
StateOK ==
  /\ disk.torn \/ disk.tail = <<>>
  /\ disk.torn => disk.events # <<>>
  /\ ~state.known => state = NoState
  /\ state.known /\ state.owner = None =>
       /\ state.materialized /\ state.cursor = Len(disk.events)
       /\ disk.events # <<>> /\ ~disk.torn /\ Closers(disk.events) = <<>>
  /\ state.owner # None =>
       /\ state.known /\ session[state.owner].tracked
       /\ ~disk.torn /\ Begins(disk.events, session[state.owner].log)
       /\ state.cursor = IF state.materialized THEN Len(disk.events) ELSE 0

\* One session and its write controller.
Controller(r) ==
  /\ r.written <= r.admitted /\ r.admitted <= Len(r.log)
  /\ r.tracked => r.phase \in {"live", "disposed"} /\ r.init # "none"
  /\ ~r.tracked =>
       /\ r.init = "none" /\ r.admitted = 0 /\ r.waiters = {}
       /\ r.retire \in {"none", "done"}
  /\ r.init # "ready" => r.writing = "none"
  /\ r.retire # "none" => r.phase = "disposed"
  /\ "retire" \in r.waiters => r.retire = "draining"
  /\ r.retire = "forgetting" =>
       r.init = "ready" /\ r.admitted = r.written /\ r.writing = "none"

\* A controller that may write owns the state, and is not ahead of the cursor.
WriterOK(l) ==
  session[l].init = "ready" =>
    IF state.owner = l THEN session[l].written <= state.cursor
    ELSE session[l].phase = "disposed" /\ session[l].admitted = 0 /\ session[l].writing = "none"

SessionOK == \A l \in Life : Controller(session[l]) /\ WriterOK(l)

RegistryOK ==
  /\ \A l, m \in Life : session[l].phase = "live" /\ session[m].phase = "live" => l = m
  /\ service # "closed" => \A l \in Life : session[l].phase = "live" => session[l].tracked
  /\ retirement # None => session[retirement].retire \in {"draining", "forgetting"}

\* The operations in the chain: no two alike, and only the first has begun.  Of
\* two sessions that wait for onCreated() the earlier has been disposed, and so
\* has the owner of the state.
Alike(a, b) ==
  a.of = b.of /\ (a.op = b.op \/ (a.op = "created" /\ b.op = "suffix")
                             \/ (a.op = "suffix" /\ b.op = "created"))

OrderOK ==
  /\ \A i, j \in DOMAIN chain :
       /\ Alike(chain[i], chain[j]) => i = j
       /\ chain[i].op = "created" /\ chain[j].op = "load" => i < j
       /\ chain[i].op = "created" /\ chain[j].op = "created" /\ i < j =>
            session[chain[i].of].phase # "live"
  /\ \A i \in DOMAIN chain :
       /\ i > 1 => chain[i].stage = IF chain[i].op \in {"suffix", "append"} THEN "append" ELSE "queued"
       /\ chain[i].op = "created" /\ state.owner \notin {None, chain[i].of} =>
            session[state.owner].phase # "live"

\* The batch of a write continues the owner's stored log.
BatchOK(o) ==
  /\ state.cursor < o.n /\ o.n = state.cursor + Len(o.batch)
  /\ \A i \in 1..Len(o.batch) : o.batch[i] = session[o.of].log[state.cursor + i]

CreatedOK(o) ==
  /\ o.of \in Life /\ session[o.of].init = "pending" /\ o.n = session[o.of].written
  /\ o.stage = "queued" => state.owner # o.of
  /\ o.stage \in {"append", "write"} => state.owner = o.of
  /\ o.stage \in {"truncate", "restore"} =>
       /\ ~state.known /\ Begins(disk.events \o o.batch, session[o.of].log)
       /\ o.stage = "restore" => ~disk.torn
       /\ disk.events # <<>>

SuffixOK(o) ==
  /\ o.of \in Life /\ session[o.of].init = "pending" /\ o.n = session[o.of].written
  /\ o.stage \in {"append", "write"} /\ state.owner = o.of /\ state.materialized

AppendOK(o) ==
  /\ o.of \in Life /\ session[o.of].writing # "none"
  /\ session[o.of].written < o.n /\ o.n <= session[o.of].admitted
  /\ o.stage \in {"append", "write"}

\* A call that has lost its entry has read an older log.
CommitOK(o) ==
  /\ o.of \in Call /\ call[o.of].pc = "committing" /\ call[o.of].rev.events # <<>>
  /\ IF call[o.of].holds THEN entry.rev = call[o.of].rev
     ELSE o.stage = "queued" /\ Len(call[o.of].rev.events) < Len(disk.events)
  /\ o.stage \in {"queued", "truncate", "restore"}
  /\ o.stage # "queued" => ~state.known
  /\ o.stage = "restore" => ~disk.torn

OpOK(o) ==
  /\ o.op = "created" => CreatedOK(o)
  /\ o.op = "suffix" => SuffixOK(o)
  /\ o.op = "append" => AppendOK(o)
  /\ o.stage = "write" => BatchOK(o)
  /\ o.op = "forget" => o.of \in Life /\ o.stage = "queued" /\ session[o.of].retire = "forgetting"
  /\ o.op = "load" => o.of = None /\ o.stage = "queued" /\ entry.phase = "loading"
  /\ o.op = "commit" => CommitOK(o)
  /\ o.op = "check" => o.of \in Call /\ o.stage = "queued" /\ call[o.of].pc = "checking"

ChainOK == \A i \in DOMAIN chain : OpOK(chain[i])

\* The prepared entry; a reservation is exact.
EntryOK ==
  /\ entry.phase \in {"none", "loading"} => entry.rev = NoEntry.rev
  /\ entry.phase \notin {"none", "loading"} =>
       /\ entry.rev.events # <<>> /\ Len(entry.rev.events) <= Len(disk.events)
       /\ \A i \in DOMAIN chain : chain[i].op # "created"
  /\ entry.phase # "none" /\ service = "running" =>
       \A l \in Life : session[l].phase # "live"
  /\ entry.phase = "reserved" =>
       /\ entry.rev = disk /\ ~disk.torn /\ Closers(disk.events) = <<>>
       /\ state.known /\ state.owner = None

\* Who holds the entry, and the session of a prepare() call.
CallOK ==
  /\ \A c \in Call :
       /\ call[c].holds => entry.phase # "none" /\ (entry.phase = "loading" => call[c].pc = "reading")
       /\ call[c].pc = "committing" /\ call[c].holds => entry.phase = "committing"
       /\ call[c].pc = "reserved" /\ call[c].holds =>
            entry.phase = "reserved" /\ Begins(disk.events, session[c].log)
       /\ call[c].pc = "reserved" => session[c].phase = "prepared"
       /\ call[c].pc \in {"idle", "wait", "flushing", "reading", "committing", "checking"} =>
            session[c].phase = "none"
  /\ \A c, d \in Call :
       /\ call[c].pc = call[d].pc /\ call[c].pc \in {"committing", "reserved"}
       /\ call[c].holds /\ call[d].holds
       => c = d

\* A disposed plugin: whoever is no longer flushed has nothing left, or failed.
Flushed(r) ==
  /\ r.waiters \intersect {"flush", "retire"} = {} /\ r.init # "pending"
  /\ r.init = "failed" => r.failed
  /\ r.init = "ready" =>
       \/ r.admitted = r.written /\ r.writing = "none"
       \/ r.failed /\ (r.paused \/ r.waiters # {})

FlushedOK ==
  service # "running" => \A l \in Life :
    session[l].tracked /\ "dispose" \notin session[l].waiters => Flushed(session[l])

\* The write in flight is in the chain.
InFlightOK ==
  \A l \in Life : session[l].writing # "none" =>
    \E i \in DOMAIN chain : chain[i].op = "append" /\ chain[i].of = l

\* Nothing is left to do, and nobody is left to ask for more.
ClosedOK ==
  service = "closed" =>
    /\ chain = <<>> /\ \A l \in Life : session[l].waiters = {}
    /\ \A l \in Life : session[l].tracked => Flushed(session[l])
    /\ \A c \in Call : call[c].pc \notin {"wait", "reading"}

IInv ==
  /\ Types /\ StateOK /\ SessionOK /\ RegistryOK /\ OrderOK /\ ChainOK
  /\ EntryOK /\ CallOK /\ FlushedOK /\ InFlightOK /\ ClosedOK
  /\ Begins(acked, disk.events)

-----------------------------------------------------------------------------
(* Sequences *)

\* On sequences, IsPrefix is Begins.
LEMMA PrefixIsBegins ==
  ASSUME NEW S, NEW s \in Seq(S), NEW t \in Seq(S)
  PROVE  IsPrefix(s, t) <=> Begins(s, t)
<1>1. Len(s) \in Nat /\ Len(t) \in Nat
  BY LenProperties
<1>2. SubSeq(s, 1, Len(s)) = [i \in 1..Len(s) |-> s[i]]
  BY <1>1 DEF SubSeq
<1>3. SubSeq(t, 1, Len(s)) = [i \in 1..Len(s) |-> t[i]]
  BY <1>1
<1>4. [i \in 1..Len(s) |-> s[i]] = [i \in 1..Len(s) |-> t[i]]
        <=> \A i \in 1..Len(s) : s[i] = t[i]
  OBVIOUS
<1> QED BY <1>2, <1>3, <1>4 DEF IsPrefix, Begins

\* A sequence begins with itself, and so does every longer one made of it.
LEMMA BeginsFacts ==
  ASSUME NEW S, NEW s \in Seq(S), NEW t \in Seq(S)
  PROVE  /\ Begins(s, s) /\ Begins(<<>>, s)
         /\ Begins(s, s \o t)
         /\ \A x \in S : Begins(s, Append(s, x))
         /\ s \o <<>> = s
         /\ Begins(s, t) => Len(s) <= Len(t)
<1>1. Begins(s, s) /\ Begins(<<>>, s)
  BY DEF Begins
<1>2. Begins(s, s \o t)
  BY DEF Begins
<1>3. \A x \in S : Begins(s, Append(s, x))
  BY DEF Begins
<1>4. s \o <<>> = s
  OBVIOUS
<1> QED BY <1>1, <1>2, <1>3, <1>4 DEF Begins

\* Beginning with a sequence is transitive.
LEMMA BeginsTransitive ==
  ASSUME NEW S, NEW s \in Seq(S), NEW t \in Seq(S), NEW u \in Seq(S),
         Begins(s, t), Begins(t, u)
  PROVE  Begins(s, u)
BY LenProperties DEF Begins

\* The sequence without its k-th element.
Kept(i, k) == IF i < k THEN i ELSE i + 1
IsWithout(t, s, k) ==
  /\ k \in 1..Len(s) /\ Len(t) = Len(s) - 1
  /\ \A i \in 1..Len(t) : t[i] = s[Kept(i, k)]

\* RemoveAt() takes out the element it names.
LEMMA RemoveAtIsWithout ==
  ASSUME NEW S, NEW s \in Seq(S), NEW k \in 1..Len(s)
  PROVE  RemoveAt(s, k) \in Seq(S) /\ IsWithout(RemoveAt(s, k), s, k)
<1>1. Len(s) \in Nat /\ k - 1 \in 0..Len(s)
  BY LenProperties
<1> DEFINE a == SubSeq(s, 1, k - 1)
           b == SubSeq(s, k + 1, Len(s))
<1>2. a \in Seq(S) /\ Len(a) = k - 1 /\ \A i \in 1..(k - 1) : a[i] = s[i]
  BY <1>1
<1>3. b \in Seq(S) /\ Len(b) = Len(s) - k /\ \A i \in 1..(Len(s) - k) : b[i] = s[k + i]
  BY <1>1
<1>4. RemoveAt(s, k) = a \o b
  BY DEF RemoveAt
<1> HIDE DEF a, b
<1>5. a \o b \in Seq(S) /\ Len(a \o b) = Len(s) - 1
  BY <1>1, <1>2, <1>3
<1>6. ASSUME NEW i \in 1..(Len(s) - 1) PROVE (a \o b)[i] = s[Kept(i, k)]
  <2>1. (a \o b)[i] = IF i <= Len(a) THEN a[i] ELSE b[i - Len(a)]
    BY <1>1, <1>2, <1>3, ConcatProperties
  <2>2. CASE i < k
    BY <1>1, <1>2, <2>1, <2>2 DEF Kept
  <2>3. CASE i >= k
    <3>1. i - Len(a) \in 1..(Len(s) - k) /\ k + (i - Len(a)) = i + 1
      BY <1>1, <1>2, <2>3
    <3>2. b[i - Len(a)] = s[i + 1] /\ ~(i <= Len(a))
      BY <1>1, <1>2, <1>3, <2>3, <3>1
    <3> QED BY <1>1, <2>1, <2>3, <3>2 DEF Kept
  <2>4. i < k \/ i >= k
    BY <1>1
  <2> QED BY <2>2, <2>3, <2>4
<1> QED BY <1>1, <1>4, <1>5, <1>6 DEF IsWithout

\* Tail() takes out the first element.
LEMMA TailIsWithout ==
  ASSUME NEW S, NEW s \in Seq(S), s # <<>>
  PROVE  /\ Tail(s) \in Seq(S) /\ IsWithout(Tail(s), s, 1)
         /\ Head(s) = s[1] /\ 1 \in DOMAIN s /\ Head(s) \in S
BY HeadTailProperties, LenProperties DEF IsWithout, Kept

\* What a sequence without one element keeps of the sequence.
LEMMA WithoutFacts ==
  ASSUME NEW S, NEW s \in Seq(S), NEW t \in Seq(S), NEW k, IsWithout(t, s, k)
  PROVE  /\ \A i \in DOMAIN t : Kept(i, k) \in DOMAIN s \ {k} /\ t[i] = s[Kept(i, k)]
         /\ \A i, j \in DOMAIN t : (i < j <=> Kept(i, k) < Kept(j, k))
                                   /\ (i = j <=> Kept(i, k) = Kept(j, k))
         /\ \A i \in DOMAIN t : Kept(i, k) >= i
         /\ \A j \in DOMAIN s \ {k} : \E i \in DOMAIN t : t[i] = s[j]
<1>1. Len(s) \in Nat /\ Len(t) \in Nat /\ DOMAIN s = 1..Len(s) /\ DOMAIN t = 1..Len(t)
      /\ k \in 1..Len(s) /\ Len(t) = Len(s) - 1
  BY LenProperties DEF IsWithout
<1>2. \A i \in DOMAIN t : Kept(i, k) \in DOMAIN s \ {k} /\ t[i] = s[Kept(i, k)]
  BY <1>1 DEF IsWithout, Kept
<1>3. \A i, j \in DOMAIN t : (i < j <=> Kept(i, k) < Kept(j, k))
                             /\ (i = j <=> Kept(i, k) = Kept(j, k))
  BY <1>1 DEF Kept
<1>4. ASSUME NEW j \in DOMAIN s \ {k} PROVE \E i \in DOMAIN t : t[i] = s[j]
  <2>1. CASE j < k
    BY <1>1, <2>1 DEF IsWithout, Kept
  <2>2. CASE j > k
    <3>1. j - 1 \in DOMAIN t /\ Kept(j - 1, k) = j
      BY <1>1, <2>2 DEF Kept
    <3> QED BY <1>2, <3>1
  <2> QED BY <1>1, <2>1, <2>2
<1> QED BY <1>1, <1>2, <1>3, <1>4 DEF Kept

\* Appending an operation to the chain.
LEMMA AppendFacts ==
  ASSUME NEW S, NEW s \in Seq(S), NEW x \in S
  PROVE  /\ Append(s, x) \in Seq(S) /\ Len(Append(s, x)) = Len(s) + 1
         /\ DOMAIN Append(s, x) = DOMAIN s \union {Len(s) + 1}
         /\ Len(s) + 1 \notin DOMAIN s /\ \A i \in DOMAIN s : i < Len(s) + 1
         /\ \A i \in DOMAIN s : Append(s, x)[i] = s[i]
         /\ Append(s, x)[Len(s) + 1] = x
BY LenProperties

-----------------------------------------------------------------------------
(* What a step must leave alone *)

\* 0 stands for no session.
LEMMA NoneIsNoSession == None \notin Life
BY CoordinatorAssumption DEF None, Life, Fresh, Call

\* What serialize() queues is an operation with the given name, session and stage.
LEMMA NewOp ==
  ASSUME NEW name \in {"created", "suffix", "append", "forget", "load", "commit", "check"},
         NEW of \in Life \union {None}, NEW n \in Nat, NEW stage \in {"queued", "append"}
  PROVE  \E o \in OpRecord : /\ o = Op(name, of, n, stage)
                             /\ o.op = name /\ o.of = of /\ o.n = n /\ o.stage = stage
<1>1. <<>> \in Seq(Event)
  OBVIOUS
<1>2. Op(name, of, n, stage) \in OpRecord
  BY <1>1 DEF Op, OpRecord
<1>3. /\ Op(name, of, n, stage).op = name /\ Op(name, of, n, stage).of = of
      /\ Op(name, of, n, stage).n = n /\ Op(name, of, n, stage).stage = stage
  BY DEF Op
<1> QED BY <1>2, <1>3

\* The records of a session before and after its life.
LEMMA BlankRecords ==
  /\ Unborn \in SessionRecord /\ Gone \in SessionRecord
  /\ Gone.phase = "disposed" /\ Gone.log = <<>> /\ Gone.tracked = FALSE /\ Gone.init = "none"
  /\ Gone.admitted = 0 /\ Gone.written = 0 /\ Gone.writing = "none" /\ Gone.waiters = {}
  /\ Gone.retire = "none"
<1>1. <<>> \in Seq(Event) /\ {} \in SUBSET {"flush", "load", "retire", "dispose"} /\ 0 \in Nat
  OBVIOUS
<1>2. Unborn \in SessionRecord
  BY <1>1 DEF Unborn, SessionRecord
<1>3. Gone \in SessionRecord
  BY <1>2 DEF SessionRecord, Gone
<1>4. /\ Gone.phase = "disposed" /\ Gone.log = <<>> /\ Gone.tracked = FALSE /\ Gone.init = "none"
      /\ Gone.admitted = 0 /\ Gone.written = 0 /\ Gone.writing = "none" /\ Gone.waiters = {}
      /\ Gone.retire = "none"
  BY DEF Unborn, Gone
<1> QED BY <1>2, <1>3, <1>4

\* A session still is what the operations in the chain take it for.
Steady(r, q) ==
  /\ Begins(r.log, q.log) /\ q.written = r.written /\ r.admitted <= q.admitted
  /\ r.init = "pending" => q.init = "pending"
  /\ r.writing # "none" => q.writing # "none"
  /\ r.retire = "forgetting" => q.retire = "forgetting"

\* The step leaves alone what the operation o depends on.
Keeps(o) ==
  /\ o.op \in {"created", "suffix", "append", "forget"} => Steady(session[o.of], session'[o.of])
  /\ o.op = "created" /\ o.stage = "queued" => state'.owner # o.of
  /\ o.op = "suffix" => state'.owner = o.of /\ state'.materialized
  /\ o.stage \in {"write", "truncate", "restore"} \/ (o.op = "created" /\ o.stage = "append") =>
       state' = state /\ disk' = disk
  /\ o.op = "load" => entry'.phase = "loading"
  /\ o.op = "check" => call'[o.of].pc = "checking"
  /\ o.op = "commit" =>
       /\ call'[o.of].pc = "committing" /\ call'[o.of].rev = call[o.of].rev
       /\ IF call'[o.of].holds THEN call[o.of].holds /\ entry'.rev = entry.rev
          ELSE o.stage = "queued" /\ Len(call[o.of].rev.events) < Len(disk'.events)

\* Then the operation keeps its place in the invariant.
LEMMA OpFrame ==
  ASSUME Types, Types', StateOK, NEW o \in OpRecord, OpOK(o), Keeps(o),
         \A l \in Life : Controller(session[l])
  PROVE  OpOK(o)'
<1>1. ASSUME o.op \in {"created", "suffix", "append", "forget"}
      PROVE  /\ o.of \in Life /\ Steady(session[o.of], session'[o.of])
             /\ session[o.of] \in SessionRecord /\ session'[o.of] \in SessionRecord
  BY <1>1 DEF Keeps, OpOK, CreatedOK, SuffixOK, AppendOK, Types
<1>2. o.op = "created" => CreatedOK(o)'
  <2> SUFFICES ASSUME o.op = "created" PROVE CreatedOK(o)'
    OBVIOUS
  <2>1. CreatedOK(o) /\ o.stage \in {"queued", "append", "write", "truncate", "restore"}
    BY DEF OpOK, OpRecord
  <2>2. /\ o.of \in Life /\ session'[o.of].init = "pending" /\ o.n = session'[o.of].written
        /\ o.stage = "queued" => state'.owner # o.of
    BY <1>1, <2>1 DEF Steady, Keeps, CreatedOK
  <2>3. o.stage \in {"append", "write"} => state'.owner = o.of
    BY <2>1 DEF Keeps, CreatedOK
  <2>4. ASSUME o.stage \in {"truncate", "restore"}
        PROVE  /\ ~state'.known /\ Begins(disk'.events \o o.batch, session'[o.of].log)
               /\ o.stage = "restore" => ~disk'.torn
               /\ disk'.events # <<>>
    <3>1. state' = state /\ disk' = disk
      BY <2>4 DEF Keeps
    <3>2. /\ ~state.known /\ Begins(disk.events \o o.batch, session[o.of].log)
          /\ o.stage = "restore" => ~disk.torn
          /\ disk.events # <<>>
      BY <2>1, <2>4 DEF CreatedOK
    <3>3. /\ disk.events \o o.batch \in Seq(Event) /\ session[o.of].log \in Seq(Event)
          /\ session'[o.of].log \in Seq(Event)
      BY <1>1 DEF Types, Revision, OpRecord, SessionRecord
    <3>4. Begins(disk.events \o o.batch, session'[o.of].log)
      BY <1>1, <3>2, <3>3, BeginsTransitive DEF Steady
    <3> QED BY <3>1, <3>2, <3>4
  <2> QED BY <2>2, <2>3, <2>4 DEF CreatedOK
<1>3. o.op = "suffix" => SuffixOK(o)'
  BY <1>1 DEF OpOK, SuffixOK, Steady, Keeps
<1>4. o.op = "append" => AppendOK(o)'
  BY <1>1 DEF OpOK, AppendOK, Steady, SessionRecord, OpRecord
<1>5. o.stage = "write" => BatchOK(o)'
  <2> SUFFICES ASSUME o.stage = "write" PROVE BatchOK(o)'
    OBVIOUS
  <2>1. state' = state /\ BatchOK(o)
    BY DEF Keeps, OpOK
  <2>2. o.op \in {"created", "suffix", "append"}
    BY DEF OpOK, CommitOK, OpRecord
  <2>3. o.n <= Len(session[o.of].log)
    BY <1>1, <2>2 DEF OpOK, CreatedOK, SuffixOK, AppendOK, Controller, SessionRecord, OpRecord
  <2>4. state.cursor \in Nat /\ o.n \in Nat /\ Len(o.batch) \in Nat /\ Len(session[o.of].log) \in Nat
    <3>1. state.cursor \in Nat /\ o.n \in Nat
      BY DEF Types, StateRecord, OpRecord
    <3>2. o.batch \in Seq(Event) /\ session[o.of].log \in Seq(Event)
      BY <1>1, <2>2 DEF OpRecord, SessionRecord
    <3> QED BY <3>1, <3>2, LenProperties
  <2>5. \A i \in 1..Len(o.batch) : state.cursor + i \in 1..Len(session[o.of].log)
    BY <2>1, <2>3, <2>4 DEF BatchOK
  <2>6. \A i \in 1..Len(session[o.of].log) : session[o.of].log[i] = session'[o.of].log[i]
    BY <1>1, <2>2 DEF Steady, Begins
  <2> QED BY <2>1, <2>5, <2>6 DEF BatchOK
<1>6. o.op = "forget" => o.of \in Life /\ o.stage = "queued" /\ session'[o.of].retire = "forgetting"
  BY <1>1 DEF OpOK, Steady
<1>7. o.op = "load" => o.of = None /\ o.stage = "queued" /\ entry'.phase = "loading"
  BY DEF OpOK, Keeps
<1>8. o.op = "commit" => CommitOK(o)'
  <2> SUFFICES ASSUME o.op = "commit" PROVE CommitOK(o)'
    OBVIOUS
  <2>1. CommitOK(o)
    BY DEF OpOK
  <2>2. /\ o.of \in Call /\ call'[o.of].pc = "committing" /\ call'[o.of].rev.events # <<>>
        /\ o.stage \in {"queued", "truncate", "restore"}
    BY <2>1 DEF Keeps, CommitOK
  <2>3. IF call'[o.of].holds THEN entry'.rev = call'[o.of].rev
        ELSE o.stage = "queued" /\ Len(call'[o.of].rev.events) < Len(disk'.events)
    BY <2>1 DEF Keeps, CommitOK
  <2>4. (o.stage # "queued" => ~state'.known) /\ (o.stage = "restore" => ~disk'.torn)
    BY <2>1, <2>2 DEF Keeps, CommitOK
  <2> QED BY <2>2, <2>3, <2>4 DEF CommitOK
<1>9. o.op = "check" => o.of \in Call /\ o.stage = "queued" /\ call'[o.of].pc = "checking"
  BY DEF OpOK, Keeps
<1> QED BY <1>2, <1>3, <1>4, <1>5, <1>6, <1>7, <1>8, <1>9 DEF OpOK

\* A step that leaves the state, the log, the entry and the calls alone.
LEMMA KeepsWithSteadySession ==
  ASSUME Types, Types', NEW o \in OpRecord, OpOK(o),
         UNCHANGED <<disk, state, entry, call>>,
         o.op \in {"created", "suffix", "append", "forget"} => Steady(session[o.of], session'[o.of])
  PROVE  Keeps(o)
<1>1. o.op = "commit" => CommitOK(o)
  BY DEF OpOK
<1>2. o.op = "created" => CreatedOK(o)
  BY DEF OpOK
<1>3. o.op = "suffix" => SuffixOK(o)
  BY DEF OpOK
<1>4. o.op = "commit" => IF call'[o.of].holds THEN call[o.of].holds /\ entry'.rev = entry.rev
          ELSE o.stage = "queued" /\ Len(call[o.of].rev.events) < Len(disk'.events)
  BY <1>1 DEF CommitOK
<1>5. o.op = "commit" => call'[o.of].pc = "committing" /\ call'[o.of].rev = call[o.of].rev
  BY <1>1 DEF CommitOK
<1>6. o.op = "created" /\ o.stage = "queued" => state'.owner # o.of
  BY <1>2 DEF CreatedOK
<1>7. o.op = "suffix" => state'.owner = o.of /\ state'.materialized
  BY <1>3 DEF SuffixOK
<1>8. (o.op = "load" => entry'.phase = "loading") /\ (o.op = "check" => call'[o.of].pc = "checking")
  BY DEF OpOK
<1> QED BY <1>4, <1>5, <1>6, <1>7, <1>8 DEF Keeps

\* The operations that a step keeps in the chain are kept in the invariant, and a
\* new one has to establish its own part.
LEMMA ChainFrame ==
  ASSUME IInv, Types',
         \A i \in DOMAIN chain' :
            \/ \E j \in DOMAIN chain : chain'[i] = chain[j] /\ Keeps(chain[j])
            \/ OpOK(chain[i])'
  PROVE  ChainOK'
<1> SUFFICES ASSUME NEW i \in DOMAIN chain',
                    NEW j \in DOMAIN chain, chain'[i] = chain[j], Keeps(chain[j])
             PROVE  OpOK(chain[i])'
  BY DEF ChainOK
<1>1. chain[j] \in OpRecord /\ OpOK(chain[j]) /\ \A l \in Life : Controller(session[l])
  BY ElementOfSeq, LenProperties DEF IInv, Types, ChainOK, SessionOK
<1>2. \A o \in OpRecord : OpOK(o) /\ Keeps(o) => OpOK(o)'
  BY <1>1, OpFrame DEF IInv
<1> QED BY <1>1, <1>2

\* The state and its owner.
LEMMA StateFrame ==
  ASSUME IInv, Types', UNCHANGED <<disk, state>>,
         state.owner # None =>
           session'[state.owner].tracked /\ Begins(session[state.owner].log, session'[state.owner].log)
  PROVE  StateOK'
<1>1. ASSUME state.owner # None PROVE Begins(disk.events, session'[state.owner].log)
  <2>1. /\ disk.events \in Seq(Event) /\ session[state.owner].log \in Seq(Event)
        /\ session'[state.owner].log \in Seq(Event)
    BY <1>1 DEF IInv, Types, Revision, SessionRecord, StateRecord
  <2> QED BY <1>1, <2>1, BeginsTransitive DEF IInv, StateOK
<1> QED BY <1>1 DEF IInv, StateOK

\* The entry, when nothing enters the registry and no onCreated() is queued.
LEMMA EntryFrame ==
  ASSUME IInv, Types', UNCHANGED <<disk, state, entry>>,
         service' = "running" => service = "running",
         \A l \in Life : session'[l].phase = "live" => session[l].phase = "live",
         \A i \in DOMAIN chain' : chain'[i].op = "created" =>
            \E j \in DOMAIN chain : chain[j].op = "created"
  PROVE  EntryOK'
BY DEF IInv, EntryOK

\* The calls, when the entry and the stored log stay as they are.
LEMMA CallFrame ==
  ASSUME IInv, Types', UNCHANGED <<disk, entry, call>>,
         \A c \in Call : call[c].pc \notin {"published", "read", "live", "failed"} =>
            session'[c].phase = session[c].phase /\ Begins(session[c].log, session'[c].log)
  PROVE  CallOK'
<1>1. ASSUME NEW c \in Call, call[c].pc = "reserved", call[c].holds
      PROVE  Begins(disk.events, session'[c].log)
  <2>1. c \in Life
    BY DEF Life
  <2>2. /\ disk.events \in Seq(Event) /\ session[c].log \in Seq(Event)
        /\ session'[c].log \in Seq(Event)
    BY <2>1 DEF IInv, Types, Revision, SessionRecord
  <2> QED BY <1>1, <2>2, BeginsTransitive DEF IInv, CallOK
<1>2. \A c \in Call : call[c].pc \in {"idle", "wait", "flushing", "reading", "committing", "checking", "reserved"}
         => session'[c].phase = session[c].phase
  OBVIOUS
<1> QED BY <1>1, <1>2 DEF IInv, CallOK

SessionOps == {"created", "suffix", "append", "forget"}
Waiting(op) == IF op \in {"suffix", "append"} THEN "append" ELSE "queued"

\* The order of the chain when operations leave it and sessions leave the registry.
LEMMA OrderKept ==
  ASSUME IInv, Types', chain' = chain,
         \A l \in Life : session'[l].phase = "live" => session[l].phase = "live",
         state'.owner = state.owner
  PROVE  OrderOK'
<1>1. \A i \in DOMAIN chain : chain[i].op = "created" => chain[i].of \in Life
  BY DEF IInv, ChainOK, OpOK, CreatedOK
<1>2. state.owner # None => state.owner \in Life
  BY DEF IInv, Types, StateRecord
<1> QED BY <1>1, <1>2 DEF IInv, OrderOK

\* The chain without some of its operations, in the same order.
LEMMA OrderThinned ==
  ASSUME IInv, Types', NEW f,
         \A i \in DOMAIN chain' : f[i] \in DOMAIN chain /\ chain'[i] = chain[f[i]],
         \A i, j \in DOMAIN chain' : i < j => f[i] < f[j],
         \A l \in Life : session'[l].phase = "live" => session[l].phase = "live",
         \A i \in DOMAIN chain' : chain'[i].op = "created" /\ state'.owner \notin {None, chain'[i].of} =>
            session'[state'.owner].phase # "live"
  PROVE  OrderOK'
<1>1. /\ Len(chain) \in Nat /\ DOMAIN chain = 1..Len(chain)
      /\ Len(chain') \in Nat /\ DOMAIN chain' = 1..Len(chain')
  BY LenProperties DEF IInv, Types
<1>2. \A i, j \in DOMAIN chain' : f[i] = f[j] => i = j
  BY <1>1
<1>3. \A i, j \in DOMAIN chain' : f[i] < f[j] => i < j
  BY <1>1
<1>4. \A i \in DOMAIN chain : chain[i].op = "created" => chain[i].of \in Life
  BY DEF IInv, ChainOK, OpOK, CreatedOK
<1>5. \A i, j \in DOMAIN chain' :
       /\ Alike(chain'[i], chain'[j]) => i = j
       /\ chain'[i].op = "created" /\ chain'[j].op = "load" => i < j
       /\ chain'[i].op = "created" /\ chain'[j].op = "created" /\ i < j =>
            session'[chain'[i].of].phase # "live"
  BY <1>2, <1>3, <1>4 DEF IInv, OrderOK
<1>6. \A i \in DOMAIN chain' : i > 1 => chain'[i].stage =
        IF chain'[i].op \in {"suffix", "append"} THEN "append" ELSE "queued"
  <2>1. \A i \in DOMAIN chain' : i > 1 => f[i] > 1
    BY <1>1
  <2> QED BY <2>1 DEF IInv, OrderOK
<1> QED BY <1>5, <1>6 DEF OrderOK

\* The chain without one of its operations.
LEMMA OrderRemoved ==
  ASSUME IInv, Types', NEW k, IsWithout(chain', chain, k),
         \A l \in Life : session'[l].phase = "live" => session[l].phase = "live",
         \A i \in DOMAIN chain' : chain'[i].op = "created" /\ state'.owner \notin {None, chain'[i].of} =>
            session'[state'.owner].phase # "live"
  PROVE  OrderOK'
<1> DEFINE f == [i \in DOMAIN chain' |-> Kept(i, k)]
<1>1. chain \in Seq(OpRecord) /\ chain' \in Seq(OpRecord)
  BY DEF IInv, Types
<1>2. /\ \A i \in DOMAIN chain' : f[i] \in DOMAIN chain /\ chain'[i] = chain[f[i]]
      /\ \A i, j \in DOMAIN chain' : i < j => f[i] < f[j]
  BY <1>1, WithoutFacts
<1> HIDE DEF f
<1> QED BY <1>2, OrderThinned

\* serialize() adds an operation that is like none in the chain.
LEMMA OrderAppended ==
  ASSUME IInv, Types', NEW o \in OpRecord, chain' = Append(chain, o), o.stage = Waiting(o.op),
         \A i \in DOMAIN chain : ~Alike(chain[i], o),
         o.op = "created" => \A i \in DOMAIN chain : chain[i].op # "load",
         o.op = "created" => o.of \in Life /\ \A l \in Life \ {o.of} : session'[l].phase # "live",
         \A l \in Life : session'[l].phase = "live" =>
            \/ session[l].phase = "live" \/ o.op = "created"
            \/ \A i \in DOMAIN chain : chain[i].op # "created",
         (o.op = "created" /\ state'.owner # o.of)
           \/ (o.op # "created" /\ (state'.owner = state.owner \/ \A i \in DOMAIN chain : chain[i].op # "created"))
  PROVE  OrderOK'
<1>1. chain \in Seq(OpRecord) /\ chain' \in Seq(OpRecord) /\ Len(chain) \in Nat
  BY LenProperties DEF IInv, Types
<1>2. /\ DOMAIN chain' = DOMAIN chain \union {Len(chain) + 1}
      /\ Len(chain) + 1 \notin DOMAIN chain /\ \A i \in DOMAIN chain : i < Len(chain) + 1
      /\ \A i \in DOMAIN chain : chain'[i] = chain[i]
      /\ chain'[Len(chain) + 1] = o
  BY <1>1, AppendFacts
<1>3. \A i \in DOMAIN chain : chain[i].op = "created" => chain[i].of \in Life
  BY DEF IInv, ChainOK, OpOK, CreatedOK
<1>4. ASSUME NEW i \in DOMAIN chain', NEW j \in DOMAIN chain'
      PROVE /\ Alike(chain'[i], chain'[j]) => i = j
            /\ chain'[i].op = "created" /\ chain'[j].op = "load" => i < j
  BY <1>2 DEF IInv, OrderOK, Alike
<1>5. ASSUME NEW i \in DOMAIN chain', NEW j \in DOMAIN chain',
             chain'[i].op = "created", chain'[j].op = "created", i < j
      PROVE session'[chain'[i].of].phase # "live"
  <2>1. i \in DOMAIN chain /\ chain[i].op = "created" /\ chain[i].of \in Life /\ chain'[i] = chain[i]
    BY <1>1, <1>2, <1>3, <1>5, LenProperties
  <2>2. CASE j \in DOMAIN chain
    <3>1. session[chain[i].of].phase # "live"
      BY <1>2, <1>5, <2>1, <2>2 DEF IInv, OrderOK
    <3>2. CASE o.op = "created"
      BY <2>1, <3>2 DEF Alike
    <3>3. CASE o.op # "created"
      BY <2>1, <3>1, <3>3
    <3> QED BY <3>2, <3>3
  <2>3. CASE j = Len(chain) + 1
    BY <1>2, <1>5, <2>1, <2>3 DEF Alike
  <2> QED BY <1>2, <2>2, <2>3
<1>6. \A i \in DOMAIN chain' : i > 1 => chain'[i].stage =
        IF chain'[i].op \in {"suffix", "append"} THEN "append" ELSE "queued"
  BY <1>2 DEF IInv, OrderOK, Waiting
<1>7. ASSUME NEW i \in DOMAIN chain', chain'[i].op = "created",
             state'.owner \notin {None, chain'[i].of}
      PROVE  session'[state'.owner].phase # "live"
  <2>1. state'.owner \in Life
    BY <1>7 DEF Types, StateRecord
  <2>2. CASE o.op = "created"
    BY <2>1, <2>2
  <2>3. CASE o.op # "created"
    <3>1. i \in DOMAIN chain /\ chain'[i] = chain[i] /\ state'.owner = state.owner
      BY <1>2, <1>7, <2>3
    <3>2. session[state.owner].phase # "live"
      BY <1>7, <3>1 DEF IInv, OrderOK
    <3> QED BY <2>1, <1>7, <2>3, <3>1, <3>2
  <2> QED BY <2>2, <2>3
<1> QED BY <1>4, <1>5, <1>6, <1>7 DEF OrderOK

-----------------------------------------------------------------------------
(* Sessions and their write controllers *)

\* A step that changes one session and, of the rest, at most the chain.
LEMMA SessionStep ==
  ASSUME IInv, Types', NEW l \in Life, UNCHANGED <<disk, state, entry, call, service>>,
         \A m \in Life \ {l} : session'[m] = session[m],
         session[l].tracked => session'[l].tracked /\ Begins(session[l].log, session'[l].log),
         \/ /\ session[l].phase \in {"live", "disposed"}
            /\ session'[l].phase \in {session[l].phase, "disposed"}
         \/ session'[l].phase = session[l].phase /\ Begins(session[l].log, session'[l].log),
         Controller(session'[l]), WriterOK(l)',
         retirement' # None => session'[retirement'].retire \in {"draining", "forgetting"},
         OrderOK',
         \A i \in DOMAIN chain' :
            \/ \E j \in DOMAIN chain :
                 /\ chain'[i] = chain[j]
                 /\ chain[j].op \in SessionOps /\ chain[j].of = l => Steady(session[l], session'[l])
            \/ /\ OpOK(chain[i])'
               /\ chain'[i].op = "created" => \E j \in DOMAIN chain : chain[j].op = "created"
  PROVE  StateOK' /\ SessionOK' /\ RegistryOK' /\ ChainOK' /\ EntryOK' /\ CallOK'
<1> USE DEF IInv
<1>1. \A m \in Life : session[m] \in SessionRecord /\ session'[m] \in SessionRecord
  BY DEF Types
<1>2. \A m \in Life : Begins(session[m].log, session[m].log)
  BY <1>1, BeginsFacts DEF SessionRecord
<1>3. \A m \in Life : Steady(session[m], session[m])
  BY <1>1, <1>2 DEF Steady, SessionRecord
<1>4. StateOK'
  <2>1. state.owner # None => state.owner \in Life /\ session[state.owner].tracked
    BY DEF StateOK, Types, StateRecord
  <2>2. state.owner # None =>
          session'[state.owner].tracked /\ Begins(session[state.owner].log, session'[state.owner].log)
    BY <1>2, <2>1
  <2> QED BY <2>2, StateFrame
<1>5. SessionOK'
  <2> SUFFICES ASSUME NEW m \in Life PROVE Controller(session[m])' /\ WriterOK(m)'
    BY DEF SessionOK
  <2>1. CASE m = l
    BY <2>1
  <2>2. CASE m # l
    <3>1. session'[m] = session[m] /\ Controller(session[m]) /\ WriterOK(m)
      BY <2>2 DEF SessionOK
    <3> QED BY <3>1 DEF WriterOK
  <2> QED BY <2>1, <2>2
<1>6. \A m \in Life : session'[m].phase = "live" => session[m].phase = "live"
  BY <1>1
<1>7. RegistryOK'
  BY <1>6 DEF RegistryOK
<1>8. EntryOK'
  BY <1>6, EntryFrame
<1>9. CallOK'
  <2> SUFFICES ASSUME NEW c \in Call, call[c].pc \notin {"published", "read", "live", "failed"}
               PROVE  session'[c].phase = session[c].phase /\ Begins(session[c].log, session'[c].log)
    BY CallFrame
  <2>1. c \in Life
    BY DEF Life
  <2>2. session[c].phase \in {"none", "prepared"}
    BY DEF CallOK, Types, CallRecord
  <2> QED BY <1>2, <2>1, <2>2
<1>10. ChainOK'
  <2> SUFFICES ASSUME NEW j \in DOMAIN chain,
                      chain[j].op \in SessionOps /\ chain[j].of = l => Steady(session[l], session'[l])
               PROVE  Keeps(chain[j])
    BY ChainFrame
  <2>1. chain[j] \in OpRecord /\ OpOK(chain[j])
    BY ElementOfSeq, LenProperties DEF Types, ChainOK
  <2>2. chain[j].op \in SessionOps => chain[j].of \in Life
    BY <2>1 DEF OpOK, CreatedOK, SuffixOK, AppendOK, SessionOps
  <2>3. chain[j].op \in SessionOps => Steady(session[chain[j].of], session'[chain[j].of])
    BY <1>3, <2>2
  <2> QED BY <2>1, <2>3, KeepsWithSteadySession DEF SessionOps
<1> QED BY <1>4, <1>5, <1>7, <1>8, <1>9, <1>10

\* An operation of a session is queued only while the live map has the session.
LEMMA OpsAreTracked ==
  ASSUME IInv, NEW j \in DOMAIN chain, chain[j].op \in SessionOps
  PROVE  chain[j].of \in Life /\ session[chain[j].of].tracked
<1>1. OpOK(chain[j])
  BY DEF IInv, ChainOK
<1>2. chain[j].of \in Life
  BY <1>1 DEF OpOK, CreatedOK, SuffixOK, AppendOK, SessionOps
<1>3. Controller(session[chain[j].of]) /\ session[chain[j].of] \in SessionRecord
  BY <1>2 DEF IInv, SessionOK, Types
<1>4. session[chain[j].of].init # "none"
  BY <1>1, <1>3 DEF OpOK, CreatedOK, SuffixOK, AppendOK, SessionOps, Controller
<1> QED BY <1>2, <1>3, <1>4 DEF Controller, SessionRecord

\* A session/event only makes the log of a live session longer.
LEMMA AppendEventPreserves ==
  ASSUME IInv, NEW l \in Life, AppendEvent(l)
  PROVE  IInv'
<1> USE DEF IInv
<1> DEFINE r == session[l]
           q == session'[l]
           admits == service = "running" /\ session[l].tracked
<1>1. r \in SessionRecord /\ Controller(r) /\ WriterOK(l) /\ r.phase = "live" /\ l \in Event
  BY DEF Types, SessionOK, AppendEvent, Event
<1>2. /\ UNCHANGED <<disk, state, entry, call, service, chain, retirement, acked, troubles>>
      /\ session' = [session EXCEPT ![l] = [r EXCEPT !.log = Append(r.log, l),
                       !.admitted = IF admits THEN r.admitted + 1 ELSE r.admitted,
                       !.paused = r.paused /\ ~admits]]
  BY <1>1 DEF AppendEvent, coordVars, Types, SessionRecord
<1>3. /\ q = [r EXCEPT !.log = Append(r.log, l),
                       !.admitted = IF admits THEN r.admitted + 1 ELSE r.admitted,
                       !.paused = r.paused /\ ~admits]
      /\ \A m \in Life \ {l} : session'[m] = session[m]
  BY <1>2 DEF Types
<1>4. /\ q \in SessionRecord /\ q.log = Append(r.log, l) /\ Len(q.log) = Len(r.log) + 1
      /\ q.admitted = (IF admits THEN r.admitted + 1 ELSE r.admitted)
      /\ q.phase = r.phase /\ q.tracked = r.tracked /\ q.init = r.init /\ q.written = r.written
      /\ q.writing = r.writing /\ q.waiters = r.waiters /\ q.retire = r.retire /\ q.failed = r.failed
      /\ ~admits => q.paused = r.paused
  <2>1. PICK p \in BOOLEAN : p = (r.paused /\ ~admits)
    OBVIOUS
  <2>2. ~admits => p = r.paused
    BY <1>1, <2>1 DEF SessionRecord
  <2>3. q = [r EXCEPT !.log = Append(r.log, l),
                      !.admitted = IF admits THEN r.admitted + 1 ELSE r.admitted, !.paused = p]
    BY <1>3, <2>1, Zenon
  <2>4. PICK n \in Nat : n = IF admits THEN r.admitted + 1 ELSE r.admitted
    BY <1>1 DEF SessionRecord
  <2>5. Append(r.log, l) \in Seq(Event) /\ Len(Append(r.log, l)) = Len(r.log) + 1
    BY <1>1, AppendProperties DEF SessionRecord
  <2> HIDE DEF admits, q, r
  <2> QED BY <1>1, <2>2, <2>3, <2>4, <2>5 DEF SessionRecord
<1>5. Types'
  BY <1>2, <1>4 DEF Types
<1>6. Begins(r.log, q.log)
  BY <1>1, <1>4, BeginsFacts DEF SessionRecord
<1>7. Steady(r, q)
  BY <1>1, <1>4, <1>6 DEF Steady, SessionRecord
<1>8. Controller(q)
  BY <1>1, <1>4, LenProperties DEF Controller, SessionRecord
<1>9. WriterOK(l)'
  BY <1>1, <1>2, <1>4 DEF WriterOK
<1>10. retirement' # None => session'[retirement'].retire \in {"draining", "forgetting"}
  BY <1>2, <1>3, <1>4 DEF RegistryOK, Types
<1>11. OrderOK'
  BY <1>2, <1>3, <1>4, <1>5, OrderKept
<1> HIDE DEF r, q, admits
<1>12. StateOK' /\ SessionOK' /\ RegistryOK' /\ ChainOK' /\ EntryOK' /\ CallOK'
  BY <1>1, <1>2, <1>3, <1>4, <1>5, <1>6, <1>7, <1>8, <1>9, <1>10, <1>11, SessionStep DEF r, q
<1>13. FlushedOK'
  <2>1. service # "running" => (Flushed(r) => Flushed(q))
    BY <1>4 DEF Flushed, admits
  <2> QED BY <1>2, <1>3, <1>4, <2>1 DEF FlushedOK, r, q
<1>14. InFlightOK'
  BY <1>2, <1>3, <1>4 DEF InFlightOK, r, q
<1>15. ClosedOK'
  <2>1. service # "running" => (Flushed(r) => Flushed(q))
    BY <1>4 DEF Flushed, admits
  <2> QED BY <1>2, <1>3, <1>4, <2>1 DEF ClosedOK, r, q
<1> QED BY <1>2, <1>5, <1>11, <1>12, <1>13, <1>14, <1>15

\* flush() adds a waiter.
LEMMA FlushPreserves ==
  ASSUME IInv, NEW l \in Life, Flush(l)
  PROVE  IInv'
<1> USE DEF IInv
<1> DEFINE r == session[l]
           q == session'[l]
<1>1. r \in SessionRecord /\ Controller(r) /\ WriterOK(l) /\ r.phase = "live" /\ r.tracked
      /\ service = "running"
  BY DEF Types, SessionOK, Flush
<1>2. /\ UNCHANGED <<disk, state, entry, call, service, chain, retirement, acked, troubles>>
      /\ session' = [session EXCEPT ![l] = [r EXCEPT !.waiters = r.waiters \union {"flush"},
                                                     !.paused = FALSE]]
  BY <1>1 DEF Flush, coordVars, Types, SessionRecord
<1>3. /\ q = [r EXCEPT !.waiters = r.waiters \union {"flush"}, !.paused = FALSE]
      /\ \A m \in Life \ {l} : session'[m] = session[m]
  BY <1>2 DEF Types
<1>4. /\ q \in SessionRecord /\ q.log = r.log /\ q.admitted = r.admitted /\ q.phase = r.phase
      /\ q.tracked = r.tracked /\ q.init = r.init /\ q.written = r.written
      /\ q.writing = r.writing /\ q.waiters = r.waiters \union {"flush"} /\ q.retire = r.retire
  BY <1>1, <1>3 DEF SessionRecord
<1>5. Types'
  BY <1>2, <1>4 DEF Types
<1>6. Begins(r.log, q.log)
  BY <1>1, <1>4, BeginsFacts DEF SessionRecord
<1>7. Steady(r, q)
  BY <1>1, <1>4, <1>6 DEF Steady, SessionRecord
<1>8. Controller(q)
  BY <1>1, <1>4 DEF Controller, SessionRecord
<1>9. WriterOK(l)'
  BY <1>1, <1>2, <1>4 DEF WriterOK
<1>10. retirement' # None => session'[retirement'].retire \in {"draining", "forgetting"}
  BY <1>2, <1>3, <1>4 DEF RegistryOK, Types
<1>11. OrderOK'
  BY <1>2, <1>3, <1>4, <1>5, OrderKept
<1> HIDE DEF r, q
<1>12. StateOK' /\ SessionOK' /\ RegistryOK' /\ ChainOK' /\ EntryOK' /\ CallOK'
  BY <1>1, <1>2, <1>3, <1>4, <1>5, <1>6, <1>7, <1>8, <1>9, <1>10, <1>11, SessionStep DEF r, q
<1>13. FlushedOK' /\ ClosedOK'
  BY <1>1, <1>2 DEF FlushedOK, ClosedOK
<1>14. InFlightOK'
  BY <1>2, <1>3, <1>4 DEF InFlightOK, r, q
<1> QED BY <1>2, <1>5, <1>11, <1>12, <1>13, <1>14

\* What retire() leaves of a session, when the plugin listens and when it does not.
LEMMA RetirePreserves ==
  ASSUME IInv, NEW l \in Life, Retire(l)
  PROVE  IInv'
<1> USE DEF IInv
<1> DEFINE r == session[l]
           q == session'[l]
           heard == service = "running" /\ r.tracked
<1>1. r \in SessionRecord /\ Controller(r) /\ WriterOK(l) /\ r.phase = "live"
  BY DEF Types, SessionOK, Retire
<1>2. /\ UNCHANGED <<disk, state, entry, call, service, chain, acked, troubles>>
      /\ \A m \in Life \ {l} : session'[m] = session[m]
      /\ session' \in [Life -> {q} \union SessionRecord]
      /\ retirement' = IF heard THEN l ELSE retirement
      /\ heard => q = [r EXCEPT !.phase = "disposed", !.retire = "draining", !.paused = FALSE,
                                !.waiters = r.waiters \union {"retire"}]
      /\ ~heard /\ r.tracked => q = [r EXCEPT !.phase = "disposed"]
      /\ ~heard /\ ~r.tracked => q = Gone
  <2>1. CASE heard
    <3>1. /\ UNCHANGED <<disk, state, entry, call, service, chain, acked, troubles>>
          /\ session' = [session EXCEPT ![l].phase = "disposed",
                 ![l].retire = "draining", ![l].paused = FALSE,
                 ![l].waiters = @ \union {"retire"}]
          /\ retirement' = l
      BY <2>1 DEF Retire
    <3>2. q = [r EXCEPT !.phase = "disposed", !.retire = "draining", !.paused = FALSE,
                        !.waiters = r.waiters \union {"retire"}]
      BY <1>1, <3>1 DEF Types, SessionRecord
    <3>3. \A m \in Life \ {l} : session'[m] = session[m]
      BY <3>1 DEF Types
    <3>4. session' \in [Life -> {q} \union SessionRecord]
      BY <3>1 DEF Types
    <3> QED BY <2>1, <3>1, <3>2, <3>3, <3>4
  <2>2. CASE ~heard
    BY <1>1, <2>2 DEF Retire, Types
  <2> QED BY <2>1, <2>2
<1>3. /\ q \in SessionRecord /\ q.phase = "disposed" /\ q.tracked = r.tracked
      /\ r.tracked => /\ q.log = r.log /\ q.admitted = r.admitted /\ q.init = r.init
                      /\ q.written = r.written /\ q.writing = r.writing /\ q.failed = r.failed
      /\ ~heard /\ r.tracked => q.waiters = r.waiters /\ q.paused = r.paused /\ q.retire = r.retire
      /\ ~heard /\ ~r.tracked => q = Gone
      /\ heard => q.waiters = r.waiters \union {"retire"} /\ q.retire = "draining"
  <2>1. CASE heard
    <3>1. q = [r EXCEPT !.phase = "disposed", !.retire = "draining", !.paused = FALSE,
                        !.waiters = r.waiters \union {"retire"}]
      BY <1>2, <2>1
    <3> HIDE DEF q
    <3> QED BY <1>1, <2>1, <3>1 DEF SessionRecord
  <2>2. CASE ~heard /\ r.tracked
    <3>1. q = [r EXCEPT !.phase = "disposed"]
      BY <1>2, <2>2
    <3> HIDE DEF q
    <3> QED BY <1>1, <2>2, <3>1 DEF SessionRecord
  <2>3. CASE ~heard /\ ~r.tracked
    <3>1. q = Gone
      BY <1>2, <2>3
    <3>2. r.tracked = FALSE
      BY <1>1, <2>3 DEF SessionRecord
    <3>3. q \in SessionRecord /\ q.phase = "disposed" /\ q.tracked = FALSE
      BY <3>1, BlankRecords
    <3> HIDE DEF q
    <3> QED BY <2>3, <3>1, <3>2, <3>3
  <2> QED BY <2>1, <2>2, <2>3
<1>4. retirement' \in Life \union {None}
  BY <1>2 DEF Types
<1>5. Types'
  BY <1>2, <1>3, <1>4 DEF Types
<1>6. r.tracked => Begins(r.log, q.log)
  BY <1>1, <1>3, BeginsFacts DEF SessionRecord
<1>7. r.retire = "none"
  BY <1>1 DEF Controller, SessionRecord
<1>8. r.tracked => Steady(r, q)
  BY <1>1, <1>3, <1>6, <1>7 DEF Steady, SessionRecord
<1>9. Controller(q)
  <2>1. CASE r.tracked
    BY <1>1, <1>3, <1>7, <2>1 DEF Controller, SessionRecord
  <2>2. CASE ~r.tracked
    BY <1>3, <2>2 DEF Controller, Gone, Unborn
  <2> QED BY <2>1, <2>2
<1>10. WriterOK(l)'
  <2>1. CASE r.tracked
    BY <1>1, <1>2, <1>3, <2>1 DEF WriterOK
  <2>2. CASE ~r.tracked
    BY <1>3, <2>2 DEF WriterOK, Gone, Unborn
  <2> QED BY <2>1, <2>2
<1>11. retirement' # None => session'[retirement'].retire \in {"draining", "forgetting"}
  <2>1. retirement # l \/ retirement = None
    BY <1>7 DEF RegistryOK
  <2> QED BY <1>2, <1>3, <2>1 DEF RegistryOK, Types
<1>12. OrderOK'
  BY <1>2, <1>3, <1>5, OrderKept
<1>13. \A i \in DOMAIN chain : chain[i].op \in SessionOps /\ chain[i].of = l => r.tracked
  BY OpsAreTracked
<1>14. StateOK' /\ SessionOK' /\ RegistryOK' /\ ChainOK' /\ EntryOK' /\ CallOK'
  <2> HIDE DEF heard
  <2> QED BY <1>1, <1>2, <1>3, <1>5, <1>6, <1>8, <1>9, <1>10, <1>11, <1>12, <1>13, SessionStep
<1>15. service # "running" => (r.tracked /\ Flushed(r) => Flushed(q))
  BY <1>3 DEF Flushed
<1>16. FlushedOK'
  BY <1>2, <1>3, <1>15 DEF FlushedOK
<1>17. InFlightOK'
  <2>1. q.writing # "none" => r.writing # "none"
    BY <1>3 DEF Gone, Unborn
  <2> QED BY <1>2, <2>1 DEF InFlightOK
<1>18. ClosedOK'
  <2>1. service # "running" => (q.waiters = r.waiters \/ q.waiters = {})
    BY <1>3 DEF Gone, Unborn
  <2> QED BY <1>2, <1>3, <1>15, <2>1 DEF ClosedOK
<1> QED BY <1>2, <1>5, <1>12, <1>14, <1>16, <1>17, <1>18

\* startWrite() queues what is admitted and not yet written.
LEMMA StartWritePreserves ==
  ASSUME IInv, NEW l \in Life, StartWrite(l)
  PROVE  IInv'
<1> USE DEF IInv
<1> DEFINE r == session[l]
           q == session'[l]
<1>1. /\ r \in SessionRecord /\ Controller(r) /\ WriterOK(l)
      /\ r.tracked /\ r.init = "ready" /\ r.writing = "none" /\ r.written < r.admitted
      /\ r.waiters # {} \/ ~r.paused
  BY DEF Types, SessionOK, StartWrite
<1>2. PICK o \in OpRecord : /\ o = Op("append", l, r.admitted, "append")
                           /\ o.op = "append" /\ o.of = l /\ o.n = r.admitted /\ o.stage = "append"
  BY <1>1, NewOp DEF SessionRecord
<1>3. PICK w \in {"background", "barrier"} :
      /\ UNCHANGED <<disk, state, entry, call, service, retirement, acked, troubles>>
      /\ session' = [session EXCEPT ![l] = [r EXCEPT !.writing = w]]
      /\ chain' = Append(chain, o)
  BY <1>1, <1>2 DEF StartWrite, Enqueue, Types
<1>4. /\ q = [r EXCEPT !.writing = w]
      /\ \A m \in Life \ {l} : session'[m] = session[m]
  BY <1>3 DEF Types
<1>5. /\ q \in SessionRecord /\ q.log = r.log /\ q.admitted = r.admitted /\ q.phase = r.phase
      /\ q.tracked = r.tracked /\ q.init = r.init /\ q.written = r.written /\ q.writing = w
      /\ q.waiters = r.waiters /\ q.retire = r.retire /\ q.paused = r.paused /\ q.failed = r.failed
  BY <1>1, <1>4 DEF SessionRecord
<1>6. /\ chain' \in Seq(OpRecord) /\ DOMAIN chain' = DOMAIN chain \union {Len(chain) + 1}
      /\ \A i \in DOMAIN chain : chain'[i] = chain[i]
      /\ chain'[Len(chain) + 1] = o
  BY <1>3, <1>2, AppendFacts DEF Types
<1>7. Types'
  BY <1>3, <1>5, <1>6 DEF Types
<1>8. Begins(r.log, q.log)
  BY <1>1, <1>5, BeginsFacts DEF SessionRecord
<1>9. Steady(r, q)
  BY <1>1, <1>3, <1>5, <1>8 DEF Steady, SessionRecord
<1>10. Controller(q)
  BY <1>1, <1>5 DEF Controller, SessionRecord
<1>11. WriterOK(l)'
  BY <1>1, <1>3, <1>5 DEF WriterOK, SessionRecord
<1>12. retirement' # None => session'[retirement'].retire \in {"draining", "forgetting"}
  BY <1>3, <1>4, <1>5 DEF RegistryOK, Types
<1>13. \A i \in DOMAIN chain : ~Alike(chain[i], o)
  BY <1>1, <1>2 DEF ChainOK, OpOK, AppendOK, Alike
<1>14. OrderOK'
  BY <1>3, <1>4, <1>5, <1>2, <1>7, <1>13, OrderAppended DEF Waiting
<1>15. OpOK(o)'
  BY <1>1, <1>3, <1>5, <1>2 DEF OpOK, AppendOK, SessionRecord
<1>16. StateOK' /\ SessionOK' /\ RegistryOK' /\ ChainOK' /\ EntryOK' /\ CallOK'
  <2>1. \A i \in DOMAIN chain' : (\E j \in DOMAIN chain : chain'[i] = chain[j])
                                 \/ (chain'[i].op # "created" /\ OpOK(chain[i])')
    BY <1>6, <1>15, <1>2
  <2> HIDE DEF r, q
  <2> QED BY <1>1, <1>3, <1>4, <1>5, <1>7, <1>8, <1>9, <1>10, <1>11, <1>12, <1>14, <2>1, SessionStep DEF r, q
<1>17. FlushedOK'
  <2>1. Flushed(r) => Flushed(q)
    BY <1>1, <1>3, <1>5 DEF Flushed, SessionRecord
  <2> QED BY <1>3, <1>4, <1>5, <2>1 DEF FlushedOK
<1>18. InFlightOK'
  <2>1. \E i \in DOMAIN chain' : chain'[i].op = "append" /\ chain'[i].of = l
    BY <1>2, <1>6
  <2> QED BY <1>4, <1>6, <2>1 DEF InFlightOK
<1>19. ClosedOK'
  <2>1. service # "closed"
    BY <1>1 DEF ClosedOK, Flushed, SessionRecord
  <2> QED BY <1>3, <2>1 DEF ClosedOK
<1> QED BY <1>3, <1>7, <1>14, <1>16, <1>17, <1>18, <1>19

\* The waiters of a session whose initialization failed are refused.
LEMMA FlushRefusedPreserves ==
  ASSUME IInv, NEW l \in Life, FlushRefused(l)
  PROVE  IInv'
<1> USE DEF IInv
<1> DEFINE r == session[l]
           q == session'[l]
<1>1. /\ r \in SessionRecord /\ Controller(r) /\ WriterOK(l)
      /\ r.init = "failed" /\ r.waiters # {}
  BY DEF Types, SessionOK, FlushRefused
<1>2. /\ UNCHANGED <<disk, state, entry, chain, call, service, acked, troubles>>
      /\ session' = [session EXCEPT ![l] = Refused(l, r)]
      /\ retirement' = RetirementAfter(l, r)
  BY DEF FlushRefused
<1>3. /\ q = Refused(l, r)
      /\ \A m \in Life \ {l} : session'[m] = session[m]
  BY <1>2 DEF Types
<1>4. /\ q \in SessionRecord /\ q.log = r.log /\ q.admitted = r.admitted /\ q.phase = r.phase
      /\ q.tracked = r.tracked /\ q.init = r.init /\ q.written = r.written
      /\ q.writing = r.writing /\ q.waiters = {}
      /\ q.retire = (IF "retire" \in r.waiters THEN "failed" ELSE r.retire)
      /\ "dispose" \in r.waiters \/ r.failed => q.failed
  <2>1. PICK f \in BOOLEAN : f = (r.failed \/ "dispose" \in r.waiters)
    OBVIOUS
  <2>2. q = [r EXCEPT !.waiters = {}, !.failed = f,
                      !.retire = IF "retire" \in r.waiters THEN "failed" ELSE r.retire]
    BY <1>3, <2>1 DEF Refused
  <2>3. "dispose" \in r.waiters \/ r.failed => f
    BY <2>1
  <2> HIDE DEF q
  <2> QED BY <1>1, <2>2, <2>3 DEF SessionRecord
<1>5. Types'
  BY <1>2, <1>4 DEF Types, RetirementAfter
<1>6. Begins(r.log, q.log)
  BY <1>1, <1>4, BeginsFacts DEF SessionRecord
<1>7. Steady(r, q) /\ Controller(q)
  BY <1>1, <1>4, <1>6 DEF Steady, Controller, SessionRecord
<1>8. WriterOK(l)'
  BY <1>1, <1>2, <1>4 DEF WriterOK
<1>9. retirement' # None => session'[retirement'].retire \in {"draining", "forgetting"}
  BY <1>2, <1>3, <1>4 DEF RegistryOK, Types, RetirementAfter
<1>10. OrderOK'
  BY <1>2, <1>3, <1>4, <1>5, OrderKept
<1> HIDE DEF r, q
<1>11. StateOK' /\ SessionOK' /\ RegistryOK' /\ ChainOK' /\ EntryOK' /\ CallOK'
  BY <1>1, <1>2, <1>3, <1>4, <1>5, <1>6, <1>7, <1>8, <1>9, <1>10, SessionStep DEF r, q
<1>12. FlushedOK'
  <2>1. ("dispose" \in r.waiters \/ Flushed(r)) => Flushed(q)
    BY <1>1, <1>4 DEF Flushed
  <2> QED BY <1>2, <1>3, <1>4, <2>1 DEF FlushedOK, r, q
<1>13. InFlightOK'
  BY <1>2, <1>3, <1>4 DEF InFlightOK, r, q
<1>14. ClosedOK'
  BY <1>1, <1>2 DEF ClosedOK, r
<1> QED BY <1>2, <1>5, <1>10, <1>11, <1>12, <1>13, <1>14

\* What a drained controller has written is stored.
LEMMA DrainedIsStored ==
  ASSUME IInv, NEW l \in Life, session[l].init = "ready",
         NEW n \in 0..session[l].written
  PROVE  SubSeq(session[l].log, 1, n) \in Seq(Event) /\ Begins(SubSeq(session[l].log, 1, n), disk.events)
<1> USE DEF IInv
<1> DEFINE r == session[l]
           s == SubSeq(r.log, 1, n)
<1>1. /\ r \in SessionRecord /\ Controller(r) /\ WriterOK(l) /\ r.log \in Seq(Event)
      /\ disk.events \in Seq(Event) /\ Len(r.log) \in Nat /\ Len(disk.events) \in Nat /\ n \in Nat
      /\ state.cursor \in Nat
  BY LenProperties DEF Types, SessionOK, SessionRecord, Revision, StateRecord
<1>2. n <= Len(r.log)
  BY <1>1 DEF Controller, SessionRecord
<1>3. s \in Seq(Event) /\ Len(s) = n /\ \A i \in 1..n : s[i] = r.log[i]
  BY <1>1, <1>2
<1>4. CASE n = 0
  BY <1>1, <1>3, <1>4 DEF Begins
<1>5. CASE n > 0
  <2>1. state.owner = l /\ n <= state.cursor
    BY <1>1, <1>5 DEF WriterOK, Controller, SessionRecord
  <2>2. state.owner # None
    BY <2>1, NoneIsNoSession
  <2>3. Begins(disk.events, r.log) /\ n <= Len(disk.events)
    BY <1>1, <1>5, <2>1, <2>2 DEF StateOK
  <2>4. \A i \in 1..n : s[i] = disk.events[i]
    BY <1>1, <1>3, <2>3 DEF Begins
  <2> QED BY <1>3, <2>3, <2>4 DEF Begins
<1> QED BY <1>1, <1>4, <1>5, <1>3

\* A barrier reports as durable what is stored, and a retirement goes on to its end.
LEMMA BarrierDonePreserves ==
  ASSUME IInv, NEW l \in Life, BarrierDone(l)
  PROVE  IInv'
<1> USE DEF IInv
<1> DEFINE r == session[l]
           q == session'[l]
           retires == "retire" \in r.waiters
           o == Op("forget", l, 0, "queued")
<1>1. /\ r \in SessionRecord /\ Controller(r) /\ WriterOK(l)
      /\ r.init = "ready" /\ r.waiters # {} /\ r.tracked
      /\ r.admitted = r.written /\ r.writing = "none"
  <2>1. /\ r \in SessionRecord /\ Controller(r) /\ WriterOK(l)
        /\ r.init = "ready" /\ r.waiters # {}
        /\ ~(r.admitted > r.written) /\ ~(r.writing # "none")
    BY DEF Types, SessionOK, BarrierDone, Drained, HasWork
  <2> QED BY <2>1 DEF Controller, SessionRecord
<1>2. /\ UNCHANGED <<disk, state, entry, call, service, retirement, troubles>>
      /\ session' = [session EXCEPT ![l] = [r EXCEPT !.waiters = {},
                       !.retire = IF retires THEN "forgetting" ELSE r.retire]]
      /\ chain' = IF retires THEN Append(chain, o) ELSE chain
      /\ acked' = IF r.admitted > Len(acked) THEN SubSeq(r.log, 1, r.admitted) ELSE acked
  BY <1>1 DEF BarrierDone, Enqueue, Types, SessionRecord
<1>3. /\ q = [r EXCEPT !.waiters = {}, !.retire = IF retires THEN "forgetting" ELSE r.retire]
      /\ \A m \in Life \ {l} : session'[m] = session[m]
  BY <1>2 DEF Types
<1>4. /\ q \in SessionRecord /\ q.log = r.log /\ q.admitted = r.admitted /\ q.phase = r.phase
      /\ q.tracked = r.tracked /\ q.init = r.init /\ q.written = r.written
      /\ q.writing = r.writing /\ q.waiters = {}
      /\ q.retire = (IF retires THEN "forgetting" ELSE r.retire)
  BY <1>1, <1>3 DEF SessionRecord
<1>5. o \in OpRecord /\ o.op = "forget" /\ o.of = l /\ o.stage = "queued"
  BY DEF Op, OpRecord
<1> HIDE DEF o
<1>6. /\ chain' \in Seq(OpRecord)
      /\ retires => /\ DOMAIN chain' = DOMAIN chain \union {Len(chain) + 1}
                    /\ chain'[Len(chain) + 1] = o
      /\ ~retires => DOMAIN chain' = DOMAIN chain
      /\ \A i \in DOMAIN chain : chain'[i] = chain[i]
  BY <1>2, <1>5, AppendFacts DEF Types
<1>7. acked' \in Seq(Event) /\ Begins(acked', disk.events)
  <2>1. r.admitted \in 0..r.written
    BY <1>1 DEF SessionRecord
  <2>2. SubSeq(r.log, 1, r.admitted) \in Seq(Event) /\ Begins(SubSeq(r.log, 1, r.admitted), disk.events)
    BY <1>1, <2>1, DrainedIsStored
  <2> QED BY <1>2, <2>2 DEF Types
<1>8. Types'
  BY <1>2, <1>4, <1>6, <1>7 DEF Types
<1>9. Begins(r.log, q.log)
  BY <1>1, <1>4, BeginsFacts DEF SessionRecord
<1>10. Steady(r, q) /\ Controller(q)
  BY <1>1, <1>4, <1>9 DEF Steady, Controller, SessionRecord
<1>11. WriterOK(l)'
  BY <1>1, <1>2, <1>4 DEF WriterOK
<1>12. retirement' # None => session'[retirement'].retire \in {"draining", "forgetting"}
  BY <1>2, <1>3, <1>4 DEF RegistryOK, Types
<1>13. retires => \A i \in DOMAIN chain : ~Alike(chain[i], o)
  <2>1. retires => r.retire = "draining"
    BY <1>1 DEF Controller
  <2> QED BY <1>5, <2>1 DEF ChainOK, OpOK, Alike
<1>14. OrderOK'
  <2>1. CASE retires
    BY <1>2, <1>3, <1>4, <1>5, <1>8, <1>13, <2>1, OrderAppended DEF Waiting
  <2>2. CASE ~retires
    BY <1>2, <1>3, <1>4, <1>8, <2>2, OrderKept
  <2> QED BY <2>1, <2>2
<1>15. retires => OpOK(o)'
  BY <1>4, <1>5 DEF OpOK
<1>16. StateOK' /\ SessionOK' /\ RegistryOK' /\ ChainOK' /\ EntryOK' /\ CallOK'
  <2>1. \A i \in DOMAIN chain' : (\E j \in DOMAIN chain : chain'[i] = chain[j])
                                 \/ (chain'[i].op # "created" /\ OpOK(chain[i])')
    BY <1>5, <1>6, <1>15
  <2> HIDE DEF r, q, retires
  <2> QED BY <1>1, <1>2, <1>3, <1>4, <1>8, <1>9, <1>10, <1>11, <1>12, <1>14, <2>1, SessionStep DEF r, q
<1>17. FlushedOK'
  <2>1. Flushed(q)
    BY <1>1, <1>4 DEF Flushed
  <2> QED BY <1>2, <1>3, <1>4, <2>1 DEF FlushedOK
<1>18. InFlightOK'
  <2>1. \A i \in DOMAIN chain : i \in DOMAIN chain' /\ chain'[i] = chain[i]
    BY <1>6
  <2>2. \A m \in Life : session'[m].writing = session[m].writing
    BY <1>3, <1>4
  <2> QED BY <2>1, <2>2 DEF InFlightOK
<1>19. ClosedOK'
  BY <1>1, <1>2 DEF ClosedOK
<1> QED BY <1>2, <1>7, <1>8, <1>14, <1>16, <1>17, <1>18, <1>19

\* A session enters the registry: a new one, or that of a prepare() call whose
\* reservation has gone.
LEMMA EnterPreserves ==
  ASSUME IInv, NEW l \in Life, NEW log \in Seq(Event), Enter(l, log),
         UNCHANGED <<disk, state, entry, retirement, service, acked, troubles>>,
         session[l].phase \in {"none", "prepared"},
         \A c \in Call \ {l} : call'[c] = call[c],
         l \in Call => /\ call[l].pc = "reserved" /\ call'[l].pc = "published"
                       /\ ~call'[l].holds,
         call' \in [Call -> CallRecord]
  PROVE  IInv'
<1> USE DEF IInv
<1> DEFINE r == session[l]
           q == session'[l]
           running == service = "running"
<1>1. /\ r \in SessionRecord /\ Controller(r) /\ Len(log) \in Nat
      /\ \A m \in Life : session[m].phase # "live"
      /\ service # "disposing" /\ (running => entry = NoEntry)
  BY LenProperties DEF Types, SessionOK, Enter, InRegistry, Vetoed
<1>2. /\ ~r.tracked /\ r.init = "none" /\ r.admitted = 0 /\ r.written = 0 /\ r.writing = "none"
      /\ r.waiters = {} /\ r.retire = "none"
  BY <1>1 DEF Controller, SessionRecord
<1>3. PICK o \in OpRecord : /\ o = Op("created", l, Len(log), "queued")
                            /\ o.op = "created" /\ o.of = l /\ o.n = Len(log) /\ o.stage = "queued"
  BY <1>1, NewOp
<1>4. /\ session' = [session EXCEPT ![l] = q]
      /\ running => q = Tracked([r EXCEPT !.phase = "live", !.log = log]) /\ chain' = Append(chain, o)
      /\ ~running => q = [r EXCEPT !.phase = "live", !.log = log] /\ chain' = chain
  <2>1. CASE running
    BY <1>3, <2>1 DEF Enter, Enqueue, Types
  <2>2. CASE ~running
    BY <2>2 DEF Enter, Types
  <2> QED BY <2>1, <2>2
<1>5. \A m \in Life \ {l} : session'[m] = session[m]
  BY <1>4 DEF Types
<1>6. /\ q \in SessionRecord /\ q.phase = "live" /\ q.log = log /\ q.writing = "none"
      /\ q.waiters = {} /\ q.retire = "none" /\ q.admitted = q.written
      /\ running => q.tracked /\ q.init = "pending" /\ q.written = Len(log)
      /\ ~running => ~q.tracked /\ q.init = "none" /\ q.written = 0
  <2>1. CASE running
    <3>1. q = [r EXCEPT !.phase = "live", !.log = log, !.tracked = TRUE, !.init = "pending",
                        !.admitted = Len(log), !.written = Len(log)]
      <4>1. [r EXCEPT !.phase = "live", !.log = log].log = log
        BY <1>1 DEF SessionRecord
      <4> QED BY <1>1, <1>4, <2>1, <4>1 DEF Tracked, SessionRecord
    <3> HIDE DEF q
    <3> QED BY <1>1, <1>2, <2>1, <3>1 DEF SessionRecord
  <2>2. CASE ~running
    <3>1. q = [r EXCEPT !.phase = "live", !.log = log]
      BY <1>4, <2>2
    <3> HIDE DEF q
    <3> QED BY <1>1, <1>2, <2>2, <3>1 DEF SessionRecord
  <2> QED BY <2>1, <2>2
<1> HIDE DEF q, running
<1>7. /\ chain' \in Seq(OpRecord)
      /\ running => /\ DOMAIN chain' = DOMAIN chain \union {Len(chain) + 1}
                    /\ chain'[Len(chain) + 1] = o
      /\ ~running => chain' = chain
      /\ \A i \in DOMAIN chain : i \in DOMAIN chain' /\ chain'[i] = chain[i]
  <2>1. CASE running
    <3>1. chain \in Seq(OpRecord) /\ chain' = Append(chain, o)
      BY <1>4, <2>1 DEF Types
    <3>2. /\ chain' \in Seq(OpRecord) /\ DOMAIN chain' = DOMAIN chain \union {Len(chain) + 1}
          /\ \A i \in DOMAIN chain : chain'[i] = chain[i]
          /\ chain'[Len(chain) + 1] = o
      BY <3>1, AppendFacts
    <3> QED BY <2>1, <3>2
  <2>2. CASE ~running
    BY <1>4, <2>2 DEF Types
  <2> QED BY <2>1, <2>2
<1>8. Types'
  BY <1>4, <1>6, <1>7 DEF Types
<1>9. state.owner # l /\ retirement # l
  BY <1>2, NoneIsNoSession DEF StateOK, RegistryOK
<1>10. StateOK'
  <2>1. state.owner # None => state.owner \in Life \ {l} /\ session[state.owner].log \in Seq(Event)
                              /\ session[state.owner].tracked
    BY <1>9 DEF Types, StateRecord, StateOK, SessionRecord
  <2>2. state.owner # None => Begins(session[state.owner].log, session[state.owner].log)
    BY <2>1, BeginsFacts
  <2>3. state.owner # None =>
          session'[state.owner].tracked /\ Begins(session[state.owner].log, session'[state.owner].log)
    BY <1>5, <2>1, <2>2
  <2> QED BY <1>8, <2>3, StateFrame
<1>11. SessionOK'
  <2> SUFFICES ASSUME NEW m \in Life PROVE Controller(session[m])' /\ WriterOK(m)'
    BY DEF SessionOK
  <2>1. CASE m = l
    BY <1>1, <1>6, <2>1 DEF Controller, WriterOK, SessionRecord, running, q
  <2>2. CASE m # l
    <3>1. session'[m] = session[m] /\ Controller(session[m]) /\ WriterOK(m)
      BY <1>5, <2>2 DEF SessionOK
    <3> QED BY <3>1 DEF WriterOK
  <2> QED BY <2>1, <2>2
<1>12. RegistryOK'
  <2>1. \A m \in Life : session'[m].phase = "live" => m = l
    BY <1>1, <1>5
  <2>2. retirement # None => session'[retirement].retire \in {"draining", "forgetting"}
    BY <1>5, <1>9 DEF RegistryOK, Types
  <2>3. service # "closed" => running
    BY <1>1 DEF running, Types
  <2> QED BY <1>6, <2>1, <2>2, <2>3 DEF RegistryOK, q
<1>13. OrderOK'
  <2>1. CASE running
    <3>1. \A i \in DOMAIN chain : ~Alike(chain[i], o)
      BY <1>2, <1>3, OpsAreTracked DEF SessionOps, Alike
    <3>2. \A i \in DOMAIN chain : chain[i].op # "load"
      BY <1>1, <2>1 DEF ChainOK, OpOK, NoEntry
    <3> QED BY <1>1, <1>3, <1>4, <1>5, <1>8, <1>9, <2>1, <3>1, <3>2, OrderAppended DEF Waiting
  <2>2. CASE ~running
    <3>1. chain' = chain /\ \A i \in DOMAIN chain : chain[i].op = "created" => chain[i].of \in Life \ {l}
      BY <1>2, <1>4, <2>2, OpsAreTracked DEF SessionOps
    <3>2. state.owner # None => state.owner \in Life \ {l}
      BY <1>9 DEF Types, StateRecord
    <3>3. \A m \in Life \ {l} : session'[m].phase # "live"
      BY <1>1, <1>5
    <3> QED BY <3>1, <3>2, <3>3 DEF OrderOK
  <2> QED BY <2>1, <2>2
<1>14. ChainOK'
  <2>1. running => OpOK(o)'
    BY <1>3, <1>6, <1>9 DEF OpOK, CreatedOK, q
  <2>2. ASSUME NEW j \in DOMAIN chain PROVE Keeps(chain[j])
    <3>1. chain[j] \in OpRecord /\ OpOK(chain[j])
      BY ElementOfSeq, LenProperties DEF Types, ChainOK
    <3>2. ASSUME chain[j].op \in SessionOps PROVE Steady(session[chain[j].of], session'[chain[j].of])
      <4>1. chain[j].of \in Life \ {l}
        BY <1>2, <3>2, OpsAreTracked
      <4>2. session[chain[j].of] \in SessionRecord /\ session'[chain[j].of] = session[chain[j].of]
        BY <1>5, <4>1 DEF Types
      <4>3. Begins(session[chain[j].of].log, session[chain[j].of].log)
        BY <4>2, BeginsFacts DEF SessionRecord
      <4> QED BY <4>2, <4>3 DEF Steady, SessionRecord
    <3>3. chain[j].op \in {"commit", "check"} => chain[j].of \in Call \ {l}
      BY <3>1 DEF OpOK, CommitOK
    <3>4. chain[j].op \in {"commit", "check"} => call'[chain[j].of] = call[chain[j].of]
      BY <3>3
    <3>5. (chain[j].op = "created" => CreatedOK(chain[j])) /\ (chain[j].op = "suffix" => SuffixOK(chain[j]))
          /\ (chain[j].op = "commit" => CommitOK(chain[j]))
      BY <3>1 DEF OpOK
    <3>6. (chain[j].op = "load" => entry.phase = "loading")
          /\ (chain[j].op = "check" => call[chain[j].of].pc = "checking")
      BY <3>1 DEF OpOK
    <3> QED BY <3>2, <3>4, <3>5, <3>6 DEF Keeps, CreatedOK, SuffixOK, CommitOK, SessionOps
  <2>3. \A i \in DOMAIN chain' : i \in DOMAIN chain \/ (running /\ chain'[i] = o)
    BY <1>7
  <2> QED BY <1>7, <1>8, <2>1, <2>2, <2>3, ChainFrame
<1>15. EntryOK'
  <2>1. running => entry'.phase = "none" /\ entry'.rev = NoEntry.rev
    BY <1>1 DEF NoEntry
  <2>2. CASE running
    BY <2>1, <2>2 DEF EntryOK
  <2>3. CASE ~running
    BY <1>7, <2>3 DEF EntryOK, running
  <2> QED BY <2>2, <2>3
<1>16. CallOK'
  <2>1. \A c \in Call : c \in Life
    BY DEF Life
  <2>2. ASSUME NEW c \in Call \ {l}
        PROVE  call'[c] = call[c] /\ session'[c] = session[c]
    BY <1>5, <2>1, <2>2
  <2>3. ASSUME NEW c \in Call
        PROVE  /\ call'[c].holds => c # l /\ entry'.phase # "none"
               /\ call'[c].pc = "committing" /\ call'[c].holds => entry'.phase = "committing"
               /\ call'[c].pc = "reserved" /\ call'[c].holds =>
                    entry'.phase = "reserved" /\ Begins(disk'.events, session'[c].log)
               /\ call'[c].pc = "reserved" => session'[c].phase = "prepared"
               /\ call'[c].pc \in {"idle", "wait", "flushing", "reading", "committing", "checking"} =>
                    session'[c].phase = "none"
    BY <2>2 DEF CallOK
  <2> QED BY <2>2, <2>3 DEF CallOK
<1>17. FlushedOK'
  BY <1>5, <1>6 DEF FlushedOK, running, q
<1>18. InFlightOK'
  BY <1>5, <1>6, <1>7 DEF InFlightOK, q
<1>19. ClosedOK'
  <2>1. CASE service = "closed"
    <3>1. ~running /\ chain' = chain
      BY <1>4, <2>1 DEF running
    <3>2. \A c \in Call : call'[c].pc \notin {"wait", "reading"}
      BY <2>1 DEF ClosedOK
    <3> QED BY <1>5, <1>6, <2>1, <3>1, <3>2 DEF ClosedOK, q
  <2> QED BY <2>1 DEF ClosedOK
<1> QED BY <1>8, <1>10, <1>11, <1>12, <1>13, <1>14, <1>15, <1>16, <1>17, <1>18, <1>19

\* The balanced view of a stored log.
LEMMA ViewIsLog ==
  ASSUME NEW rev \in Revision
  PROVE  /\ Logical(rev) \in Seq(Event) /\ Closers(Logical(rev)) \in Seq(Event)
         /\ View(rev) \in Seq(Event)
<1>1. Logical(rev) \in Seq(Event)
  BY ConcatProperties DEF Logical, Revision
<1>2. <<0>> \in Seq(Event) /\ <<>> \in Seq(Event)
  BY DEF Event
<1>3. Closers(Logical(rev)) \in Seq(Event)
  BY <1>2 DEF Closers
<1> QED BY <1>1, <1>3, ConcatProperties DEF View

\* A new session starts from nothing or from a log that was read.
LEMMA CreateSessionPreserves ==
  ASSUME IInv, NEW l \in Life, CreateSession(l)
  PROVE  IInv'
<1>1. l \in Fresh /\ session[l].phase = "none" /\ l \notin Call
  BY CoordinatorAssumption DEF CreateSession, Fresh, Call
<1>2. PICK log \in {<<>>} \union {View(call[c].rev) : c \in {d \in Call : call[d].pc = "read"}} :
        Enter(l, log)
  BY DEF CreateSession
<1>3. log \in Seq(Event)
  <2>1. \A c \in Call : call[c].rev \in Revision
    BY DEF IInv, Types, CallRecord
  <2>2. \A c \in Call : View(call[c].rev) \in Seq(Event)
    BY <2>1, ViewIsLog
  <2>3. <<>> \in Seq(Event)
    OBVIOUS
  <2> QED BY <1>2, <2>2, <2>3
<1>4. UNCHANGED <<disk, state, entry, retirement, service, call, acked, troubles>>
  BY DEF CreateSession
<1>5. call' \in [Call -> CallRecord]
  BY <1>4 DEF IInv, Types
<1> QED BY <1>1, <1>2, <1>3, <1>4, <1>5, EnterPreserves

-----------------------------------------------------------------------------
(* The head of the chain *)

\* The head of the chain, and the operations behind it, which have not begun.
LEMMA HeadFacts ==
  ASSUME IInv, chain # <<>>
  PROVE  /\ Head(chain) = chain[1] /\ 1 \in DOMAIN chain
         /\ Head(chain) \in OpRecord /\ OpOK(Head(chain))
         /\ Tail(chain) \in Seq(OpRecord) /\ IsWithout(Tail(chain), chain, 1)
         /\ service # "closed"
         /\ \A j \in DOMAIN chain \ {1} :
              /\ j > 1 /\ chain[j] \in OpRecord /\ OpOK(chain[j])
              /\ chain[j].stage = Waiting(chain[j].op) /\ ~Alike(chain[j], Head(chain))
<1> USE DEF IInv
<1>1. chain \in Seq(OpRecord)
  BY DEF Types
<1>2. /\ Head(chain) = chain[1] /\ 1 \in DOMAIN chain /\ Head(chain) \in OpRecord
      /\ Tail(chain) \in Seq(OpRecord) /\ IsWithout(Tail(chain), chain, 1)
  BY <1>1, TailIsWithout
<1>3. \A j \in DOMAIN chain : j \in 1..Len(chain) /\ Len(chain) \in Nat /\ chain[j] \in OpRecord
  BY <1>1, LenProperties, ElementOfSeq
<1>4. OpOK(Head(chain)) /\ service # "closed"
  BY <1>2 DEF ChainOK, ClosedOK
<1>5. ASSUME NEW j \in DOMAIN chain \ {1}
      PROVE /\ j > 1 /\ chain[j] \in OpRecord /\ OpOK(chain[j])
            /\ chain[j].stage = Waiting(chain[j].op) /\ ~Alike(chain[j], Head(chain))
  <2>1. j > 1 /\ chain[j] \in OpRecord
    BY <1>3
  <2>2. OpOK(chain[j]) /\ chain[j].stage = Waiting(chain[j].op)
    BY <2>1 DEF ChainOK, OrderOK, Waiting
  <2>3. ~Alike(chain[j], chain[1])
    BY <1>2 DEF OrderOK
  <2> QED BY <1>2, <2>1, <2>2, <2>3
<1> QED BY <1>2, <1>4, <1>5

\* Without its head, the chain has exactly the operations behind it.
LEMMA TailFacts ==
  ASSUME IInv, chain # <<>>
  PROVE  /\ \A i \in DOMAIN Tail(chain) : \E j \in DOMAIN chain \ {1} : Tail(chain)[i] = chain[j]
         /\ \A j \in DOMAIN chain \ {1} : \E i \in DOMAIN Tail(chain) : Tail(chain)[i] = chain[j]
<1>1. chain \in Seq(OpRecord) /\ Tail(chain) \in Seq(OpRecord) /\ IsWithout(Tail(chain), chain, 1)
  BY HeadFacts DEF IInv, Types
<1>2. \A t \in Seq(OpRecord) : IsWithout(t, chain, 1) =>
        /\ \A i \in DOMAIN t : Kept(i, 1) \in DOMAIN chain \ {1} /\ t[i] = chain[Kept(i, 1)]
        /\ \A j \in DOMAIN chain \ {1} : \E i \in DOMAIN t : t[i] = chain[j]
  BY <1>1, WithoutFacts
<1>3. \A i \in DOMAIN Tail(chain) :
        Kept(i, 1) \in DOMAIN chain \ {1} /\ Tail(chain)[i] = chain[Kept(i, 1)]
  BY <1>1, <1>2, Zenon
<1>4. \A j \in DOMAIN chain \ {1} : \E i \in DOMAIN Tail(chain) : Tail(chain)[i] = chain[j]
  BY <1>1, <1>2, Zenon
<1> QED BY <1>3, <1>4, Zenon

\* The head goes on to another stage.
LEMMA StagedHead ==
  ASSUME IInv, chain # <<>>, NEW b \in Seq(Event),
         NEW s \in {"queued", "append", "write", "truncate", "restore"}, ToStage(s, b)
  PROVE  \E o \in OpRecord :
            /\ chain' \in Seq(OpRecord) /\ DOMAIN chain' = DOMAIN chain
            /\ \A i \in DOMAIN chain \ {1} : chain'[i] = chain[i]
            /\ chain'[1] = o /\ o.op = Head(chain).op /\ o.of = Head(chain).of
            /\ o.n = Head(chain).n /\ o.stage = s /\ o.batch = b
<1> DEFINE h == chain[1]
           o == [h EXCEPT !.stage = s, !.batch = b]
<1>1. /\ chain \in Seq(OpRecord) /\ Len(chain) \in Nat /\ DOMAIN chain = 1..Len(chain)
      /\ h \in OpRecord /\ h = Head(chain) /\ 1 \in DOMAIN chain
  BY HeadFacts, LenProperties DEF IInv, Types
<1>2. chain' = [chain EXCEPT ![1] = o]
  BY <1>1 DEF ToStage
<1>3. o \in OpRecord /\ o.op = h.op /\ o.of = h.of /\ o.n = h.n /\ o.stage = s /\ o.batch = b
  BY <1>1 DEF OpRecord
<1> HIDE DEF o
<1>4. chain' \in Seq(OpRecord) /\ DOMAIN chain' = DOMAIN chain /\ chain'[1] = o
      /\ \A i \in DOMAIN chain \ {1} : chain'[i] = chain[i]
  BY <1>1, <1>2, <1>3, ExceptSeq
<1> QED BY <1>1, <1>3, <1>4

\* The chain, when its head goes on to another stage.
LEMMA OrderStaged ==
  ASSUME IInv, Types', chain # <<>>, DOMAIN chain' = DOMAIN chain,
         \A i \in DOMAIN chain \ {1} : chain'[i] = chain[i],
         chain'[1].op = Head(chain).op, chain'[1].of = Head(chain).of,
         \A l \in Life : session'[l].phase = "live" => session[l].phase = "live",
         \A i \in DOMAIN chain : chain[i].op = "created" /\ state'.owner \notin {None, chain[i].of} =>
            session'[state'.owner].phase # "live"
  PROVE  OrderOK'
<1>1. Head(chain) = chain[1] /\ \A i \in DOMAIN chain : i = 1 \/ i > 1
  BY HeadFacts
<1>2. \A i \in DOMAIN chain : chain'[i].op = chain[i].op /\ chain'[i].of = chain[i].of
  BY <1>1
<1>3. \A i \in DOMAIN chain : i > 1 => chain'[i] = chain[i]
  OBVIOUS
<1>4. \A i \in DOMAIN chain : chain[i].op = "created" => chain[i].of \in Life
  BY DEF IInv, ChainOK, OpOK, CreatedOK
<1> QED BY <1>2, <1>3, <1>4 DEF IInv, OrderOK, Alike

\* An operation behind the head, when the head changes the state or the log.
LEMMA KeepsBehindHead ==
  ASSUME IInv, Types', chain # <<>>, NEW j \in DOMAIN chain \ {1}, UNCHANGED <<entry, call>>,
         chain[j].op \in SessionOps => Steady(session[chain[j].of], session'[chain[j].of]),
         chain[j].op = "created" => state'.owner # chain[j].of,
         chain[j].op = "suffix" => state'.owner = chain[j].of /\ state'.materialized,
         Len(disk.events) <= Len(disk'.events)
  PROVE  Keeps(chain[j])
<1>1. chain[j] \in OpRecord /\ OpOK(chain[j]) /\ chain[j].stage = Waiting(chain[j].op)
  BY HeadFacts
<1>2. chain[j].op = "commit" => CommitOK(chain[j])
  BY <1>1 DEF OpOK
<1>3. ASSUME chain[j].op = "commit", ~call[chain[j].of].holds
      PROVE  Len(call[chain[j].of].rev.events) < Len(disk'.events)
  <2>1. chain[j].of \in Call /\ Len(call[chain[j].of].rev.events) < Len(disk.events)
    BY <1>2, <1>3 DEF CommitOK
  <2>2. call[chain[j].of].rev.events \in Seq(Event) /\ disk.events \in Seq(Event)
        /\ disk'.events \in Seq(Event)
    BY <2>1 DEF IInv, Types, CallRecord, Revision
  <2>3. Len(call[chain[j].of].rev.events) \in Nat /\ Len(disk.events) \in Nat /\ Len(disk'.events) \in Nat
    BY <2>2, LenProperties
  <2> QED BY <2>1, <2>3
<1>4. chain[j].op = "commit" => call[chain[j].of].pc = "committing" /\ chain[j].stage = "queued"
  BY <1>1, <1>2 DEF CommitOK, Waiting
<1>5. (chain[j].op = "load" => entry.phase = "loading")
      /\ (chain[j].op = "check" => call[chain[j].of].pc = "checking")
  BY <1>1 DEF OpOK
<1>6. chain[j].stage \notin {"write", "truncate", "restore"}
      /\ ~(chain[j].op = "created" /\ chain[j].stage = "append")
  BY <1>1 DEF Waiting
<1> QED BY <1>3, <1>4, <1>5, <1>6 DEF Keeps, SessionOps

\* The head is a session's initialization, and its only operation.
LEMMA InitIsAlone ==
  ASSUME IInv, chain # <<>>, Head(chain).op \in {"created", "suffix"},
         NEW j \in DOMAIN chain \ {1}, chain[j].op \in SessionOps
  PROVE  chain[j].of # Head(chain).of
<1>1. /\ OpOK(Head(chain)) /\ OpOK(chain[j]) /\ ~Alike(chain[j], Head(chain))
  BY HeadFacts
<1>2. Head(chain).of \in Life /\ session[Head(chain).of].init = "pending"
  BY <1>1 DEF OpOK, CreatedOK, SuffixOK
<1>3. Controller(session[Head(chain).of])
  BY <1>2 DEF IInv, SessionOK
<1> QED BY <1>1, <1>2, <1>3 DEF OpOK, AppendOK, Controller, SessionOps, Alike

\* The session that onCreated() initializes owns the state, or goes on to own it,
\* or its initialization fails; meanwhile the stored log may have been repaired.
LEMMA AdoptionStep ==
  ASSUME IInv, Types', chain # <<>>, Head(chain).op = "created", state.owner # Head(chain).of,
         UNCHANGED <<entry, call, service, retirement, acked>>, StateOK',
         Len(disk.events) <= Len(disk'.events), Begins(acked, disk'.events),
         \/ state' = state
         \/ /\ state'.owner \in {None, Head(chain).of}
            /\ state.owner = None \/ (~state.materialized /\ ~HasWork(state.owner)),
         \/ /\ session' = session /\ DOMAIN chain' = DOMAIN chain
            /\ \A i \in DOMAIN chain \ {1} : chain'[i] = chain[i]
            /\ chain'[1].op = "created" /\ chain'[1].of = Head(chain).of /\ OpOK(chain[1])'
         \/ session' = [session EXCEPT ![Head(chain).of].init = "failed"] /\ chain' = Tail(chain)
  PROVE  IInv'
<1> USE DEF IInv
<1> DEFINE l == Head(chain).of
           r == session[l]
           q == session'[l]
<1>1. /\ Head(chain) = chain[1] /\ 1 \in DOMAIN chain /\ chain \in Seq(OpRecord)
      /\ OpOK(Head(chain)) /\ service # "closed"
      /\ Tail(chain) \in Seq(OpRecord) /\ IsWithout(Tail(chain), chain, 1)
  BY HeadFacts DEF Types
<1>2. /\ l \in Life /\ r.init = "pending" /\ r \in SessionRecord /\ Controller(r) /\ state.owner # l
  BY <1>1 DEF OpOK, CreatedOK, Types, SessionOK
<1>3. r.tracked /\ r.writing = "none"
  BY <1>2 DEF Controller
<1>4. /\ \A m \in Life \ {l} : session'[m] = session[m]
      /\ q \in SessionRecord /\ q.init \in {"pending", "failed"} /\ q.phase = r.phase /\ q.log = r.log
      /\ q.tracked = r.tracked /\ q.admitted = r.admitted /\ q.written = r.written
      /\ q.writing = r.writing /\ q.waiters = r.waiters /\ q.retire = r.retire /\ q.paused = r.paused
      /\ q.failed = r.failed
  <2>1. CASE session' = session
    BY <1>2, <2>1
  <2>2. CASE session' = [session EXCEPT ![l].init = "failed"]
    <3>1. q = [r EXCEPT !.init = "failed"] /\ \A m \in Life \ {l} : session'[m] = session[m]
      BY <1>2, <2>2 DEF Types
    <3> HIDE DEF q, r
    <3> QED BY <1>2, <3>1 DEF SessionRecord
  <2> QED BY <2>1, <2>2
<1> HIDE DEF q, r, l
<1>5. \A m \in Life : /\ session'[m].phase = session[m].phase /\ session'[m].tracked = session[m].tracked
                      /\ session'[m].retire = session[m].retire /\ session'[m].log = session[m].log
                      /\ session'[m].writing = session[m].writing
                      /\ session'[m].waiters = session[m].waiters
  BY <1>4 DEF q, r
<1>6. SessionOK'
  <2> SUFFICES ASSUME NEW m \in Life PROVE Controller(session[m])' /\ WriterOK(m)'
    BY DEF SessionOK
  <2>1. CASE m = l
    BY <1>2, <1>3, <1>4, <2>1 DEF Controller, WriterOK, SessionRecord, q, r
  <2>2. CASE m # l
    <3>1. session'[m] = session[m] /\ Controller(session[m]) /\ WriterOK(m) /\ session[m] \in SessionRecord
      BY <1>4, <2>2 DEF SessionOK, Types
    <3>2. CASE state' = state \/ state.owner # m
      BY <2>2, <3>1, <3>2, NoneIsNoSession DEF WriterOK, l
    <3>3. CASE state' # state /\ state.owner = m
      <4>1. m # None /\ state'.owner # m /\ ~state.materialized /\ ~HasWork(m)
        BY <2>2, <3>3, NoneIsNoSession DEF l
      <4>2. state.cursor = 0 /\ session[m].phase # "live" /\ session[m].tracked
        BY <1>1, <2>2, <3>3, <4>1 DEF StateOK, OrderOK, l
      <4>3. session[m].phase = "disposed"
        BY <3>1, <4>2 DEF Controller
      <4>4. session[m].init = "ready" => session[m].admitted = 0 /\ session[m].writing = "none"
        BY <3>1, <3>3, <4>1, <4>2 DEF WriterOK, HasWork, SessionRecord
      <4> QED BY <3>1, <4>1, <4>3, <4>4 DEF WriterOK
    <3> QED BY <3>2, <3>3
  <2> QED BY <2>1, <2>2
<1>7. RegistryOK'
  <2>1. retirement # None => session'[retirement].retire \in {"draining", "forgetting"}
    BY <1>5 DEF RegistryOK, Types
  <2>2. service # "closed" => \A m \in Life : session'[m].phase = "live" => session'[m].tracked
    BY <1>5 DEF RegistryOK
  <2>3. \A a, m \in Life : session'[a].phase = "live" /\ session'[m].phase = "live" => a = m
    BY <1>5 DEF RegistryOK
  <2> QED BY <2>1, <2>2, <2>3 DEF RegistryOK
<1>8. \A i \in DOMAIN chain : chain[i].op = "created" /\ state'.owner \notin {None, chain[i].of} =>
        session'[state'.owner].phase # "live"
  <2> SUFFICES ASSUME NEW i \in DOMAIN chain, chain[i].op = "created", state'.owner \notin {None, chain[i].of}
               PROVE  session[state'.owner].phase # "live"
    BY <1>5 DEF Types, StateRecord
  <2>1. CASE state' = state
    BY <2>1 DEF OrderOK
  <2>2. CASE state'.owner = l
    <3>1. i # 1 /\ i > 1
      BY <1>1, <2>2, HeadFacts DEF l
    <3> QED BY <1>1, <2>2, <3>1 DEF OrderOK, l
  <2> QED BY <2>1, <2>2 DEF l
<1>9. OrderOK'
  <2>1. CASE chain' = Tail(chain)
    <3>1. \A i \in DOMAIN chain' : \E j \in DOMAIN chain : chain'[i] = chain[j]
      BY <2>1, TailFacts
    <3> QED BY <1>1, <1>5, <1>8, <2>1, <3>1, OrderRemoved
  <2>2. CASE chain' # Tail(chain)
    BY <1>5, <1>8, <2>2, OrderStaged
  <2> QED BY <2>1, <2>2
<1>10. ASSUME NEW j \in DOMAIN chain \ {1} PROVE Keeps(chain[j])
  <2>1. OpOK(chain[j]) /\ chain[j].stage = Waiting(chain[j].op) /\ ~Alike(chain[j], Head(chain))
    BY HeadFacts
  <2>2. ASSUME chain[j].op \in SessionOps PROVE Steady(session[chain[j].of], session'[chain[j].of])
    <3>1. chain[j].of \in Life /\ chain[j].of # l
      BY <2>2, OpsAreTracked, InitIsAlone DEF l
    <3>2. session'[chain[j].of] = session[chain[j].of] /\ session[chain[j].of] \in SessionRecord
      BY <1>4, <3>1 DEF Types
    <3>3. Begins(session[chain[j].of].log, session[chain[j].of].log)
      BY <3>2, BeginsFacts DEF SessionRecord
    <3> QED BY <3>2, <3>3 DEF Steady, SessionRecord
  <2>3. chain[j].op = "created" => state'.owner # chain[j].of
    <3>1. chain[j].op = "created" => CreatedOK(chain[j]) /\ chain[j].stage = "queued" /\ chain[j].of # l
      BY <2>1 DEF OpOK, Waiting, Alike, l
    <3> QED BY <3>1, NoneIsNoSession DEF CreatedOK, l
  <2>4. chain[j].op = "suffix" => state'.owner = chain[j].of /\ state'.materialized
    <3>1. chain[j].op = "suffix" => SuffixOK(chain[j])
      BY <2>1 DEF OpOK
    <3> QED BY <3>1, NoneIsNoSession DEF SuffixOK
  <2> QED BY <2>2, <2>3, <2>4, KeepsBehindHead
<1>11. ChainOK'
  <2>1. CASE chain' = Tail(chain)
    <3>1. \A i \in DOMAIN chain' : \E j \in DOMAIN chain \ {1} : chain'[i] = chain[j]
      BY <2>1, TailFacts
    <3> QED BY <1>10, <3>1, ChainFrame
  <2>2. CASE chain' # Tail(chain)
    BY <1>10, <2>2, ChainFrame
  <2> QED BY <2>1, <2>2
<1>12. entry.phase \in {"none", "loading"}
  BY <1>1 DEF EntryOK, Types, EntryRecord
<1>13. EntryOK'
  BY <1>5, <1>12 DEF EntryOK
<1>14. CallOK'
  <2>1. \A c \in Call : c \in Life
    BY DEF Life
  <2>2. \A c \in Call : ~(call[c].pc = "reserved" /\ call[c].holds)
    BY <1>12 DEF CallOK
  <2> QED BY <1>5, <2>1, <2>2 DEF CallOK
<1>15. FlushedOK'
  <2>1. service # "running" => "dispose" \in r.waiters
    BY <1>2, <1>3 DEF FlushedOK, Flushed, r
  <2> QED BY <1>4, <2>1 DEF FlushedOK, q, r
<1>16. InFlightOK'
  <2>1. \A j \in DOMAIN chain \ {1} : \E i \in DOMAIN chain' : chain'[i] = chain[j]
    <3>1. CASE chain' = Tail(chain)
      BY <3>1, TailFacts
    <3>2. CASE chain' # Tail(chain)
      BY <3>2
    <3> QED BY <3>1, <3>2
  <2> QED BY <1>1, <1>5, <2>1 DEF InFlightOK
<1>17. ClosedOK'
  BY <1>1 DEF ClosedOK
<1> QED BY <1>6, <1>7, <1>9, <1>11, <1>13, <1>14, <1>15, <1>16, <1>17

\* onCreated() decides who owns the state: the session goes on to write what is
\* missing, or its initialization fails.
LEMMA OwnerStep ==
  ASSUME IInv, Types', chain # <<>>, Head(chain).op = "created", Head(chain).stage = "queued",
         UNCHANGED <<disk, entry, call, service, retirement, acked>>, StateOK',
         \/ state' = state
         \/ /\ state'.owner \in {None, Head(chain).of}
            /\ state.owner = None \/ (~state.materialized /\ ~HasWork(state.owner)),
         \/ /\ session' = session /\ DOMAIN chain' = DOMAIN chain
            /\ \A i \in DOMAIN chain \ {1} : chain'[i] = chain[i]
            /\ chain'[1].op = "created" /\ chain'[1].of = Head(chain).of /\ OpOK(chain[1])'
         \/ session' = [session EXCEPT ![Head(chain).of].init = "failed"] /\ chain' = Tail(chain)
  PROVE  IInv'
<1>1. state.owner # Head(chain).of
  BY HeadFacts DEF OpOK, CreatedOK
<1>2. Len(disk.events) <= Len(disk'.events) /\ Begins(acked, disk'.events)
  BY LenProperties DEF IInv, Types, Revision
<1> QED BY <1>1, <1>2, AdoptionStep

\* The state of an owner that has stored the first n events of its log.
LEMMA OwnedState ==
  ASSUME NEW n \in Nat, NEW l \in Life \union {None}
  PROVE  /\ Owned(n, l) \in StateRecord /\ Owned(n, l).cursor = n /\ Owned(n, l).owner = l
         /\ Owned(n, l).known /\ (Owned(n, l).materialized <=> n > 0)
<1> DEFINE b == n > 0
<1>1. b \in BOOLEAN
  OBVIOUS
<1> HIDE DEF b
<1>2. PICK m \in BOOLEAN : m = b
  BY <1>1
<1>3. Owned(n, l) = [cursor |-> n, materialized |-> m, owner |-> l, known |-> TRUE]
  BY <1>2, Zenon DEF Owned, b
<1>4. m <=> n > 0
  BY <1>2 DEF b
<1> QED BY <1>3, <1>4 DEF StateRecord

\* The state of an id that the coordinator knows nothing of.
LEMMA BlankState ==
  /\ NoState \in StateRecord /\ NoState.owner = None /\ ~NoState.known /\ ~NoState.materialized
  /\ NoState.cursor = 0
BY DEF NoState, StateRecord

\* The entry of an id that is not being prepared.
LEMMA BlankEntry ==
  /\ NoEntry \in EntryRecord /\ NoEntry.rev \in Revision
  /\ NoEntry.phase = "none" /\ NoEntry.rev.events = <<>>
<1>1. <<>> \in Seq(Event)
  OBVIOUS
<1>2. NoEntry.rev \in Revision /\ NoEntry.phase = "none" /\ NoEntry.rev.events = <<>>
  BY <1>1 DEF NoEntry, Revision
<1>3. NoEntry \in EntryRecord
  BY <1>1 DEF NoEntry, EntryRecord, Revision
<1> QED BY <1>2, <1>3

\* What is stored without a torn tail is the log itself.
LEMMA UntornLog ==
  ASSUME disk \in Revision, StateOK, ~disk.torn
  PROVE  /\ Logical(disk) = disk.events
         /\ SubSeq(Logical(disk), 1, Len(disk.events)) = disk.events
<1>1. disk.tail = <<>> /\ disk.events \in Seq(Event)
  BY DEF StateOK, Revision
<1>2. Logical(disk) = disk.events
  BY <1>1 DEF Logical
<1>3. SubSeq(disk.events, 1, Len(disk.events)) = disk.events
  BY <1>1
<1> QED BY <1>2, <1>3

\* onCreated() gives the state to the session, or fails its initialization.
LEMMA OnCreatedPreserves ==
  ASSUME IInv, OnCreated
  PROVE  IInv'
<1> USE DEF IInv
<1> DEFINE l == Head(chain).of
           r == session[l]
           seed == SubSeq(session[l].log, 1, Head(chain).n)
           claim == state.known /\ state.owner = None
           claimable == IsPrefix(SubSeq(Logical(disk), 1, state.cursor), seed)
           stored == Logical(disk)
<1>1. /\ chain # <<>> /\ Head(chain).op = "created" /\ Head(chain).stage = "queued"
      /\ UNCHANGED <<disk, entry, retirement, service, call, acked, troubles>>
  BY DEF OnCreated, At
<1>2. /\ Head(chain) \in OpRecord /\ OpOK(Head(chain)) /\ Tail(chain) \in Seq(OpRecord)
      /\ disk \in Revision /\ state \in StateRecord /\ disk.events \in Seq(Event)
      /\ disk.tail \in Seq(Event) /\ Len(disk.events) \in Nat
  BY <1>1, HeadFacts, LenProperties DEF Types, Revision
<1>3. /\ l \in Life /\ l # None /\ r \in SessionRecord /\ r.init = "pending" /\ r.tracked
      /\ Head(chain).n = r.written /\ r.log \in Seq(Event)
      /\ Head(chain).n \in 0..Len(r.log) /\ Len(r.log) \in Nat
  <2>1. l \in Life /\ r.init = "pending" /\ Head(chain).n = r.written
    BY <1>1, <1>2 DEF OpOK, CreatedOK
  <2>2. r \in SessionRecord /\ Controller(r) /\ r.log \in Seq(Event)
    BY <2>1 DEF Types, SessionOK, SessionRecord
  <2>3. Len(r.log) \in Nat
    BY <2>2, LenProperties
  <2> QED BY <2>1, <2>2, <2>3, NoneIsNoSession DEF Controller, SessionRecord
<1>4. seed \in Seq(Event) /\ Begins(seed, r.log)
  BY <1>3 DEF Begins
<1>5. \A s \in Seq(Event) : IsPrefix(s, seed) => Begins(s, r.log)
  <2> HIDE DEF seed, r
  <2> QED BY <1>3, <1>4, PrefixIsBegins, BeginsTransitive
<1>6. stored \in Seq(Event)
  BY <1>2, ViewIsLog
<1> HIDE DEF l, r, seed
\* The session goes on as the owner of what is stored.
<1>7. ASSUME NEW s \in StateRecord, state' = s, s.owner = l, s.known,
             ToStage("append", <<>>), UNCHANGED session,
             ~disk.torn, Begins(disk.events, r.log),
             s.cursor = IF s.materialized THEN Len(disk.events) ELSE 0,
             state.owner = None \/ (~state.materialized /\ ~HasWork(state.owner))
      PROVE  IInv'
  <2>1. <<>> \in Seq(Event)
    OBVIOUS
  <2>2. PICK b \in Seq(Event) : ToStage("append", b)
    BY <1>7, <2>1, Zenon
  <2>3. PICK o \in OpRecord :
            /\ chain' \in Seq(OpRecord) /\ DOMAIN chain' = DOMAIN chain
            /\ \A i \in DOMAIN chain \ {1} : chain'[i] = chain[i]
            /\ chain'[1] = o /\ o.op = Head(chain).op /\ o.of = l
            /\ o.n = Head(chain).n /\ o.stage = "append"
    BY <1>1, <1>7, <2>2, StagedHead DEF l
  <2>4. Types'
    BY <1>1, <1>7, <2>3 DEF Types
  <2>5. StateOK'
    BY <1>1, <1>3, <1>7 DEF StateOK, r
  <2>6. OpOK(o)'
    BY <1>1, <1>3, <1>7, <2>3 DEF OpOK, CreatedOK, r
  <2> QED BY <1>1, <1>7, <2>3, <2>4, <2>5, <2>6, OwnerStep DEF l
\* The initialization fails.
<1>8. ASSUME InitSettles(l, "failed"),
             \/ state' = state
             \/ /\ state' = NoState
                /\ state.owner = None \/ (~state.materialized /\ ~HasWork(state.owner))
      PROVE  IInv'
  <2>1. session' = [session EXCEPT ![l].init = "failed"] /\ chain' = Tail(chain)
    BY <1>8 DEF InitSettles
  <2>2. [r EXCEPT !.init = "failed"] \in SessionRecord
    BY <1>3 DEF SessionRecord
  <2>3. session' \in [Life -> SessionRecord]
    BY <1>3, <2>1, <2>2 DEF Types, r
  <2>4. state' \in StateRecord
    BY <1>2, <1>8, BlankState
  <2>5. Types'
    BY <1>1, <1>2, <2>1, <2>3, <2>4 DEF Types
  <2>6. \A m \in Life : session'[m].tracked = session[m].tracked /\ session'[m].log = session[m].log
    BY <1>3, <2>1 DEF Types, SessionRecord
  <2>7. StateOK'
    <3>1. CASE state' = state
      BY <1>1, <2>6, <3>1 DEF StateOK, Types, StateRecord
    <3>2. CASE state' = NoState
      BY <1>1, <3>2, BlankState DEF StateOK
    <3> QED BY <1>8, <3>1, <3>2
  <2>8. state'.owner \in {None, Head(chain).of} \/ state' = state
    BY <1>8, BlankState
  <2> QED BY <1>1, <1>8, <2>1, <2>5, <2>7, <2>8, OwnerStep DEF l
<1>9. ~claim /\ ~Collides => state.owner = None \/ (~state.materialized /\ ~HasWork(state.owner))
  BY DEF Collides
<1>10. CASE claim /\ claimable /\ state' = [state EXCEPT !.owner = l]
            /\ ToStage("append", <<>>) /\ UNCHANGED session
  <2>1. /\ state.materialized /\ state.cursor = Len(disk.events) /\ ~disk.torn
        /\ state.known /\ state.owner = None
    BY <1>10 DEF StateOK
  <2>2. Begins(disk.events, r.log)
    BY <1>2, <1>5, <1>10, <2>1, UntornLog
  <2> DEFINE s == [state EXCEPT !.owner = l]
  <2>3. s \in StateRecord /\ s.owner = l /\ s.known /\ s.materialized /\ s.cursor = state.cursor
    BY <1>2, <1>3, <2>1 DEF StateRecord
  <2> HIDE DEF s
  <2> HIDE DEF claimable
  <2> QED BY <1>7, <1>10, <2>1, <2>2, <2>3 DEF s
<1>11. CASE (Collides \/ (claim /\ ~claimable)) /\ InitSettles(l, "failed") /\ UNCHANGED state
  BY <1>8, <1>11
<1>12. CASE ~claim /\ ~Collides /\ InitSettles(l, "failed") /\ state' = NoState
  BY <1>8, <1>9, <1>12
<1>13. CASE /\ ~claim /\ ~Collides /\ Exists /\ IsPrefix(stored, seed) /\ disk.torn
            /\ ToStage("truncate", disk.tail) /\ state' = NoState /\ UNCHANGED session
  <2>1. PICK o \in OpRecord :
            /\ chain' \in Seq(OpRecord) /\ DOMAIN chain' = DOMAIN chain
            /\ \A i \in DOMAIN chain \ {1} : chain'[i] = chain[i]
            /\ chain'[1] = o /\ o.op = Head(chain).op /\ o.of = l
            /\ o.n = Head(chain).n /\ o.stage = "truncate" /\ o.batch = disk.tail
    BY <1>1, <1>2, <1>13, StagedHead DEF l
  <2>2. Types'
    BY <1>1, <1>13, <2>1, BlankState DEF Types
  <2>3. StateOK'
    BY <1>1, <1>13, BlankState DEF StateOK
  <2>4. Begins(disk.events \o disk.tail, r.log)
    BY <1>5, <1>6, <1>13 DEF Logical
  <2>5. OpOK(o)'
    BY <1>1, <1>3, <1>13, <2>1, <2>4, BlankState DEF OpOK, CreatedOK, r, Exists
  <2>6. state'.owner \in {None, Head(chain).of}
    BY <1>13, BlankState
  <2> QED BY <1>1, <1>9, <1>13, <2>1, <2>2, <2>3, <2>5, <2>6, OwnerStep DEF l
<1>14. CASE /\ ~claim /\ ~Collides /\ Exists /\ IsPrefix(stored, seed) /\ ~disk.torn
            /\ state' = Owned(Len(stored), l) /\ ToStage("append", <<>>) /\ UNCHANGED session
  <2>1. stored = disk.events /\ Len(disk.events) > 0
    BY <1>2, <1>14, UntornLog DEF Exists
  <2>2. Begins(disk.events, r.log)
    BY <1>2, <1>5, <1>14, <2>1
  <2>3. PICK s \in StateRecord : /\ s = Owned(Len(stored), l) /\ s.owner = l /\ s.known
                                 /\ s.materialized /\ s.cursor = Len(disk.events)
    BY <1>2, <1>3, <2>1, OwnedState
  <2> HIDE DEF stored
  <2> QED BY <1>7, <1>9, <1>14, <2>2, <2>3
<1>15. CASE /\ ~claim /\ ~Collides /\ ~Exists
            /\ state' = Owned(0, l) /\ ToStage("append", <<>>) /\ UNCHANGED session
  <2>1. disk.events = <<>> /\ ~disk.torn /\ Begins(disk.events, r.log)
    BY <1>3, <1>15, BeginsFacts DEF Exists, StateOK
  <2>2. PICK s \in StateRecord : /\ s = Owned(0, l) /\ s.owner = l /\ s.known
                                 /\ ~s.materialized /\ s.cursor = 0
    BY <1>3, OwnedState
  <2> QED BY <1>7, <1>9, <1>15, <2>1, <2>2
<1> QED
  <2> USE DEF l, r, seed
  <2> QED BY <1>10, <1>11, <1>12, <1>13, <1>14, <1>15 DEF OnCreated

-----------------------------------------------------------------------------
(* Writing a session's log *)

\* The session at the head owns the state; the stored log is not ahead of it.
LEMMA HeadWrites ==
  ASSUME IInv, NEW s \in {"append", "write"}, Writing(s)
  PROVE  /\ chain # <<>> /\ Head(chain).of \in Life /\ state.owner = Head(chain).of
         /\ Head(chain).op \in {"created", "suffix", "append"} /\ Head(chain).stage = s
         /\ Head(chain).n \in Nat /\ Head(chain).n <= Len(session[Head(chain).of].log)
         /\ session[Head(chain).of].tracked
         /\ session[Head(chain).of].written <= Head(chain).n
         /\ Head(chain).n <= session[Head(chain).of].admitted
         /\ IF Head(chain).op = "append"
            THEN /\ session[Head(chain).of].writing # "none" /\ session[Head(chain).of].init = "ready"
                 /\ session[Head(chain).of].written <= state.cursor
            ELSE /\ session[Head(chain).of].init = "pending"
                 /\ session[Head(chain).of].written = Head(chain).n
<1> USE DEF IInv
<1> DEFINE h == Head(chain)
           r == session[h.of]
<1>1. /\ chain # <<>> /\ h.op \in {"created", "suffix", "append"} /\ h.stage = s
      /\ h \in OpRecord /\ OpOK(h) /\ h.n \in Nat
  BY HeadFacts DEF Writing, OpRecord
<1>2. h.of \in Life /\ r \in SessionRecord /\ Controller(r) /\ WriterOK(h.of) /\ h.of # None
  BY <1>1, NoneIsNoSession DEF OpOK, CreatedOK, SuffixOK, AppendOK, Types, SessionOK
<1>3. CASE h.op = "append"
  <2>1. r.writing # "none" /\ r.written < h.n /\ h.n <= r.admitted
    BY <1>1, <1>3 DEF OpOK, AppendOK
  <2>2. r.init = "ready" /\ r.tracked
    BY <1>2, <2>1 DEF Controller
  <2>3. state.owner = h.of /\ r.written <= state.cursor
    BY <1>2, <2>1, <2>2 DEF WriterOK
  <2>4. h.n <= Len(r.log)
    BY <1>1, <1>2, <2>1, LenProperties DEF Controller, SessionRecord
  <2> QED BY <1>1, <1>2, <1>3, <2>1, <2>2, <2>3, <2>4 DEF SessionRecord
<1>4. CASE h.op # "append"
  <2>1. r.init = "pending" /\ h.n = r.written /\ state.owner = h.of
    BY <1>1, <1>4 DEF OpOK, CreatedOK, SuffixOK
  <2>2. h.n <= Len(r.log) /\ r.tracked /\ h.n <= r.admitted
    BY <1>2, <2>1, LenProperties DEF Controller, SessionRecord
  <2> QED BY <1>1, <1>2, <1>4, <2>1, <2>2 DEF SessionRecord
<1> QED BY <1>3, <1>4

\* It has no other operation in the chain.
LEMMA WriterIsAlone ==
  ASSUME IInv, NEW s \in {"append", "write"}, Writing(s),
         NEW j \in DOMAIN chain \ {1}, chain[j].op \in SessionOps
  PROVE  chain[j].of # Head(chain).of
<1>1. CASE Head(chain).op # "append"
  BY <1>1, HeadWrites, InitIsAlone
<1>2. CASE Head(chain).op = "append"
  <2>1. OpOK(chain[j]) /\ ~Alike(chain[j], Head(chain)) /\ chain # <<>>
    BY HeadWrites, HeadFacts
  <2>2. Head(chain).of \in Life /\ session[Head(chain).of].writing # "none"
        /\ session[Head(chain).of].init = "ready"
    BY <1>2, HeadWrites
  <2>3. Controller(session[Head(chain).of])
    BY <2>2 DEF IInv, SessionOK
  <2> QED BY <1>2, <2>1, <2>2, <2>3 DEF OpOK, CreatedOK, SuffixOK, AppendOK, Controller, SessionOps, Alike
<1> QED BY <1>1, <1>2

\* What the end of a write, good or bad, makes of the session.
LEMMA SettledWrite ==
  ASSUME IInv, NEW s \in {"append", "write"}, Writing(s), NEW l \in Life, l = Head(chain).of,
         \/ Stored(l) /\ Head(chain).n <= state'.cursor
         \/ NotStored(l),
         state' \in StateRecord, state'.owner = state.owner, state.cursor <= state'.cursor,
         UNCHANGED service,
         \A j \in DOMAIN chain \ {1} : chain[j].op = "append" =>
            \E i \in DOMAIN chain' : chain'[i] = chain[j]
  PROVE  /\ session' \in [Life -> SessionRecord] /\ retirement' \in Life \union {None}
         /\ \A m \in Life \ {l} : session'[m] = session[m]
         /\ session'[l].tracked
         /\ session'[l].log = session[l].log
         /\ session'[l].phase = session[l].phase
         /\ Controller(session'[l]) /\ WriterOK(l)'
         /\ retirement' # None => session'[retirement'].retire \in {"draining", "forgetting"}
         /\ FlushedOK' /\ InFlightOK' /\ ClosedOK'
<1> USE DEF IInv
<1> DEFINE h == Head(chain)
           r == session[l]
           q == session'[l]
<1>1. /\ chain # <<>> /\ l \in Life /\ state.owner = l /\ h.n \in Nat /\ r.tracked
      /\ r.written <= h.n /\ h.n <= r.admitted
      /\ IF h.op = "append"
         THEN r.writing # "none" /\ r.init = "ready" /\ r.written <= state.cursor
         ELSE r.init = "pending" /\ r.written = h.n
      /\ r \in SessionRecord /\ Controller(r) /\ state.cursor \in Nat /\ state'.cursor \in Nat
  BY HeadWrites DEF Types, SessionOK, StateRecord
<1>2. service # "closed" /\ l = chain[1].of
  BY <1>1, HeadFacts
<1>3. r.retire # "forgetting" /\ (h.op # "append" => r.writing = "none")
  BY <1>1 DEF Controller
\* The four ways a write settles.
<1>4. /\ session' = [session EXCEPT ![l] = q]
      /\ \/ /\ h.op = "append" /\ q = [r EXCEPT !.written = h.n, !.writing = "none"]
            /\ UNCHANGED retirement /\ h.n <= state'.cursor
         \/ /\ h.op # "append" /\ UNCHANGED retirement
            /\ \/ q = [r EXCEPT !.init = "ready"] /\ h.n <= state'.cursor
               \/ q = [r EXCEPT !.init = "failed"]
         \/ /\ h.op = "append" /\ q = Refused(l, [r EXCEPT !.writing = "none", !.paused = TRUE])
            /\ retirement' = RetirementAfter(l, r)
         \/ /\ h.op = "append" /\ q = [r EXCEPT !.writing = "none", !.paused = TRUE]
            /\ UNCHANGED retirement
  <2>1. CASE Stored(l) /\ h.n <= state'.cursor
    BY <1>1, <2>1 DEF Stored, Types
  <2>2. CASE NotStored(l)
    BY <1>1, <2>2 DEF NotStored, Types
  <2> QED BY <2>1, <2>2
<1>5. \A m \in Life \ {l} : session'[m] = session[m]
  BY <1>4 DEF Types
<1>6. /\ q \in SessionRecord /\ q.tracked /\ q.log = r.log /\ q.phase = r.phase
      /\ q.admitted = r.admitted /\ q.writing = "none"
      /\ q.init \in (IF h.op = "append" THEN {"ready"} ELSE {"ready", "failed"})
      /\ q.written \in {r.written, h.n}
      /\ (q.init = "ready" /\ q.written = r.written /\ h.op # "append") \/ (q.written # r.written)
           => h.n <= state'.cursor
      /\ \/ q.waiters = r.waiters /\ q.retire = r.retire /\ q.failed = r.failed
            /\ (q.paused = r.paused \/ q.paused)
            /\ retirement' = retirement
         \/ /\ h.op = "append" /\ q.waiters = {} /\ q.paused /\ ("dispose" \in r.waiters \/ r.failed => q.failed)
            /\ q.retire = (IF "retire" \in r.waiters THEN "failed" ELSE r.retire)
            /\ retirement' = RetirementAfter(l, r)
  <2>1. CASE /\ h.op = "append" /\ q = [r EXCEPT !.written = h.n, !.writing = "none"]
             /\ UNCHANGED retirement /\ h.n <= state'.cursor
    <3> HIDE DEF q, r, h
    <3> QED BY <1>1, <2>1 DEF SessionRecord
  <2>2. CASE /\ h.op # "append" /\ UNCHANGED retirement
             /\ q = [r EXCEPT !.init = "ready"] /\ h.n <= state'.cursor
    <3> HIDE DEF q, r, h
    <3> QED BY <1>1, <1>3, <2>2 DEF SessionRecord
  <2>3. CASE h.op # "append" /\ UNCHANGED retirement /\ q = [r EXCEPT !.init = "failed"]
    <3> HIDE DEF q, r, h
    <3> QED BY <1>1, <1>3, <2>3 DEF SessionRecord
  <2>4. CASE /\ h.op = "append" /\ q = Refused(l, [r EXCEPT !.writing = "none", !.paused = TRUE])
             /\ retirement' = RetirementAfter(l, r)
    <3> DEFINE k == [r EXCEPT !.writing = "none", !.paused = TRUE]
    <3>1. /\ k \in SessionRecord /\ k.tracked /\ k.log = r.log /\ k.phase = r.phase
          /\ k.admitted = r.admitted /\ k.writing = "none" /\ k.init = r.init /\ k.written = r.written
          /\ k.waiters = r.waiters /\ k.retire = r.retire /\ k.failed = r.failed /\ k.paused
      <4> HIDE DEF r
      <4> QED BY <1>1 DEF SessionRecord
    <3>2. PICK f \in BOOLEAN : f = (k.failed \/ "dispose" \in k.waiters)
      OBVIOUS
    <3>3. q = [k EXCEPT !.waiters = {}, !.failed = f,
                        !.retire = IF "retire" \in k.waiters THEN "failed" ELSE k.retire]
      BY <2>4, <3>2 DEF Refused
    <3>4. "dispose" \in r.waiters \/ r.failed => f
      BY <3>1, <3>2
    <3> HIDE DEF q, r, h, k
    <3>5. /\ q \in SessionRecord /\ q.tracked = k.tracked /\ q.log = k.log /\ q.phase = k.phase
          /\ q.admitted = k.admitted /\ q.writing = k.writing /\ q.init = k.init
          /\ q.written = k.written /\ q.waiters = {} /\ q.paused = k.paused /\ q.failed = f
          /\ q.retire = (IF "retire" \in k.waiters THEN "failed" ELSE k.retire)
      BY <3>1, <3>3 DEF SessionRecord
    <3> QED BY <1>1, <2>4, <3>1, <3>4, <3>5
  <2>5. CASE /\ h.op = "append" /\ q = [r EXCEPT !.writing = "none", !.paused = TRUE]
             /\ UNCHANGED retirement
    <3> HIDE DEF q, r, h
    <3> QED BY <1>1, <2>5 DEF SessionRecord
  <2> QED BY <1>4, <2>1, <2>2, <2>3, <2>4, <2>5
<1> HIDE DEF q, r, h
<1>7. session' \in [Life -> SessionRecord]
  BY <1>4, <1>6 DEF Types
<1>8. retirement' \in Life \union {None}
  BY <1>6 DEF Types, RetirementAfter
<1>9. Controller(q)
  BY <1>1, <1>3, <1>6 DEF Controller, SessionRecord
<1>10. WriterOK(l)'
  <2>1. q.init = "ready" => q.written <= state'.cursor
    BY <1>1, <1>6 DEF SessionRecord
  <2> QED BY <1>1, <2>1 DEF WriterOK, q
<1>11. retirement' # None => session'[retirement'].retire \in {"draining", "forgetting"}
  <2>1. ASSUME retirement' # None PROVE session'[retirement'].retire \in {"draining", "forgetting"}
    <3>1. retirement' = retirement /\ retirement \in Life /\ session[retirement].retire \in {"draining", "forgetting"}
      BY <1>6, <2>1 DEF RetirementAfter, RegistryOK, Types
    <3>2. retirement = l => q.retire = r.retire
      BY <1>6, <2>1, NoneIsNoSession DEF RetirementAfter
    <3> QED BY <1>5, <3>1, <3>2 DEF q, r
  <2> QED BY <2>1
<1>12. FlushedOK'
  <2>1. ASSUME service # "running", "dispose" \notin q.waiters PROVE Flushed(q)
    <3>1. r.init = "pending" => "dispose" \in r.waiters
      BY <1>1, <2>1 DEF FlushedOK, Flushed, r
    <3>2. "dispose" \notin r.waiters => Flushed(r)
      BY <1>1, <2>1 DEF FlushedOK, r
    <3>3. h.op = "append" /\ ("dispose" \notin r.waiters => r.failed /\ (r.paused \/ r.waiters # {}))
      BY <1>1, <1>6, <2>1, <3>1, <3>2 DEF Flushed
    <3>4. "dispose" \notin r.waiters => r.waiters \intersect {"flush", "retire"} = {}
      BY <3>2 DEF Flushed
    <3> QED BY <1>6, <2>1, <3>3, <3>4 DEF Flushed
  <2> QED BY <1>5, <2>1 DEF FlushedOK, q
<1>13. InFlightOK'
  <2> SUFFICES ASSUME NEW m \in Life, session'[m].writing # "none"
               PROVE  \E i \in DOMAIN chain' : chain'[i].op = "append" /\ chain'[i].of = m
    BY DEF InFlightOK
  <2>1. m # l /\ session'[m] = session[m]
    BY <1>5, <1>6 DEF q
  <2>2. PICK j \in DOMAIN chain : chain[j].op = "append" /\ chain[j].of = m
    BY <2>1 DEF InFlightOK
  <2>3. j # 1
    BY <1>2, <2>1, <2>2
  <2> QED BY <2>2, <2>3
<1>14. ClosedOK'
  BY <1>2 DEF ClosedOK
<1> QED BY <1>5, <1>6, <1>7, <1>8, <1>9, <1>10, <1>11, <1>12, <1>13, <1>14 DEF q, r, h

\* appendCore() writes what is past the cursor.
LEMMA BatchFacts ==
  ASSUME IInv, Writing("append"), NEW l \in Life, l = Head(chain).of
  PROVE  /\ From <= state.cursor /\ Batch \in Seq(Event)
         /\ Batch = <<>> => Head(chain).n <= state.cursor
         /\ Batch # <<>> =>
              /\ state.cursor < Head(chain).n /\ Head(chain).n = state.cursor + Len(Batch)
              /\ \A i \in 1..Len(Batch) : Batch[i] = session[l].log[state.cursor + i]
<1> USE DEF IInv
<1> DEFINE log == session[l].log
           n == Head(chain).n
           c == state.cursor
           b == SubSeq(log, c + 1, n)
<1>1. /\ n \in Nat /\ n <= Len(log) /\ c \in Nat /\ log \in Seq(Event) /\ Len(log) \in Nat
      /\ session[l].written \in Nat
      /\ Head(chain).op = "append" => session[l].written <= c
  BY HeadWrites, LenProperties DEF Types, StateRecord, SessionRecord
<1>2. From <= c /\ Batch = b
  <2>1. From \in Nat /\ From <= c
    BY <1>1 DEF From
  <2>2. c = IF From > c THEN From ELSE c
    BY <1>1, <2>1
  <2>3. Batch = SubSeq(session[l].log, (IF From > c THEN From ELSE c) + 1, n)
    BY DEF Batch
  <2> QED BY <2>1, <2>2, <2>3
<1> HIDE DEF log, n, c
<1>3. CASE n <= c
  <2>1. b = <<>> /\ <<>> \in Seq(Event)
    BY <1>1, <1>3
  <2> HIDE DEF b
  <2> QED BY <1>2, <1>3, <2>1 DEF n, c
<1>4. CASE c < n
  <2>1. b \in Seq(Event) /\ Len(b) = n - c /\ \A i \in 1..(n - c) : b[i] = log[c + i]
    <3>1. c + 1 \in 1..Len(log) /\ n \in 1..Len(log)
      BY <1>1, <1>4
    <3>2. \A i \in 1..(n - c) : b[i] = log[c + 1 + i - 1] /\ c + 1 + i - 1 = c + i
      BY <1>1, <1>4, <3>1
    <3>3. b \in Seq(Event) /\ Len(b) = n - (c + 1) + 1
      BY <1>1, <1>4, <3>1
    <3> QED BY <1>1, <1>4, <3>2, <3>3
  <2> HIDE DEF b
  <2>2. b # <<>> /\ n = c + Len(b) /\ Len(b) = n - c
    BY <1>1, <1>4, <2>1
  <2> QED BY <1>2, <1>4, <2>1, <2>2 DEF n, c, log
<1> QED BY <1>1, <1>3, <1>4

\* A write that has settled without changing the stored log.
LEMMA SettledStep ==
  ASSUME IInv, NEW s \in {"append", "write"}, Writing(s), NEW l \in Life, l = Head(chain).of,
         \/ Stored(l) /\ Head(chain).n <= state.cursor
         \/ NotStored(l),
         chain' = Tail(chain), UNCHANGED <<disk, state, entry, service, call, acked>>, troubles' \in Nat
  PROVE  IInv'
<1> USE DEF IInv
<1>1. /\ chain # <<>> /\ state.owner = l /\ session[l].tracked
  BY HeadWrites
<1>2. Tail(chain) \in Seq(OpRecord) /\ IsWithout(Tail(chain), chain, 1)
  BY <1>1, HeadFacts
<1>3. state' \in StateRecord /\ state'.owner = state.owner /\ state.cursor <= state'.cursor
      /\ state'.cursor = state.cursor
  BY DEF Types, StateRecord
<1>4. \A j \in DOMAIN chain \ {1} : \E i \in DOMAIN chain' : chain'[i] = chain[j]
  BY <1>1, TailFacts
<1>5. /\ session' \in [Life -> SessionRecord] /\ retirement' \in Life \union {None}
      /\ \A m \in Life \ {l} : session'[m] = session[m]
      /\ session'[l].tracked
      /\ session'[l].log = session[l].log
      /\ session'[l].phase = session[l].phase
      /\ Controller(session'[l]) /\ WriterOK(l)'
      /\ retirement' # None => session'[retirement'].retire \in {"draining", "forgetting"}
      /\ FlushedOK' /\ InFlightOK' /\ ClosedOK'
  BY <1>3, <1>4, SettledWrite
<1>6. Types'
  BY <1>2, <1>3, <1>5 DEF Types
<1>7. Begins(session[l].log, session'[l].log)
  BY <1>5, BeginsFacts DEF Types, SessionRecord
<1>8. \A i \in DOMAIN chain' : \E j \in DOMAIN chain \ {1} : chain'[i] = chain[j]
  BY <1>1, TailFacts
<1>9. OrderOK'
  <2>1. \A i \in DOMAIN chain' : chain'[i].op = "created" /\ state'.owner \notin {None, chain'[i].of} =>
            session'[state'.owner].phase # "live"
    BY <1>1, <1>5, <1>8 DEF OrderOK
  <2>2. \A m \in Life : session'[m].phase = "live" => session[m].phase = "live"
    BY <1>5
  <2> QED BY <1>2, <1>6, <2>1, <2>2, OrderRemoved
<1>10. \A i \in DOMAIN chain' : \E j \in DOMAIN chain : chain'[i] = chain[j]
          /\ ~(chain[j].op \in SessionOps /\ chain[j].of = l)
  <2>1. \A j \in DOMAIN chain \ {1} : ~(chain[j].op \in SessionOps /\ chain[j].of = l)
    BY WriterIsAlone
  <2> QED BY <1>8, <2>1
<1>11. StateOK' /\ SessionOK' /\ RegistryOK' /\ ChainOK' /\ EntryOK' /\ CallOK'
  BY <1>5, <1>6, <1>7, <1>9, <1>10, SessionStep
<1> QED BY <1>5, <1>6, <1>9, <1>11

\* appendCore() starts the write, or settles it when there is nothing to write.
LEMMA AppendCorePreserves ==
  ASSUME IInv, AppendCore
  PROVE  IInv'
<1> USE DEF IInv
<1>1. Writing("append") /\ UNCHANGED <<disk, state, entry, service, call, acked, troubles>>
  BY DEF AppendCore
<1>2. PICK l \in Life : l = Head(chain).of
  BY <1>1, HeadWrites
<1>3. /\ From <= state.cursor /\ Batch \in Seq(Event)
      /\ Batch = <<>> => Head(chain).n <= state.cursor
      /\ Batch # <<>> =>
           /\ state.cursor < Head(chain).n /\ Head(chain).n = state.cursor + Len(Batch)
           /\ \A i \in 1..Len(Batch) : Batch[i] = session[l].log[state.cursor + i]
  BY <1>1, <1>2, BatchFacts
<1>4. troubles' \in Nat
  BY <1>1 DEF Types
<1>5. CASE Batch = <<>> /\ Stored(l) /\ chain' = Tail(chain)
  BY <1>1, <1>2, <1>3, <1>4, <1>5, SettledStep
<1>6. CASE NotStored(l) /\ chain' = Tail(chain)
  BY <1>1, <1>2, <1>4, <1>6, SettledStep
<1>7. CASE Batch # <<>> /\ ToStage("write", Batch) /\ UNCHANGED <<session, retirement>>
  <2>1. chain # <<>> /\ Head(chain).op \in {"created", "suffix", "append"} /\ Head(chain) = chain[1]
        /\ 1 \in DOMAIN chain /\ OpOK(Head(chain)) /\ state.owner = l /\ Head(chain).stage = "append"
    BY <1>1, <1>2, HeadWrites, HeadFacts
  <2>2. PICK o \in OpRecord :
            /\ chain' \in Seq(OpRecord) /\ DOMAIN chain' = DOMAIN chain
            /\ \A i \in DOMAIN chain \ {1} : chain'[i] = chain[i]
            /\ chain'[1] = o /\ o.op = Head(chain).op /\ o.of = l
            /\ o.n = Head(chain).n /\ o.stage = "write" /\ o.batch = Batch
    BY <1>2, <1>3, <1>7, <2>1, StagedHead
  <2>3. Types'
    BY <1>1, <1>7, <2>2 DEF Types
  <2>4. BatchOK(o)'
    BY <1>1, <1>3, <1>7, <2>2 DEF BatchOK
  <2>5. OpOK(o)'
    <3>1. o.op = "created" => CreatedOK(o)'
      BY <1>1, <1>2, <1>7, <2>1, <2>2 DEF OpOK, CreatedOK
    <3>2. o.op = "suffix" => SuffixOK(o)'
      BY <1>1, <1>2, <1>7, <2>1, <2>2 DEF OpOK, SuffixOK
    <3>3. o.op = "append" => AppendOK(o)'
      BY <1>1, <1>2, <1>7, <2>1, <2>2 DEF OpOK, AppendOK
    <3> QED BY <2>1, <2>2, <2>4, <3>1, <3>2, <3>3 DEF OpOK
  <2>6. OrderOK'
    BY <1>1, <1>2, <1>7, <2>1, <2>2, <2>3, OrderStaged DEF OrderOK
  <2>7. Begins(session[l].log, session[l].log) /\ Controller(session[l]) /\ WriterOK(l)
    BY BeginsFacts DEF Types, SessionRecord, SessionOK
  <2>8. WriterOK(l)'
    BY <1>1, <1>7, <2>7 DEF WriterOK
  <2>9. Steady(session[l], session[l])
    BY <2>7 DEF Steady, Types, SessionRecord
  <2>10. StateOK' /\ SessionOK' /\ RegistryOK' /\ ChainOK' /\ EntryOK' /\ CallOK'
    <3>1. \A i \in DOMAIN chain' :
            \/ \E j \in DOMAIN chain : chain'[i] = chain[j]
            \/ /\ OpOK(chain[i])'
               /\ chain'[i].op = "created" => \E j \in DOMAIN chain : chain[j].op = "created"
      BY <2>1, <2>2, <2>5
    <3>2. retirement' # None => session'[retirement'].retire \in {"draining", "forgetting"}
      BY <1>7 DEF RegistryOK
    <3> QED BY <1>1, <1>7, <2>3, <2>6, <2>7, <2>8, <2>9, <3>1, <3>2, SessionStep
  <2>11. InFlightOK'
    BY <1>7, <2>1, <2>2, <1>2 DEF InFlightOK
  <2>12. FlushedOK' /\ ClosedOK'
    BY <1>1, <1>7, <2>1, HeadFacts DEF FlushedOK, ClosedOK
  <2> QED BY <1>1, <2>3, <2>6, <2>10, <2>11, <2>12
<1> QED BY <1>2, <1>3, <1>5, <1>6, <1>7 DEF AppendCore

\* No call holds the entry once it is removed.
LEMMA UnheldFacts ==
  ASSUME Types
  PROVE  /\ Unheld \in [Call -> CallRecord]
         /\ \A c \in Call : /\ ~Unheld[c].holds /\ Unheld[c].pc = call[c].pc
                            /\ Unheld[c].kind = call[c].kind /\ Unheld[c].awaits = call[c].awaits
                            /\ Unheld[c].rev = call[c].rev
<1> SUFFICES ASSUME NEW c \in Call
             PROVE  /\ Unheld[c] \in CallRecord
                    /\ ~Unheld[c].holds /\ Unheld[c].pc = call[c].pc
                    /\ Unheld[c].kind = call[c].kind /\ Unheld[c].awaits = call[c].awaits
                    /\ Unheld[c].rev = call[c].rev
  BY DEF Unheld
<1>1. Unheld[c] = [call[c] EXCEPT !.holds = FALSE] /\ call[c] \in CallRecord
  BY DEF Unheld, Types
<1> QED BY <1>1 DEF CallRecord

\* The chain after its head has changed the log: a queued load is dropped.
LEMMA NoLoadFacts ==
  ASSUME IInv, chain # <<>>
  PROVE  /\ NoLoad(Tail(chain)) \in Seq(OpRecord)
         /\ \A i \in DOMAIN NoLoad(Tail(chain)) : NoLoad(Tail(chain))[i].op # "load"
         /\ \A j \in DOMAIN chain \ {1} : chain[j].op # "load" =>
              \E i \in DOMAIN NoLoad(Tail(chain)) : NoLoad(Tail(chain))[i] = chain[j]
         /\ \E f : /\ \A i \in DOMAIN NoLoad(Tail(chain)) :
                        f[i] \in DOMAIN chain \ {1} /\ NoLoad(Tail(chain))[i] = chain[f[i]]
                   /\ \A i, j \in DOMAIN NoLoad(Tail(chain)) : i < j => f[i] < f[j]
<1> DEFINE t == Tail(chain)
           u == NoLoad(t)
<1>1. chain \in Seq(OpRecord) /\ t \in Seq(OpRecord) /\ IsWithout(t, chain, 1)
  BY HeadFacts DEF IInv, Types
<1> HIDE DEF t
<1>2. /\ \A i \in DOMAIN t : Kept(i, 1) \in DOMAIN chain \ {1} /\ t[i] = chain[Kept(i, 1)]
      /\ \A i, j \in DOMAIN t : (i < j <=> Kept(i, 1) < Kept(j, 1))
                                /\ (i = j <=> Kept(i, 1) = Kept(j, 1))
      /\ \A j \in DOMAIN chain \ {1} : \E i \in DOMAIN t : t[i] = chain[j]
  BY <1>1, WithoutFacts
<1>3. CASE \A i \in DOMAIN t : t[i].op # "load"
  <2>1. u = t
    BY <1>3 DEF NoLoad
  <2> DEFINE f == [i \in DOMAIN t |-> Kept(i, 1)]
  <2> HIDE DEF u
  <2>2. \A i \in DOMAIN u : f[i] \in DOMAIN chain \ {1} /\ u[i] = chain[f[i]]
    BY <1>2, <2>1
  <2>3. \A i, j \in DOMAIN u : i < j => f[i] < f[j]
    BY <1>2, <2>1
  <2> HIDE DEF f
  <2>4. u \in Seq(OpRecord) /\ \A i \in DOMAIN u : u[i].op # "load"
    BY <1>1, <1>3, <2>1
  <2>5. \A j \in DOMAIN chain \ {1} : chain[j].op # "load" => \E i \in DOMAIN u : u[i] = chain[j]
    BY <1>2, <2>1
  <2> QED BY <2>2, <2>3, <2>4, <2>5 DEF u, t
<1>4. CASE \E i \in DOMAIN t : t[i].op = "load"
  <2> DEFINE k == CHOOSE i \in DOMAIN t : t[i].op = "load"
  <2>1. k \in DOMAIN t /\ t[k].op = "load" /\ u = RemoveAt(t, k)
    BY <1>4 DEF NoLoad
  <2> HIDE DEF k, u
  <2>2. k \in 1..Len(t)
    BY <1>1, <2>1, LenProperties
  <2>3. u \in Seq(OpRecord) /\ IsWithout(u, t, k)
    BY <1>1, <2>1, <2>2, RemoveAtIsWithout
  <2>4. /\ \A i \in DOMAIN u : Kept(i, k) \in DOMAIN t \ {k} /\ u[i] = t[Kept(i, k)]
        /\ \A i, j \in DOMAIN u : (i < j <=> Kept(i, k) < Kept(j, k))
        /\ \A j \in DOMAIN t \ {k} : \E i \in DOMAIN u : u[i] = t[j]
    BY <1>1, <2>3, WithoutFacts
  <2>5. \A j \in DOMAIN t \ {k} : t[j].op # "load"
    <3>1. \A j \in DOMAIN chain : chain[j].op = "load" => chain[j].of = None
      BY DEF IInv, ChainOK, OpOK
    <3>2. \A i, j \in DOMAIN chain : chain[i].op = "load" /\ chain[j].op = "load" => i = j
      BY <3>1 DEF IInv, OrderOK, Alike
    <3> QED BY <1>2, <2>1, <3>2
  <2> DEFINE f == [i \in DOMAIN u |-> Kept(Kept(i, k), 1)]
  <2>6. \A i \in DOMAIN u : f[i] \in DOMAIN chain \ {1} /\ u[i] = chain[f[i]]
    BY <1>2, <2>4
  <2>7. \A i, j \in DOMAIN u : i < j => f[i] < f[j]
    BY <1>2, <2>4
  <2> HIDE DEF f
  <2>8. \A i \in DOMAIN u : u[i].op # "load"
    BY <2>4, <2>5
  <2>9. \A j \in DOMAIN chain \ {1} : chain[j].op # "load" => \E i \in DOMAIN u : u[i] = chain[j]
    BY <1>2, <2>1, <2>4
  <2> QED BY <2>3, <2>6, <2>7, <2>8, <2>9 DEF u, t
<1> QED BY <1>3, <1>4

\* A write that has changed the stored log.
LEMMA GrowingStep ==
  ASSUME IInv, Types', StateOK', Writing("write"), NEW l \in Life, l = Head(chain).of,
         state'.owner = l, Len(disk.events) < Len(disk'.events), UNCHANGED service,
         \A m \in Life \ {l} : session'[m] = session[m],
         session'[l].tracked, session'[l].phase = session[l].phase,
         Controller(session'[l]), WriterOK(l)',
         retirement' # None => session'[retirement'].retire \in {"draining", "forgetting"},
         NEW f,
         \A i \in DOMAIN chain' : f[i] \in DOMAIN chain \ {1} /\ chain'[i] = chain[f[i]],
         \A i, j \in DOMAIN chain' : i < j => f[i] < f[j],
         \/ /\ entry' = NoEntry /\ call' = Unheld
            /\ \A i \in DOMAIN chain' : chain'[i].op # "load"
         \/ UNCHANGED <<entry, call>> /\ entry.phase \in {"none", "loading"}
  PROVE  SessionOK' /\ RegistryOK' /\ OrderOK' /\ ChainOK' /\ EntryOK' /\ CallOK'
<1> USE DEF IInv
<1>1. chain # <<>> /\ state.owner = l /\ session[l].tracked /\ l # None
  BY HeadWrites, NoneIsNoSession
<1>2. /\ disk.events \in Seq(Event) /\ disk'.events \in Seq(Event)
      /\ Len(disk.events) \in Nat /\ Len(disk'.events) \in Nat
  BY LenProperties DEF Types, Revision
<1>3. \A m \in Life : session'[m].phase = session[m].phase /\ session'[m].tracked = session[m].tracked
  <2>1. session[l].tracked = session'[l].tracked
    BY <1>1 DEF Types, SessionRecord
  <2> QED BY <2>1
<1>4. \A c \in Call : /\ call'[c].pc = call[c].pc /\ call'[c].rev = call[c].rev
                      /\ call'[c].holds => call[c].holds /\ UNCHANGED <<entry, call>>
  BY UnheldFacts
<1>5. SessionOK'
  <2> SUFFICES ASSUME NEW m \in Life PROVE Controller(session[m])' /\ WriterOK(m)'
    BY DEF SessionOK
  <2>1. CASE m = l
    BY <2>1
  <2>2. CASE m # l
    <3>1. session'[m] = session[m] /\ Controller(session[m]) /\ WriterOK(m)
      BY <2>2 DEF SessionOK
    <3> QED BY <1>1, <2>2, <3>1 DEF WriterOK
  <2> QED BY <2>1, <2>2
<1>6. RegistryOK'
  BY <1>3 DEF RegistryOK
<1>7. OrderOK'
  <2>1. \A i \in DOMAIN chain' : chain'[i].op = "created" /\ state'.owner \notin {None, chain'[i].of} =>
            session'[state'.owner].phase # "live"
    BY <1>1, <1>3 DEF OrderOK
  <2> QED BY <1>3, <2>1, OrderThinned
<1>8. entry'.phase \in {"none", "loading"} /\ entry'.rev = NoEntry.rev
  <2>1. NoEntry.phase = "none"
    BY DEF NoEntry
  <2> QED BY <2>1 DEF EntryOK
<1>9. EntryOK'
  <2>1. entry'.phase = "none" \/ entry'.phase = entry.phase
    BY DEF NoEntry
  <2>2. entry'.phase # "none" /\ service' = "running" => \A m \in Life : session'[m].phase # "live"
    BY <1>3, <2>1 DEF EntryOK
  <2> QED BY <1>8, <2>2 DEF EntryOK
<1>10. CallOK'
  <2>1. \A c \in Call : c \in Life
    BY DEF Life
  <2>2. \A c \in Call : call'[c].holds => call'[c].pc \notin {"committing", "reserved"} /\ entry'.phase # "none"
    BY <1>4, <1>8 DEF CallOK
  <2> QED BY <1>3, <1>4, <2>1, <2>2 DEF CallOK
<1>11. ASSUME NEW i \in DOMAIN chain' PROVE Keeps(chain[f[i]])
  <2> DEFINE j == f[i]
  <2> HIDE DEF j
  <2>1. j \in DOMAIN chain \ {1} /\ chain'[i] = chain[j]
    BY <1>11 DEF j
  <2>2. chain[j] \in OpRecord /\ OpOK(chain[j]) /\ chain[j].stage = Waiting(chain[j].op)
    BY <1>1, <2>1, HeadFacts
  <2>3. ASSUME chain[j].op \in SessionOps
        PROVE  chain[j].of # l /\ Steady(session[chain[j].of], session'[chain[j].of])
    <3>1. chain[j].of \in Life /\ chain[j].of # l
      BY <2>1, <2>3, OpsAreTracked, WriterIsAlone
    <3>2. session'[chain[j].of] = session[chain[j].of] /\ session[chain[j].of] \in SessionRecord
      BY <3>1 DEF Types
    <3>3. Begins(session[chain[j].of].log, session[chain[j].of].log)
      BY <3>2, BeginsFacts DEF SessionRecord
    <3> QED BY <3>1, <3>2, <3>3 DEF Steady, SessionRecord
  <2>4. chain[j].op # "suffix"
    BY <1>1, <2>2, <2>3 DEF OpOK, SuffixOK, SessionOps
  <2>5. chain[j].op = "created" => state'.owner # chain[j].of
    BY <2>3 DEF SessionOps
  <2>6. chain[j].op = "load" => entry'.phase = "loading"
    BY <1>11, <2>1, <2>2 DEF OpOK
  <2>7. chain[j].op = "check" => call'[chain[j].of].pc = "checking"
    BY <1>4, <2>2 DEF OpOK
  <2>8. ASSUME chain[j].op = "commit"
        PROVE  /\ call'[chain[j].of].pc = "committing" /\ call'[chain[j].of].rev = call[chain[j].of].rev
               /\ ~call'[chain[j].of].holds
               /\ chain[j].stage = "queued" /\ Len(call[chain[j].of].rev.events) < Len(disk'.events)
    <3>1. chain[j].of \in Call /\ CommitOK(chain[j]) /\ chain[j].stage = "queued"
      BY <2>2, <2>8 DEF OpOK, CommitOK, Waiting
    <3>2. ~call'[chain[j].of].holds
      BY <1>4, <1>8, <3>1 DEF CallOK, CommitOK
    <3>3. call[chain[j].of].rev.events \in Seq(Event)
      BY <3>1 DEF Types, CallRecord, Revision
    <3>4. Len(call[chain[j].of].rev.events) \in Nat
      BY <3>3, LenProperties
    <3>5. Len(call[chain[j].of].rev.events) <= Len(disk.events)
      <4>1. CASE call[chain[j].of].holds
        BY <3>1, <4>1 DEF CommitOK, CallOK, EntryOK
      <4>2. CASE ~call[chain[j].of].holds
        BY <1>2, <3>1, <3>4, <4>2 DEF CommitOK
      <4> QED BY <4>1, <4>2
    <3>6. call[chain[j].of].pc = "committing"
      BY <3>1 DEF CommitOK
    <3>7. call'[chain[j].of].pc = "committing" /\ call'[chain[j].of].rev = call[chain[j].of].rev
      BY <1>4, <3>1, <3>6
    <3>8. Len(call[chain[j].of].rev.events) < Len(disk'.events)
      <4>1. \A a, b, c \in Nat : a <= b /\ b < c => a < c
        OBVIOUS
      <4> QED BY <1>2, <3>4, <3>5, <4>1, Zenon
    <3> QED BY <3>1, <3>2, <3>7, <3>8
  <2>9. chain[j].stage \notin {"write", "truncate", "restore"}
        /\ ~(chain[j].op = "created" /\ chain[j].stage = "append")
    BY <2>2 DEF Waiting
  <2>10. Keeps(chain[j])
    BY <2>3, <2>4, <2>5, <2>6, <2>7, <2>8, <2>9 DEF Keeps, SessionOps
  <2> QED BY <2>10 DEF j
<1>12. ChainOK'
  BY <1>11, ChainFrame
<1> QED BY <1>5, <1>6, <1>7, <1>9, <1>10, <1>12

\* The batch continues the stored log when the backend takes it.
LEMMA BatchContinues ==
  ASSUME IInv, Writing("write"), Accepts, NEW l \in Life, l = Head(chain).of
  PROVE  /\ disk.events \in Seq(Event) /\ Head(chain).batch \in Seq(Event) /\ ~disk.torn
         /\ disk.events \o Head(chain).batch \in Seq(Event)
         /\ Begins(disk.events \o Head(chain).batch, session[l].log)
         /\ Len(disk.events \o Head(chain).batch) = Len(disk.events) + Len(Head(chain).batch)
         /\ Len(disk.events) \in Nat /\ Len(Head(chain).batch) \in Nat /\ Len(Head(chain).batch) > 0
         /\ state.cursor = Len(disk.events) /\ Head(chain).n = state.cursor + Len(Head(chain).batch)
<1> USE DEF IInv
<1> DEFINE b == Head(chain).batch
           e == disk.events
           log == session[l].log
<1>1. /\ chain # <<>> /\ state.owner = l /\ l # None /\ Head(chain).stage = "write"
      /\ Head(chain).n \in Nat /\ Head(chain).n <= Len(log)
  BY HeadWrites, NoneIsNoSession
<1>2. e \in Seq(Event) /\ b \in Seq(Event) /\ log \in Seq(Event) /\ BatchOK(Head(chain))
  BY <1>1, HeadFacts DEF Types, Revision, SessionRecord, OpRecord, OpOK
<1>3. Len(e) \in Nat /\ Len(b) \in Nat /\ Len(log) \in Nat
  BY <1>2, LenProperties
<1>4. ~disk.torn /\ Begins(e, log) /\ state.cursor = Len(e)
  <2>1. ~disk.torn /\ Begins(e, log) /\ state.cursor = IF state.materialized THEN Len(e) ELSE 0
    BY <1>1 DEF StateOK
  <2>2. ~state.materialized => Len(e) = 0
    BY DEF Accepts, Exists
  <2> QED BY <2>1, <2>2
<1>5. /\ Len(b) > 0 /\ Head(chain).n = Len(e) + Len(b)
      /\ \A i \in 1..Len(b) : b[i] = log[Len(e) + i]
  <2>1. /\ state.cursor < Head(chain).n /\ Head(chain).n = state.cursor + Len(b)
        /\ \A i \in 1..Len(b) : b[i] = log[state.cursor + i]
    BY <1>2 DEF BatchOK
  <2> HIDE DEF b, e, log
  <2> QED BY <1>1, <1>3, <1>4, <2>1
<1> HIDE DEF b, e, log
<1>6. /\ e \o b \in Seq(Event) /\ Len(e \o b) = Len(e) + Len(b)
      /\ \A i \in 1..(Len(e) + Len(b)) : (e \o b)[i] = IF i <= Len(e) THEN e[i] ELSE b[i - Len(e)]
  BY <1>2, <1>3, ConcatProperties
<1>7. ASSUME NEW i \in 1..(Len(e) + Len(b)) PROVE (e \o b)[i] = log[i]
  <2>1. CASE i <= Len(e)
    BY <1>3, <1>4, <1>6, <2>1 DEF Begins
  <2>2. CASE ~(i <= Len(e))
    <3>1. i - Len(e) \in 1..Len(b) /\ Len(e) + (i - Len(e)) = i
      BY <1>3, <2>2
    <3>2. b[i - Len(e)] = log[i]
      BY <1>5, <3>1
    <3> QED BY <1>6, <2>2, <3>2
  <2> QED BY <2>1, <2>2
<1>8. Begins(e \o b, log)
  BY <1>1, <1>3, <1>5, <1>6, <1>7 DEF Begins, log
<1> QED BY <1>2, <1>3, <1>4, <1>5, <1>6, <1>8 DEF b, e, log

\* The backend has stored the batch: the cursor moves on and the entry goes.
LEMMA AppendSucceedsPreserves ==
  ASSUME IInv, AppendSucceeds
  PROVE  IInv'
<1> USE DEF IInv
<1>1. /\ Writing("write") /\ Accepts
      /\ disk' = [disk EXCEPT !.events = disk.events \o Head(chain).batch]
      /\ state' = [state EXCEPT !.materialized = TRUE, !.cursor = state.cursor + Len(Head(chain).batch)]
      /\ entry' = NoEntry /\ call' = Unheld
      /\ Stored(Head(chain).of) /\ chain' = NoLoad(Tail(chain))
      /\ UNCHANGED <<service, acked, troubles>>
  BY DEF AppendSucceeds, Types, Revision, StateRecord
<1>2. PICK l \in Life : l = Head(chain).of
  BY <1>1, HeadWrites
<1>3. /\ chain # <<>> /\ state.owner = l /\ l # None
  BY <1>1, <1>2, HeadWrites, NoneIsNoSession
<1>4. /\ disk.events \in Seq(Event) /\ Head(chain).batch \in Seq(Event) /\ ~disk.torn
      /\ disk.events \o Head(chain).batch \in Seq(Event)
      /\ Begins(disk.events \o Head(chain).batch, session[l].log)
      /\ Len(disk.events \o Head(chain).batch) = Len(disk.events) + Len(Head(chain).batch)
      /\ Len(disk.events) \in Nat /\ Len(Head(chain).batch) \in Nat /\ Len(Head(chain).batch) > 0
      /\ state.cursor = Len(disk.events) /\ Head(chain).n = state.cursor + Len(Head(chain).batch)
  BY <1>1, <1>2, BatchContinues
<1>5. PICK b \in Seq(Event) :
       /\ b = Head(chain).batch /\ Len(disk.events) \in Nat /\ Len(b) \in Nat /\ Len(b) > 0
       /\ state.cursor = Len(disk.events) /\ Head(chain).n = state.cursor + Len(b)
       /\ ~disk.torn /\ disk.events \in Seq(Event)
  BY <1>4, Zenon
<1>6. /\ Len(disk.events) \in Nat /\ Len(b) \in Nat /\ Len(b) > 0
      /\ state.cursor = Len(disk.events) /\ Head(chain).n = state.cursor + Len(b)
      /\ ~disk.torn /\ disk.events \in Seq(Event)
  BY <1>5
<1>7. PICK e \in Seq(Event) :
        /\ disk' = [disk EXCEPT !.events = e] /\ Begins(e, session[l].log) /\ Begins(disk.events, e)
        /\ Len(e) = Len(disk.events) + Len(b)
  <2>1. Begins(disk.events, disk.events \o b)
    BY <1>6, BeginsFacts
  <2> QED BY <1>1, <1>4, <1>5, <2>1, Zenon
<1>8. /\ disk' \in Revision /\ disk'.events = e
      /\ disk'.torn = disk.torn /\ disk'.tail = disk.tail
  BY <1>7 DEF Types, Revision
<1>9. /\ Begins(e, session[l].log) /\ Begins(disk.events, e)
      /\ Len(e) = Len(disk.events) + Len(b)
  BY <1>7
<1>10. /\ state' \in StateRecord /\ state'.owner = l /\ state'.known = state.known /\ state'.materialized
       /\ state'.cursor = state.cursor + Len(b) /\ state.cursor <= state'.cursor
       /\ state'.cursor = Len(disk'.events) /\ Head(chain).n <= state'.cursor
  <2> DEFINE k == state.cursor + Len(b)
  <2>1. k \in Nat /\ state.cursor <= k /\ k = Len(disk'.events) /\ Head(chain).n <= k
    BY <1>9, <1>8, <1>6
  <2>2. state' = [state EXCEPT !.materialized = TRUE, !.cursor = k]
    BY <1>1, <1>5, Zenon
  <2> HIDE DEF k
  <2>3. /\ state' \in StateRecord /\ state'.owner = state.owner /\ state'.known = state.known
        /\ state'.materialized /\ state'.cursor = k
    BY <2>1, <2>2 DEF Types, StateRecord
  <2> QED BY <1>3, <2>1, <2>3 DEF k
<1>11. /\ chain' \in Seq(OpRecord)
       /\ \A i \in DOMAIN chain' : chain'[i].op # "load"
       /\ \A j \in DOMAIN chain \ {1} : chain[j].op # "load" =>
            \E i \in DOMAIN chain' : chain'[i] = chain[j]
       /\ \E f : /\ \A i \in DOMAIN chain' : f[i] \in DOMAIN chain \ {1} /\ chain'[i] = chain[f[i]]
                 /\ \A i, j \in DOMAIN chain' : i < j => f[i] < f[j]
  BY <1>1, <1>3, NoLoadFacts
<1>12. /\ session' \in [Life -> SessionRecord] /\ retirement' \in Life \union {None}
       /\ \A m \in Life \ {l} : session'[m] = session[m]
       /\ session'[l].tracked
       /\ session'[l].log = session[l].log
       /\ session'[l].phase = session[l].phase
       /\ Controller(session'[l]) /\ WriterOK(l)'
       /\ retirement' # None => session'[retirement'].retire \in {"draining", "forgetting"}
       /\ FlushedOK' /\ InFlightOK' /\ ClosedOK'
  BY <1>1, <1>2, <1>3, <1>10, <1>11, SettledWrite
<1>13. Types'
  <2>1. entry' \in EntryRecord
    BY <1>1, BlankEntry
  <2> QED BY <1>1, <1>8, <1>10, <1>11, <1>12, <2>1, UnheldFacts DEF Types
<1>14. StateOK'
  <2>1. state.known
    BY <1>3 DEF StateOK
  <2>2. disk'.events # <<>> /\ disk'.tail = <<>>
    BY <1>9, <1>8, <1>6 DEF StateOK
  <2> QED BY <1>9, <1>3, <1>8, <1>10, <1>6, <1>12, <2>1, <2>2 DEF StateOK
<1>15. Len(disk.events) < Len(disk'.events)
  BY <1>9, <1>8, <1>6
<1>16. SessionOK' /\ RegistryOK' /\ OrderOK' /\ ChainOK' /\ EntryOK' /\ CallOK'
  BY <1>1, <1>2, <1>10, <1>11, <1>12, <1>13, <1>14, <1>15, GrowingStep
<1>17. Begins(acked', disk'.events)
  BY <1>9, <1>1, <1>8, <1>6, BeginsTransitive DEF Types
<1> QED BY <1>12, <1>13, <1>14, <1>16, <1>17

\* The backend has failed: the log is as it was, or holds the first batch.
LEMMA AppendFailsPreserves ==
  ASSUME IInv, AppendFails
  PROVE  IInv'
<1> USE DEF IInv
<1>1. /\ Writing("write") /\ NotStored(Head(chain).of) /\ chain' = Tail(chain)
      /\ UNCHANGED <<state, entry, service, call, acked>>
  BY DEF AppendFails
<1>2. troubles' \in Nat
  BY DEF AppendFails, Trouble, Types
<1>3. PICK l \in Life : l = Head(chain).of
  BY <1>1, HeadWrites
<1>4. CASE disk' = disk
  BY <1>1, <1>2, <1>3, <1>4, SettledStep
\* The backend has published the first batch before it failed.
<1>5. CASE ~state.materialized /\ Accepts /\ disk' = [disk EXCEPT !.events = Head(chain).batch]
  <2> DEFINE b == Head(chain).batch
  <2>1. chain # <<>> /\ state.owner = l /\ l # None
    BY <1>1, <1>3, HeadWrites, NoneIsNoSession
  <2>2. /\ b \in Seq(Event) /\ ~disk.torn /\ disk.events = <<>> /\ Len(disk.events) = 0
        /\ Len(b) \in Nat /\ Len(b) > 0 /\ Begins(disk.events \o b, session[l].log)
    BY <1>1, <1>3, <1>5, BatchContinues DEF Accepts, Exists
  <2>3. Begins(b, session[l].log)
    <3>1. <<>> \o b = b
      BY <2>2
    <3> QED BY <2>2, <3>1
  <2> HIDE DEF b
  <2>4. disk' = [disk EXCEPT !.events = b]
    BY <1>5 DEF b
  <2>5. disk' \in Revision /\ disk'.events = b /\ disk'.torn = disk.torn /\ disk'.tail = disk.tail
    BY <2>2, <2>4 DEF Types, Revision
  <2>6. Tail(chain) \in Seq(OpRecord) /\ IsWithout(Tail(chain), chain, 1)
    BY <2>1, HeadFacts
  <2>7. state' \in StateRecord /\ state'.owner = state.owner /\ state.cursor <= state'.cursor
    BY <1>1 DEF Types, StateRecord
  <2>8. \A j \in DOMAIN chain \ {1} : \E i \in DOMAIN chain' : chain'[i] = chain[j]
    BY <1>1, <2>1, TailFacts
  <2>9. /\ session' \in [Life -> SessionRecord] /\ retirement' \in Life \union {None}
        /\ \A m \in Life \ {l} : session'[m] = session[m]
        /\ session'[l].tracked
        /\ session'[l].log = session[l].log
        /\ session'[l].phase = session[l].phase
        /\ Controller(session'[l]) /\ WriterOK(l)'
        /\ retirement' # None => session'[retirement'].retire \in {"draining", "forgetting"}
        /\ FlushedOK' /\ InFlightOK' /\ ClosedOK'
    BY <1>1, <1>3, <2>7, <2>8, SettledWrite
  <2>10. Types'
    BY <1>1, <1>2, <2>5, <2>6, <2>7, <2>9 DEF Types
  <2>11. StateOK'
    <3>1. state.known /\ state.cursor = 0 /\ disk.tail = <<>>
      BY <1>5, <2>1, <2>2 DEF StateOK
    <3>2. disk'.events # <<>>
      BY <2>2, <2>5
    <3> QED BY <1>1, <1>5, <2>1, <2>2, <2>3, <2>5, <2>9, <3>1, <3>2 DEF StateOK
  <2>12. Len(disk.events) < Len(disk'.events)
    BY <2>2, <2>5
  <2>13. entry.phase \in {"none", "loading"}
    <3>1. entry.rev.events \in Seq(Event)
      BY DEF Types, EntryRecord, Revision
    <3>2. Len(entry.rev.events) \in Nat /\ (Len(entry.rev.events) = 0 => entry.rev.events = <<>>)
      BY <3>1, LenProperties
    <3> QED BY <2>2, <3>2 DEF EntryOK
  <2> DEFINE f == [i \in DOMAIN chain' |-> Kept(i, 1)]
  <2>14. /\ \A i \in DOMAIN chain' : f[i] \in DOMAIN chain \ {1} /\ chain'[i] = chain[f[i]]
         /\ \A i, j \in DOMAIN chain' : i < j => f[i] < f[j]
    <3>1. chain \in Seq(OpRecord) /\ chain' \in Seq(OpRecord) /\ IsWithout(chain', chain, 1)
      BY <1>1, <2>6 DEF Types
    <3> QED BY <3>1, WithoutFacts
  <2> HIDE DEF f
  <2>15. SessionOK' /\ RegistryOK' /\ OrderOK' /\ ChainOK' /\ EntryOK' /\ CallOK'
    BY <1>1, <1>3, <2>1, <2>7, <2>9, <2>10, <2>11, <2>12, <2>13, <2>14, GrowingStep
  <2>16. Begins(acked', disk'.events)
    <3>1. Len(acked) \in Nat /\ Len(acked) <= 0
      BY <2>2, LenProperties DEF Types, Begins
    <3> QED BY <1>1, <2>2, <2>5, <3>1 DEF Begins
  <2> QED BY <2>9, <2>10, <2>11, <2>15, <2>16
<1> QED BY <1>1, <1>4, <1>5 DEF AppendFails

\* The end of a retirement: the owner, if it is that session, has stored all it had.
LEMMA ForgetPreserves ==
  ASSUME IInv, Forget
  PROVE  IInv'
<1> USE DEF IInv
<1>1. /\ chain # <<>> /\ Head(chain).op = "forget"
      /\ session' = [session EXCEPT ![Head(chain).of] = [Gone EXCEPT !.retire = "done"]]
      /\ state' = IF state.owner = Head(chain).of THEN NoState ELSE state
      /\ retirement' = IF retirement = Head(chain).of THEN None ELSE retirement
      /\ chain' = Tail(chain)
      /\ UNCHANGED <<disk, entry, service, call, acked, troubles>>
  BY DEF Forget, At, RetirementWithout
<1>2. /\ OpOK(Head(chain)) /\ Tail(chain) \in Seq(OpRecord) /\ IsWithout(Tail(chain), chain, 1)
      /\ Head(chain) = chain[1] /\ service # "closed"
  BY <1>1, HeadFacts
<1>3. PICK l \in Life : l = Head(chain).of /\ session[l].retire = "forgetting"
  BY <1>1, <1>2 DEF OpOK
<1> DEFINE r == session[l]
           q == session'[l]
<1>4. /\ r \in SessionRecord /\ r.init = "ready" /\ r.writing = "none" /\ r.phase = "disposed" /\ l # None
  BY <1>3, NoneIsNoSession DEF Types, SessionOK, Controller
<1>5. q = [Gone EXCEPT !.retire = "done"] /\ \A m \in Life \ {l} : session'[m] = session[m]
  BY <1>1, <1>3 DEF Types
<1>6. /\ q \in SessionRecord /\ q.phase = "disposed" /\ q.log = <<>> /\ ~q.tracked /\ q.init = "none"
      /\ q.admitted = 0 /\ q.written = 0 /\ q.writing = "none" /\ q.waiters = {} /\ q.retire = "done"
  <2> HIDE DEF q
  <2> QED BY <1>5, BlankRecords DEF SessionRecord
<1> HIDE DEF q, r
<1>7. /\ session' \in [Life -> SessionRecord] /\ state' \in StateRecord
      /\ state.owner = l => state'.owner = None /\ ~state'.known /\ state' = NoState
      /\ state.owner # l => state' = state
  <2>1. session' \in [Life -> SessionRecord]
    BY <1>1, <1>3, <1>5, <1>6 DEF Types, q
  <2> QED BY <1>1, <1>3, <2>1, BlankState DEF Types
<1>8. Types'
  BY <1>1, <1>2, <1>7 DEF Types
<1>9. StateOK'
  <2>1. CASE state.owner = l
    BY <1>1, <1>7, <2>1 DEF StateOK
  <2>2. CASE state.owner # l
    <3>1. state' = state /\ (state.owner # None => state.owner \in Life \ {l})
      BY <1>7, <2>2 DEF Types, StateRecord
    <3> QED BY <1>1, <1>5, <3>1 DEF StateOK
  <2> QED BY <2>1, <2>2
<1>10. SessionOK'
  <2> SUFFICES ASSUME NEW m \in Life PROVE Controller(session[m])' /\ WriterOK(m)'
    BY DEF SessionOK
  <2>1. CASE m = l
    BY <1>6, <2>1 DEF Controller, WriterOK, q
  <2>2. CASE m # l
    <3>1. session'[m] = session[m] /\ Controller(session[m]) /\ WriterOK(m)
      BY <1>5, <2>2 DEF SessionOK
    <3> QED BY <1>7, <2>2, <3>1, NoneIsNoSession DEF WriterOK
  <2> QED BY <2>1, <2>2
<1>11. \A m \in Life : session'[m].phase = session[m].phase
                       /\ (session'[m].tracked => session'[m] = session[m])
  BY <1>4, <1>5, <1>6 DEF q, r
<1>12. RegistryOK'
  <2>1. retirement' # None => session'[retirement'].retire \in {"draining", "forgetting"}
    BY <1>1, <1>3, <1>5 DEF RegistryOK, Types
  <2>2. \A m \in Life : m # l => session'[m].tracked = session[m].tracked
    BY <1>5
  <2> QED BY <1>1, <1>4, <1>11, <2>1, <2>2 DEF RegistryOK, r
<1>13. \A i \in DOMAIN chain' : \E j \in DOMAIN chain \ {1} : chain'[i] = chain[j]
  BY <1>1, TailFacts
<1>14. OrderOK'
  <2>1. \A i \in DOMAIN chain' : chain'[i].op = "created" /\ state'.owner \notin {None, chain'[i].of} =>
            session'[state'.owner].phase # "live"
    BY <1>7, <1>11, <1>13 DEF OrderOK, Types, StateRecord
  <2> QED BY <1>1, <1>2, <1>8, <1>11, <2>1, OrderRemoved
<1>15. ASSUME NEW j \in DOMAIN chain \ {1} PROVE Keeps(chain[j])
  <2>1. OpOK(chain[j]) /\ ~Alike(chain[j], Head(chain)) /\ chain[j].stage = Waiting(chain[j].op)
    BY <1>1, HeadFacts
  <2>2. ASSUME chain[j].op \in SessionOps
        PROVE  chain[j].of # l /\ Steady(session[chain[j].of], session'[chain[j].of])
    <3>1. chain[j].of \in Life /\ chain[j].of # l
      BY <1>1, <1>3, <1>4, <2>1, <2>2, OpsAreTracked
         DEF OpOK, CreatedOK, SuffixOK, AppendOK, Alike, SessionOps, r
    <3>2. session'[chain[j].of] = session[chain[j].of] /\ session[chain[j].of] \in SessionRecord
      BY <1>5, <3>1 DEF Types
    <3>3. Begins(session[chain[j].of].log, session[chain[j].of].log)
      BY <3>2, BeginsFacts DEF SessionRecord
    <3> QED BY <3>1, <3>2, <3>3 DEF Steady, SessionRecord
  <2>3. chain[j].op = "created" => state'.owner # chain[j].of
    BY <1>7, <2>1, NoneIsNoSession DEF OpOK, CreatedOK, Waiting
  <2>4. chain[j].op = "suffix" => state'.owner = chain[j].of /\ state'.materialized
    BY <1>7, <2>1, <2>2 DEF OpOK, SuffixOK, SessionOps
  <2>5. Len(disk.events) <= Len(disk'.events)
    BY <1>1, LenProperties DEF Types, Revision
  <2> QED BY <1>1, <1>8, <2>2, <2>3, <2>4, <2>5, KeepsBehindHead
<1>16. ChainOK'
  BY <1>8, <1>13, <1>15, ChainFrame
<1>17. EntryOK'
  <2>1. entry.phase = "reserved" => state' = state
    BY <1>4, <1>7 DEF EntryOK
  <2>2. \A i \in DOMAIN chain' : chain'[i].op = "created" => \E j \in DOMAIN chain : chain[j].op = "created"
    BY <1>13
  <2> QED BY <1>1, <1>11, <2>1, <2>2 DEF EntryOK
<1>18. CallOK'
  <2> SUFFICES ASSUME NEW c \in Call, call[c].pc \notin {"published", "read", "live", "failed"}
               PROVE  session'[c].phase = session[c].phase /\ Begins(session[c].log, session'[c].log)
    BY <1>1, <1>8, CallFrame
  <2>1. c \in Life /\ session[c].phase \in {"none", "prepared"}
    BY DEF CallOK, Types, CallRecord, Life
  <2>2. session'[c] = session[c] /\ session[c].log \in Seq(Event)
    BY <1>4, <1>5, <2>1 DEF Types, SessionRecord, r
  <2> QED BY <2>2, BeginsFacts
<1>19. FlushedOK'
  BY <1>1, <1>11 DEF FlushedOK
<1>20. InFlightOK'
  <2>1. \A j \in DOMAIN chain \ {1} : \E i \in DOMAIN chain' : chain'[i] = chain[j]
    BY <1>1, TailFacts
  <2>2. \A m \in Life : session'[m].writing = session[m].writing
    BY <1>4, <1>5, <1>6 DEF q, r
  <2> QED BY <1>1, <1>2, <2>1, <2>2 DEF InFlightOK
<1>21. ClosedOK'
  BY <1>1, <1>2 DEF ClosedOK
<1> QED BY <1>1, <1>8, <1>9, <1>10, <1>12, <1>14, <1>16, <1>17, <1>18, <1>19, <1>20, <1>21

=============================================================================
