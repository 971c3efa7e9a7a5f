------------------------ MODULE AgentLifecycleProofs ------------------------
(***************************************************************************)
(* Theorems about AgentLifecycle, for every set of creations and owners.   *)
(*                                                                         *)
(* The inductive invariant has two layers.  LifeOK speaks of one record    *)
(* alone: how far dispose() is decides whether the agent is tracked, and   *)
(* where createAgent() or resume() stands decides who holds the            *)
(* preparation.  The rest relates records to the registries and to what    *)
(* the factory waits for.                                                  *)
(***************************************************************************)
EXTENDS AgentLifecycle, TLAPS

\* The stations at which prepare() has made a lifecycle.
Scoped == Sync \union {"setup", "rollback", "live"}

\* An agent is tracked from prepare() until its disposal is done, and until
\* dispose() is called it follows its owner.
DisposalOK(r) ==
  /\ r.pc \in {"none", "loading", "loaded"} => ~r.tracked /\ r.disposal = "none"
  /\ r.pc \in Scoped => (r.tracked <=> r.disposal # "done")
  /\ r.pc \in Scoped /\ r.disposal = "none" => r.following
  /\ r.following /\ r.disposal = "none" => r.pc = "loading" \/ r.pc \in Scoped
  /\ r.pc = "failed" => (r.tracked <=> r.disposal = "running")
  /\ r.pc = "rollback" => r.disposal # "none"
  /\ r.disposal # "none" => r.aborted

\* A load owns the preparation exactly if it won its race; whoever settles has
\* given it back, and an answer after that meets a race that is over.
PreparationOK(r) ==
  /\ r.pc = "none" => r.preparation = "none"
  /\ r.preparation = "pending" => r.pc \in {"loading", "failed"}
  /\ r.race = "pending" => r.pc \in {"loading", "setup"}
  /\ r.pc = "loading" => (r.preparation = "held" <=> r.race = "ok")
  /\ r.pc \in Settled => r.preparation # "held"

EdgesOK(r) == r.disposed = IF r.disposal = "done" THEN r.created ELSE {}

LifeOK(r) == r \in LifeType /\ DisposalOK(r) /\ PreparationOK(r) /\ EdgesOK(r)

\* The stations between publish() and the end of a rollback.
Published == {"sessionAnnounce", "agentAnnounce", "sessionStart", "live", "rollback"}

\* Who is registered has published and is not yet disposed.
RegisteredOK ==
  /\ agents = sessions
  /\ \A l \in Life : sessions = l =>
       /\ life[l].tracked
       /\ life[l].pc \in Published

\* From the moment the factory disposes, all that lives under it is awaited.
AwaitedOK ==
  factory \in {"disposing", "gone"} =>
    /\ \A l \in Life : life[l].tracked => l \in awaited.agents
    /\ \A l \in Life : Unsettled(l) => l \in awaited.tasks
    /\ factory = "gone" => FactoryWaited

IInv == TypeOK /\ (\A l \in Life : LifeOK(life[l])) /\ RegisteredOK /\ AwaitedOK

-----------------------------------------------------------------------------
(* Records *)

\* What no step of a life may do to its record: a settled creation stays
\* settled, a finished disposal stays finished, and only an active factory
\* takes on anything new.
Evolves(s, r) ==
  /\ LifeOK(r)
  /\ s.pc \in Settled => r.pc \in Settled
  /\ s.disposal = "done" => r.disposal = "done"
  /\ r.tracked => s.tracked \/ factory = "active"
  /\ r.pc \notin Settled /\ r.pc # "none" =>
       (s.pc \notin Settled /\ s.pc # "none") \/ factory = "active"

\* An abort and the start of dispose() keep a record well formed, wherever the
\* creation stands.
LEMMA AbortedLifeOK ==
  ASSUME NEW r, LifeOK(r)
  PROVE  /\ LifeOK(AbortedLife(r))
         /\ AbortedLife(r).aborted
         /\ \A f \in {"pc", "disposal", "tracked", "following", "preparation",
                        "cancelled", "byOwner", "created", "disposed"} :
              AbortedLife(r)[f] = r[f]
  BY DEF LifeOK, LifeType, DisposalOK, PreparationOK, EdgesOK, AbortedLife, Scoped,
         Sync, Settled, Pcs

LEMMA DisposedLifeOK ==
  ASSUME NEW r, LifeOK(r), r.pc \in Scoped
  PROVE  /\ LifeOK(DisposedLife(r))
         /\ DisposedLife(r).disposal # "none"
         /\ r.disposal = "done" => DisposedLife(r).disposal = "done"
         /\ \A f \in {"pc", "tracked", "following", "preparation", "created"} :
              DisposedLife(r)[f] = r[f]
<1>1. CASE r.disposal # "none"
  BY <1>1 DEF DisposedLife
<1>2. CASE r.disposal = "none"
  <2> DEFINE a == AbortedLife(r)
             d == [a EXCEPT !.disposal = "running"]
  <2>1. LifeOK(a) /\ a.aborted /\ a.pc = r.pc /\ a.disposal = "none"
    BY <1>2, AbortedLifeOK
  <2>2. \A f \in {"pc", "tracked", "following", "preparation", "created"} : a[f] = r[f]
    BY AbortedLifeOK
  <2> HIDE DEF a
  <2>3. d \in LifeType
    BY <2>1 DEF LifeOK, LifeType
  <2>4. LifeOK(d)
    BY <2>1, <2>3 DEF LifeOK, LifeType, DisposalOK, PreparationOK, EdgesOK, Scoped,
                      Sync, Settled, Pcs
  <2>5. \A f \in {"pc", "tracked", "following", "preparation", "created"} : d[f] = r[f]
    BY <2>1, <2>2 DEF LifeOK, LifeType
  <2>6. DisposedLife(r) = d
    BY <1>2 DEF DisposedLife, a
  <2>7. d.disposal = "running"
    BY <2>1 DEF LifeOK, LifeType
  <2> QED BY <1>2, <2>4, <2>5, <2>6, <2>7
<1> QED BY <1>1, <1>2

\* Failing gives the preparation back; only a disposal under way survives it.
LEMMA FailedLifeOK ==
  ASSUME NEW r, LifeOK(r), r.race # "pending",
         r.tracked <=> r.disposal = "running",
         r.following => r.disposal # "none"
  PROVE  /\ LifeOK(FailedLife(r))
         /\ FailedLife(r).pc = "failed"
         /\ \A f \in {"disposal", "tracked"} : FailedLife(r)[f] = r[f]
<1> DEFINE p == ReleasedLife(r)
           q == [p EXCEPT !.pc = "failed"]
<1>1. /\ p \in LifeType
      /\ p.preparation # "held"
      /\ \A f \in {"pc", "race", "cancelled", "aborted", "disposal", "byOwner", "following",
                     "tracked", "created", "disposed"} : p[f] = r[f]
  BY DEF LifeOK, LifeType, ReleasedLife
<1> HIDE DEF p
<1>2. q \in LifeType
  BY <1>1 DEF LifeType, Pcs, Settled
<1>3. /\ q.pc = "failed"
      /\ q.preparation # "held"
      /\ \A f \in {"race", "cancelled", "aborted", "disposal", "byOwner", "following",
                     "tracked", "created", "disposed"} : q[f] = r[f]
  BY <1>1 DEF LifeType
<1> HIDE DEF q
<1>4. LifeOK(q)
  BY <1>2, <1>3 DEF LifeOK, DisposalOK, PreparationOK, EdgesOK, Scoped, Sync, Settled
<1>5. FailedLife(r) = q
  BY DEF FailedLife, p, q
<1> QED BY <1>3, <1>4, <1>5

\* A rollback keeps the agent tracked until its disposal is done.
LEMMA RollbackLifeOK ==
  ASSUME NEW r, LifeOK(r), r.pc \in Scoped, r.race # "pending"
  PROVE  /\ LifeOK(RollbackLife(r))
         /\ RollbackLife(r).pc = "rollback"
         /\ RollbackLife(r).tracked = r.tracked
         /\ r.disposal = "done" => RollbackLife(r).disposal = "done"
<1> DEFINE d == DisposedLife(r)
           q == [d EXCEPT !.pc = "rollback"]
<1>1. /\ LifeOK(d) /\ d \in LifeType
      /\ d.disposal # "none"
      /\ r.disposal = "done" => d.disposal = "done"
      /\ \A f \in {"pc", "tracked", "following", "preparation", "created"} : d[f] = r[f]
  BY DisposedLifeOK DEF LifeOK
<1>2. d.race # "pending"
  BY DEF DisposedLife, AbortedLife, LifeOK, LifeType
<1> HIDE DEF d
<1>3. q \in LifeType
  BY <1>1 DEF LifeType, Pcs
<1>4. /\ q.pc = "rollback"
      /\ \A f \in {"race", "aborted", "disposal", "following", "preparation", "tracked",
                     "created", "disposed"} : q[f] = d[f]
  BY <1>1 DEF LifeType
<1> HIDE DEF q
<1>5. LifeOK(q)
  <2>1. DisposalOK(q)
    BY <1>1, <1>4 DEF LifeOK, DisposalOK, Scoped, Sync
  <2>2. PreparationOK(q)
    BY <1>1, <1>2, <1>4 DEF LifeOK, PreparationOK, Scoped, Sync, Settled
  <2>3. EdgesOK(q)
    BY <1>1, <1>4 DEF LifeOK, EdgesOK
  <2> QED BY <1>3, <2>1, <2>2, <2>3 DEF LifeOK
<1>6. RollbackLife(r) = q
  BY DEF RollbackLife, d, q
<1> QED BY <1>1, <1>4, <1>5, <1>6

\* r is s, except that it no longer follows its owner.
Stopped(s, r) ==
  /\ r \in LifeType /\ ~r.following
  /\ \A f \in {"pc", "race", "aborted", "disposal", "tracked", "preparation", "created",
                 "disposed"} : r[f] = s[f]

LEMMA StoppedFollowing ==
  ASSUME NEW s \in LifeType
  PROVE  Stopped(s, [s EXCEPT !.following = FALSE])
  BY DEF Stopped, LifeType

LEMMA StoppedOK ==
  ASSUME NEW s, NEW r, LifeOK(s), Stopped(s, r), s.pc = "loading" \/ s.disposal # "none"
  PROVE  LifeOK(r)
<1>1. DisposalOK(r)
  BY DEF LifeOK, DisposalOK, Stopped, Scoped, Sync
<1>2. PreparationOK(r)
  BY DEF LifeOK, PreparationOK, Stopped
<1>3. EdgesOK(r)
  BY DEF LifeOK, EdgesOK, Stopped
<1> QED BY <1>1, <1>2, <1>3 DEF LifeOK, Stopped

-----------------------------------------------------------------------------
(* Steps *)

\* A step of one life that leaves the fibers alone keeps the invariant if its
\* record evolves and the registries still hold only what is published.
LEMMA EvolvesStep ==
  ASSUME IInv, NEW l \in Life, NEW r,
         life' = [life EXCEPT ![l] = r], UNCHANGED fiberVars,
         Evolves(life[l], r),
         sessions' \in Life \union {None}, agents' \in Life \union {None},
         RegisteredOK'
  PROVE  IInv'
<1> USE DEF fiberVars
<1>1. r \in LifeType /\ LifeOK(r)
  BY DEF Evolves, LifeOK
<1>2. TypeOK'
  BY <1>1 DEF IInv, TypeOK
<1>3. (\A m \in Life : LifeOK(life[m]))'
  BY <1>1 DEF IInv, TypeOK
<1>4. AwaitedOK'
  <2> SUFFICES ASSUME factory \in {"disposing", "gone"}
               PROVE  AwaitedOK'
    BY DEF AwaitedOK
  <2>1. \A m \in Life : life'[m] = IF m = l THEN r ELSE life[m]
    BY DEF IInv, TypeOK
  <2>2. (\A m \in Life : life[m].tracked => m \in awaited.agents)'
    BY <2>1 DEF IInv, AwaitedOK, Evolves
  <2>3. (\A m \in Life : Unsettled(m) => m \in awaited.tasks)'
    BY <2>1 DEF IInv, AwaitedOK, Evolves, Unsettled, Begun
  <2>4. (factory = "gone" => FactoryWaited)'
    BY <2>1 DEF IInv, AwaitedOK, Evolves, FactoryWaited
  <2> QED BY <2>2, <2>3, <2>4 DEF AwaitedOK
<1> QED BY <1>2, <1>3, <1>4 DEF IInv

\* The same for a step that leaves the registries alone.
LEMMA LifeStep ==
  ASSUME IInv, NEW l \in Life, NEW r,
         life' = [life EXCEPT ![l] = r], UNCHANGED <<registryVars, fiberVars>>,
         Evolves(life[l], r),
         sessions = l => r.tracked /\ r.pc \in Published
  PROVE  IInv'
<1>1. RegisteredOK'
  BY DEF IInv, TypeOK, RegisteredOK, Published, registryVars
<1>2. sessions' \in Life \union {None} /\ agents' \in Life \union {None}
  BY DEF IInv, TypeOK, registryVars
<1> QED BY <1>1, <1>2, EvolvesStep

\* What the program does on its own about one creation.
LEMMA ContinuesStep ==
  ASSUME IInv, NEW l \in Life, Continues(l)
  PROVE  IInv'
<1> DEFINE s == life[l]
<1>1. LifeOK(s) /\ s \in LifeType
  BY DEF IInv, LifeOK
<1>2. sessions = l => s.tracked /\ s.pc \in Published
  BY DEF IInv, RegisteredOK, Published
<1> USE DEF Become
<1>3. CASE Loaded(l)
  <2> DEFINE r == [s EXCEPT !.following = FALSE,
                            !.pc = IF s.race = "ok" THEN "loaded" ELSE "failed"]
  <2>1. Evolves(s, r)
    BY <1>1, <1>3 DEF Loaded, Evolves, LifeOK, LifeType, DisposalOK, PreparationOK,
                      EdgesOK, Scoped, Sync, Settled, Pcs
  <2> QED BY <1>2, <1>3, <2>1, LifeStep DEF Loaded, Published
<1>4. CASE Acquire(l)
  <2>0. /\ s.race # "pending" /\ ~s.tracked /\ s.disposal = "none" /\ ~s.following
        /\ sessions # l
    BY <1>1, <1>2, <1>4 DEF Acquire, LifeOK, DisposalOK, PreparationOK, Published, Scoped, Sync
  <2>1. CASE MayPrepare(l)
    <3>1. Evolves(s, MintingLife(s))
      BY <1>1, <1>4, <2>1 DEF Acquire, MayPrepare, Evolves, LifeOK, LifeType, DisposalOK,
                 PreparationOK, EdgesOK, Scoped, Sync, Settled, Pcs, MintingLife
    <3> QED BY <1>4, <2>0, <2>1, <3>1, LifeStep DEF Acquire
  <2>2. CASE ~MayPrepare(l)
    <3>1. Evolves(s, FailedLife(s))
      BY <1>1, <2>0, FailedLifeOK DEF Evolves, Settled
    <3> QED BY <1>4, <2>0, <2>2, <3>1, LifeStep DEF Acquire
  <2> QED BY <2>1, <2>2
<1>5. CASE Minted(l)
  <2>0. /\ s.race # "pending" /\ sessions # l /\ s.pc \in Scoped
        /\ s.pc = "minting"
    BY <1>1, <1>2, <1>5 DEF Minted, LifeOK, PreparationOK, Published, Scoped, Sync
  <2>1. CASE s.aborted
    <3> DEFINE d == DisposedLife(s)
    <3>1. LifeOK(d) /\ d.disposal # "none" /\ d.pc = "minting" /\ d.tracked = s.tracked
          /\ (s.disposal = "done" => d.disposal = "done")
      BY <1>1, <2>0, DisposedLifeOK
    <3>2. d.race # "pending"
      BY <1>1, <2>0 DEF DisposedLife, AbortedLife, LifeType
    <3> HIDE DEF d
    <3>3. d.tracked <=> d.disposal = "running"
      BY <3>1 DEF LifeOK, LifeType, DisposalOK, Scoped, Sync
    <3>4. Evolves(s, FailedLife(d))
      BY <1>1, <3>1, <3>2, <3>3, FailedLifeOK DEF Evolves, Settled
    <3> QED BY <1>5, <2>0, <2>1, <3>4, LifeStep DEF Minted, d
  <2>2. CASE ~s.aborted
    <3> DEFINE r == [s EXCEPT !.pc = "setup", !.race = "pending"]
    <3>1. Evolves(s, r)
      BY <1>1, <2>0, <2>2 DEF Evolves, LifeOK, LifeType, DisposalOK,
                 PreparationOK, EdgesOK, Scoped, Sync, Settled, Pcs
    <3> QED BY <1>5, <2>0, <2>2, <3>1, LifeStep DEF Minted
  <2> QED BY <2>1, <2>2
<1>6. CASE SetupFails(l) \/ Vetoed(l)
  <2>1. s.pc \in Scoped /\ s.race # "pending" /\ s.pc \notin Settled /\ s.pc # "none"
    BY <1>1, <1>6 DEF SetupFails, Vetoed, Scoped, Sync, Settled, LifeOK, PreparationOK
  <2>2. Evolves(s, RollbackLife(s))
    BY <1>1, <2>1, RollbackLifeOK DEF Evolves
  <2>3. sessions = l => RollbackLife(s).tracked /\ RollbackLife(s).pc \in Published
    BY <1>1, <1>2, <2>1, RollbackLifeOK DEF Published
  <2> QED BY <1>6, <2>2, <2>3, LifeStep DEF SetupFails, Vetoed
<1>7. CASE SessionAnnounced(l)
  <2> DEFINE r == [s EXCEPT !.pc = "agentAnnounce", !.created = {"session", "agent"}]
  <2>1. Evolves(s, r)
    BY <1>1, <1>7 DEF SessionAnnounced, Evolves, LifeOK, LifeType, DisposalOK,
               PreparationOK, EdgesOK, Scoped, Sync, Settled, Pcs
  <2>2. sessions = l => r.tracked /\ r.pc \in Published
    BY <1>1, <1>2 DEF Published, LifeType
  <2> QED BY <1>7, <2>1, <2>2, LifeStep DEF SessionAnnounced
<1>8. CASE AgentAnnounced(l)
  <2> DEFINE r == [s EXCEPT !.pc = "sessionStart"]
  <2>1. Evolves(s, r)
    BY <1>1, <1>8 DEF AgentAnnounced, Evolves, LifeOK, LifeType, DisposalOK,
               PreparationOK, EdgesOK, Scoped, Sync, Settled, Pcs
  <2>2. sessions = l => r.tracked /\ r.pc \in Published
    BY <1>1, <1>2 DEF Published, LifeType
  <2> QED BY <1>8, <2>1, <2>2, LifeStep DEF AgentAnnounced
<1>9. CASE SessionStarted(l)
  <2>0. s.pc \in Scoped /\ s.race # "pending" /\ s.pc \notin Settled /\ s.pc # "none"
    BY <1>1, <1>9 DEF SessionStarted, Scoped, Sync, Settled, LifeOK, PreparationOK
  <2>1. CASE s.aborted
    <3>1. Evolves(s, RollbackLife(s))
      BY <1>1, <2>0, RollbackLifeOK DEF Evolves
    <3>2. sessions = l => RollbackLife(s).tracked /\ RollbackLife(s).pc \in Published
      BY <1>1, <1>2, <2>0, RollbackLifeOK DEF Published
    <3> QED BY <1>9, <2>1, <3>1, <3>2, LifeStep DEF SessionStarted
  <2>2. CASE ~s.aborted
    <3> DEFINE r == [ReleasedLife(s) EXCEPT !.pc = "live"]
    <3>1. Evolves(s, r)
      BY <1>1, <1>9, <2>2 DEF SessionStarted, Evolves, LifeOK, LifeType, DisposalOK,
                 PreparationOK, EdgesOK, Scoped, Sync, Settled, Pcs, ReleasedLife
    <3>2. sessions = l => r.tracked /\ r.pc \in Published
      BY <1>1, <1>2 DEF Published, LifeType, ReleasedLife
    <3> QED BY <1>9, <2>2, <3>1, <3>2, LifeStep DEF SessionStarted
  <2> QED BY <2>1, <2>2
<1>10. CASE RolledBack(l)
  <2>1. s.race # "pending" /\ ~s.tracked /\ s.disposal = "done" /\ sessions # l
    BY <1>1, <1>2, <1>10 DEF RolledBack, LifeOK, DisposalOK, PreparationOK, Scoped
  <2>2. Evolves(s, FailedLife(s))
    BY <1>1, <2>1, FailedLifeOK DEF Evolves, Settled
  <2> QED BY <1>10, <2>1, <2>2, LifeStep DEF RolledBack
<1>11. CASE OwnerEffect(l)
  <2>1. CASE s.pc = "loading"
    <3> DEFINE a == AbortedLife(s)
               r == [a EXCEPT !.following = FALSE]
    <3>1. LifeOK(a) /\ a \in LifeType /\ a.pc = "loading" /\ a.tracked = s.tracked
      BY <1>1, <2>1, AbortedLifeOK DEF LifeOK
    <3> HIDE DEF a
    <3>2. Stopped(a, r)
      BY <3>1, StoppedFollowing
    <3> HIDE DEF r
    <3>3. Evolves(s, r)
      BY <1>1, <2>1, <3>1, <3>2, StoppedOK DEF Stopped, Evolves, LifeOK, DisposalOK, Settled
    <3> QED BY <1>2, <1>11, <2>1, <3>3, LifeStep DEF OwnerEffect, a, r, Published
  <2>2. CASE s.pc # "loading" /\ s.disposal # "none"
    <3> DEFINE r == [s EXCEPT !.following = FALSE]
    <3>1. Stopped(s, r)
      BY <1>1, StoppedFollowing
    <3> HIDE DEF r
    <3>2. Evolves(s, r)
      BY <1>1, <2>2, <3>1, StoppedOK DEF Stopped, Evolves
    <3>3. sessions = l => r.tracked /\ r.pc \in Published
      BY <1>2, <3>1 DEF Stopped
    <3> QED BY <1>11, <2>2, <3>2, <3>3, LifeStep DEF OwnerEffect, r
  <2>3. CASE s.pc # "loading" /\ s.disposal = "none"
    <3> DEFINE d == DisposedLife(s)
               r == [d EXCEPT !.following = FALSE, !.byOwner = TRUE]
    <3>1. s.pc \in Scoped
      BY <1>1, <1>11, <2>3 DEF OwnerEffect, LifeOK, DisposalOK
    <3>2. /\ LifeOK(d) /\ d \in LifeType /\ d.disposal # "none"
          /\ d.pc = s.pc /\ d.tracked = s.tracked
      BY <1>1, <3>1, DisposedLifeOK DEF LifeOK
    <3> HIDE DEF d
    <3>3. Stopped(d, r)
      BY <3>2 DEF Stopped, LifeType
    <3> HIDE DEF r
    <3>4. Evolves(s, r)
      BY <2>3, <3>2, <3>3, StoppedOK DEF Stopped, Evolves
    <3>5. sessions = l => r.tracked /\ r.pc \in Published
      BY <1>2, <3>2, <3>3 DEF Stopped
    <3> QED BY <1>11, <2>3, <3>4, <3>5, LifeStep DEF OwnerEffect, d, r
  <2> QED BY <2>1, <2>2, <2>3
<1>12. CASE Publish(l)
  <2> DEFINE r == [s EXCEPT !.pc = "sessionAnnounce", !.created = {"session"}]
  <2>1. Evolves(s, r)
    BY <1>1, <1>12 DEF Publish, MayPublish, Evolves, LifeOK, LifeType, DisposalOK,
               PreparationOK, EdgesOK, Scoped, Sync, Settled, Pcs
  <2>2. r.tracked /\ r.pc \in Published
    BY <1>1, <1>12 DEF Publish, MayPublish, LifeOK, LifeType, DisposalOK, Scoped, Published
  <2> HIDE DEF r
  <2>3. \A m \in Life : life'[m] = IF m = l THEN r ELSE life[m]
    BY <1>12 DEF Publish, IInv, TypeOK, r
  <2>4. RegisteredOK'
    BY <1>12, <2>2, <2>3 DEF Publish, RegisteredOK, Published
  <2> QED BY <1>12, <2>1, <2>4, EvolvesStep DEF Publish, r
<1>13. CASE Quiesced(l)
  <2> DEFINE r == [s EXCEPT !.disposal = "done", !.tracked = FALSE,
                            !.following = FALSE, !.disposed = DisposalEdges(l)]
  <2>1. Evolves(s, r)
    BY <1>1, <1>13 DEF Quiesced, DisposalEdges, Evolves, LifeOK, LifeType, DisposalOK,
               PreparationOK, EdgesOK, Scoped, Sync, Settled, Pcs
  <2> HIDE DEF r
  <2>2. \A m \in Life : life'[m] = IF m = l THEN r ELSE life[m]
    BY <1>13 DEF Quiesced, IInv, TypeOK, r
  <2>3. RegisteredOK'
    BY <1>13, <2>2, LifeAssumption DEF Quiesced, Without, RegisteredOK, IInv
  <2>4. sessions' \in Life \union {None} /\ agents' \in Life \union {None}
    BY <1>13 DEF Quiesced, Without, IInv, TypeOK
  <2> QED BY <1>13, <2>1, <2>3, <2>4, EvolvesStep DEF Quiesced, r
<1> QED BY <1>3, <1>4, <1>5, <1>6, <1>7, <1>8, <1>9, <1>10, <1>11, <1>12, <1>13
        DEF Continues

\* What callers, the backend and the setup do to one creation.
LEMMA CallsStep ==
  ASSUME IInv, NEW l \in Life, Calls(l)
  PROVE  IInv'
<1> DEFINE s == life[l]
<1>1. LifeOK(s) /\ s \in LifeType
  BY DEF IInv, LifeOK
<1>2. sessions = l => s.tracked /\ s.pc \in Published
  BY DEF IInv, RegisteredOK, Published
<1> USE DEF Become
<1>3. CASE CreateAgent(l)
  <2>1. Evolves(s, MintingLife(s))
    BY <1>1, <1>3 DEF CreateAgent, Callable, Begun, Evolves, LifeOK, LifeType, DisposalOK,
               PreparationOK, EdgesOK, Scoped, Sync, Settled, Pcs, MintingLife
  <2>2. sessions # l
    BY <1>3, LifeAssumption DEF CreateAgent
  <2> QED BY <1>3, <2>1, <2>2, LifeStep DEF CreateAgent
<1>4. CASE Resume(l)
  <2> DEFINE r == [s EXCEPT !.pc = "loading", !.race = "pending",
                            !.following = TRUE, !.preparation = "pending"]
  <2>1. Evolves(s, r)
    BY <1>1, <1>4 DEF Resume, Callable, Begun, Evolves, LifeOK, LifeType, DisposalOK,
               PreparationOK, EdgesOK, Scoped, Sync, Settled, Pcs
  <2>2. sessions # l
    BY <1>2, <1>4 DEF Resume, Callable, Begun, Published
  <2> QED BY <1>4, <2>1, <2>2, LifeStep DEF Resume
<1>5. CASE HandleDispose(l)
  <2>1. s.pc \in Scoped /\ s.pc \in Settled
    BY <1>5 DEF HandleDispose, Scoped, Settled
  <2>2. Evolves(s, DisposedLife(s))
    BY <1>1, <2>1, DisposedLifeOK DEF Evolves
  <2>3. sessions = l => DisposedLife(s).tracked /\ DisposedLife(s).pc \in Published
    BY <1>1, <1>2, <2>1, DisposedLifeOK
  <2> QED BY <1>5, <2>2, <2>3, LifeStep DEF HandleDispose
<1>6. CASE CallerAborts(l)
  <2> DEFINE a == IF s.disposal = "none" THEN AbortedLife(s) ELSE s
             r == [a EXCEPT !.cancelled = TRUE]
  <2>1. /\ LifeOK(a) /\ a \in LifeType
        /\ \A f \in {"pc", "disposal", "tracked"} : a[f] = s[f]
    BY <1>1, AbortedLifeOK DEF LifeOK
  <2>2. life' = [life EXCEPT ![l] = r]
    BY <1>6 DEF CallerAborts
  <2> HIDE DEF a
  <2>3. /\ r \in LifeType
        /\ \A f \in {"pc", "race", "aborted", "disposal", "tracked", "following",
                       "preparation", "created", "disposed"} : r[f] = a[f]
    BY <2>1 DEF LifeType
  <2> HIDE DEF r
  <2>4. LifeOK(r)
    <3>1. DisposalOK(r)
      BY <2>1, <2>3 DEF LifeOK, DisposalOK
    <3>2. PreparationOK(r)
      BY <2>1, <2>3 DEF LifeOK, PreparationOK
    <3>3. EdgesOK(r)
      BY <2>1, <2>3 DEF LifeOK, EdgesOK
    <3> QED BY <2>3, <3>1, <3>2, <3>3 DEF LifeOK
  <2>5. Evolves(s, r)
    BY <2>1, <2>3, <2>4 DEF Evolves
  <2>6. sessions = l => r.tracked /\ r.pc \in Published
    BY <1>2, <2>1, <2>3
  <2> QED BY <1>6, <2>2, <2>5, <2>6, LifeStep DEF CallerAborts
<1>7. ASSUME NEW ok \in BOOLEAN, PrepareSettles(l, ok)
      PROVE  IInv'
  <2>0. s.pc \in {"loading", "failed"} /\ s.preparation = "pending" /\ sessions # l
    BY <1>1, <1>2, <1>7 DEF PrepareSettles, LifeOK, PreparationOK, Published
  <2>1. CASE ~ok
    <3> DEFINE r == [s EXCEPT !.preparation = "none",
                              !.race = IF @ = "pending" THEN "error" ELSE @]
    <3>1. Evolves(s, r)
      BY <1>1, <2>0 DEF Evolves, LifeOK, LifeType, DisposalOK, PreparationOK, EdgesOK,
                 Scoped, Sync, Settled, Pcs
    <3> QED BY <1>7, <2>0, <2>1, <3>1, LifeStep DEF PrepareSettles
  <2>2. CASE ok /\ s.race = "pending"
    <3> DEFINE r == [s EXCEPT !.preparation = "held", !.race = "ok"]
    <3>1. Evolves(s, r)
      BY <1>1, <2>0, <2>2 DEF Evolves, LifeOK, LifeType, DisposalOK, PreparationOK, EdgesOK,
                 Scoped, Sync, Settled, Pcs
    <3> QED BY <1>7, <2>0, <2>2, <3>1, LifeStep DEF PrepareSettles
  <2>3. CASE ok /\ s.race # "pending"
    <3>1. Evolves(s, Abandoned(s))
      BY <1>1, <2>0, <2>3 DEF Evolves, LifeOK, LifeType, DisposalOK, PreparationOK, EdgesOK,
                 Scoped, Sync, Settled, Pcs, Abandoned
    <3> QED BY <1>7, <2>0, <2>3, <3>1, LifeStep DEF PrepareSettles
  <2> QED BY <2>1, <2>2, <2>3
<1>8. ASSUME NEW outcome \in {"ok", "error"}, SetupSettles(l, outcome)
      PROVE  IInv'
  <2> DEFINE r == [s EXCEPT !.race = outcome]
  <2>1. Evolves(s, r)
    BY <1>1, <1>8 DEF SetupSettles, Evolves, LifeOK, LifeType, DisposalOK, PreparationOK,
               EdgesOK, Scoped, Sync, Settled, Pcs
  <2>2. sessions # l
    BY <1>2, <1>8 DEF SetupSettles, Published
  <2> QED BY <1>8, <2>1, <2>2, LifeStep DEF SetupSettles
<1> QED BY <1>3, <1>4, <1>5, <1>6, <1>7, <1>8 DEF Calls

\* FactoryOwnership.dispose() touches every record at once; from here on
\* nothing untracked is tracked again.
LEMMA FactoryDisposesStep ==
  ASSUME IInv, FactoryDisposes
  PROVE  IInv'
<1>1. \A l \in Life :
        /\ LifeOK(life'[l])
        /\ life'[l].tracked = life[l].tracked /\ life'[l].pc = life[l].pc
  <2> TAKE l \in Life
  <2>1. LifeOK(life[l])
    BY DEF IInv
  <2>2. CASE life[l].tracked
    <3>1. life'[l] = DisposedLife(life[l])
      BY <2>2 DEF FactoryDisposes
    <3>2. CASE life[l].disposal = "none"
      <4>1. life[l].pc \in Scoped
        BY <2>1, <2>2, <3>2 DEF LifeOK, LifeType, DisposalOK, Scoped, Pcs, Settled
      <4> QED BY <2>1, <3>1, <4>1, DisposedLifeOK
    <3>3. CASE life[l].disposal # "none"
      BY <2>1, <3>1, <3>3 DEF DisposedLife
    <3> QED BY <3>2, <3>3
  <2>3. CASE ~life[l].tracked /\ life[l].pc = "loading"
    <3>1. life'[l] = AbortedLife(life[l])
      BY <2>3 DEF FactoryDisposes
    <3> QED BY <2>1, <3>1, AbortedLifeOK
  <2>4. CASE ~life[l].tracked /\ life[l].pc # "loading"
    <3>1. life'[l] = life[l]
      BY <2>4 DEF FactoryDisposes
    <3> QED BY <2>1, <3>1
  <2> QED BY <2>2, <2>3, <2>4
<1>2. TypeOK'
  <2>1. life' \in [Life -> LifeType]
    BY <1>1 DEF FactoryDisposes, LifeOK
  <2>2. awaited' \in [agents : SUBSET Life, tasks : SUBSET Life]
    BY DEF FactoryDisposes
  <2> QED BY <2>1, <2>2 DEF FactoryDisposes, IInv, TypeOK, registryVars
<1>3. RegisteredOK'
  BY <1>1 DEF FactoryDisposes, IInv, RegisteredOK, registryVars
<1>4. AwaitedOK'
  <2>1. awaited'.agents = {l \in Life : life[l].tracked}
        /\ awaited'.tasks = {l \in Life : Unsettled(l)}
    BY DEF FactoryDisposes
  <2>2. factory' = "disposing"
    BY DEF FactoryDisposes
  <2> QED BY <1>1, <2>1, <2>2 DEF AwaitedOK, Unsettled, Begun
<1> QED BY <1>1, <1>2, <1>3, <1>4 DEF IInv

LEMMA Inductive == IInv /\ [Next]_vars => IInv'
<1> SUFFICES ASSUME IInv, [Next]_vars
             PROVE  IInv'
  OBVIOUS
<1>1. CASE UNCHANGED vars
  BY <1>1 DEF vars, IInv, TypeOK, RegisteredOK, AwaitedOK, FactoryWaited, Unsettled, Begun
<1>2. ASSUME NEW l \in Life, Continues(l)
      PROVE  IInv'
  BY <1>2, ContinuesStep
<1>3. ASSUME NEW l \in Life, Calls(l)
      PROVE  IInv'
  BY <1>3, CallsStep
<1>4. ASSUME NEW o \in Owner, OwnerUnloads(o) \/ OwnerGone(o)
      PROVE  IInv'
  BY <1>4 DEF OwnerUnloads, OwnerGone, registryVars, IInv, TypeOK, RegisteredOK,
              AwaitedOK, FactoryWaited, Unsettled, Begun
<1>5. CASE FactoryUnloads
  BY <1>5 DEF FactoryUnloads, registryVars, IInv, TypeOK, RegisteredOK, AwaitedOK
<1>6. CASE FactoryDisposes
  BY <1>6, FactoryDisposesStep
<1>7. CASE FactoryGone
  BY <1>7 DEF FactoryGone, registryVars, IInv, TypeOK, RegisteredOK, AwaitedOK,
              FactoryWaited, Unsettled, Begun
<1> QED BY <1>1, <1>2, <1>3, <1>4, <1>5, <1>6, <1>7 DEF Next, Unloads

LEMMA InitOK == Init => IInv
  BY LifeAssumption
  DEF Init, IInv, TypeOK, LifeOK, LifeType, DisposalOK, PreparationOK, EdgesOK,
      RegisteredOK, AwaitedOK, Scoped, Sync, Settled, Pcs

\* The invariant implies what the runs check.
LEMMA Consequences ==
  ASSUME IInv
  PROVE  LifecycleInv /\ FailureLeavesNothing /\ FactoryTeardownIsQuiescent
<1>1. LifecycleInv
  <2>1. ASSUME NEW l \in Life, l \in {sessions, agents}
        PROVE  life[l].tracked /\ (life[l].following \/ life[l].disposal = "running")
    <3>1. LifeOK(life[l]) /\ life[l].tracked /\ life[l].pc \in Published
      BY <2>1 DEF IInv, RegisteredOK
    <3>2. life[l].pc \in Scoped
      BY <3>1 DEF Published, Scoped, Sync
    <3> QED BY <3>1, <3>2 DEF LifeOK, LifeType, DisposalOK
  <2> QED BY <2>1 DEF IInv, LifecycleInv, RegisteredIsOwned, RegistriesAgree, RegisteredOK
<1>2. FailureLeavesNothing
  <2>1. ASSUME NEW l \in Life, life[l].pc = "failed"
        PROVE  l \notin {sessions, agents} /\ life[l].preparation # "held"
    <3>1. LifeOK(life[l])
      BY DEF IInv
    <3> QED BY <2>1, <3>1 DEF IInv, RegisteredOK, Published, LifeOK, PreparationOK, Settled
  <2>2. \A l \in Life :
          life[l].disposed = IF life[l].disposal = "done" THEN life[l].created ELSE {}
    BY DEF IInv, LifeOK, EdgesOK
  <2> QED BY <2>1, <2>2 DEF FailureLeavesNothing
<1>3. FactoryTeardownIsQuiescent
  <2> SUFFICES ASSUME factory = "gone"
               PROVE  /\ sessions = None /\ agents = None
                      /\ \A l \in Life : ~Unsettled(l) /\ life[l].disposal # "running"
    BY DEF FactoryTeardownIsQuiescent
  <2>1. \A l \in Life : life[l].tracked => life[l].disposal = "done"
    BY DEF IInv, AwaitedOK, FactoryWaited
  <2>2. \A l \in Life : ~Unsettled(l)
    BY DEF IInv, AwaitedOK, FactoryWaited, Unsettled
  <2>3. \A l \in Life : ~life[l].tracked /\ life[l].disposal # "running"
    <3> TAKE l \in Life
    <3>1. LifeOK(life[l])
      BY DEF IInv
    <3> QED BY <2>1, <3>1 DEF LifeOK, LifeType, DisposalOK, Scoped, Pcs, Settled
  <2>4. sessions = None /\ agents = None
    BY <2>3 DEF IInv, TypeOK, RegisteredOK
  <2> QED BY <2>2, <2>3, <2>4
<1> QED BY <1>1, <1>2, <1>3

-----------------------------------------------------------------------------
(* Theorems *)

\* Every reachable state satisfies the inductive invariant.
THEOREM LifecycleIsInductive == Spec => []IInv
<1>1. IInv /\ [Next]_vars => IInv'
  BY Inductive
<1>2. Init => IInv
  BY InitOK
<1> QED BY <1>1, <1>2, PTL DEF Spec

\* At every await and inside every publication listener, whoever is registered
\* is registered with its own session, is tracked by the factory, and is being
\* disposed or will be when its owner unloads (prepare(), publish(), dispose()).
THEOREM RegisteredAgentsAreOwned == Spec => []LifecycleInv
<1>1. IInv => LifecycleInv
  BY Consequences
<1> QED BY <1>1, LifecycleIsInductive, PTL

\* A creation that was refused, aborted, vetoed or overtaken by its owner leaves
\* no registration and no reserved preparation (the finally blocks of
\* setupAndPublish() and resume(), releaseAbandoned), and a finished dispose()
\* has announced exactly the creation edges that were announced.
THEOREM FailedCreationLeavesNothing == Spec => []FailureLeavesNothing
<1>1. IInv => FailureLeavesNothing
  BY Consequences
<1> QED BY <1>1, LifecycleIsInductive, PTL

\* FactoryOwnership.dispose() resolves only when nothing of the factory is left:
\* no registration, no creation that could still publish, no running disposal.
THEOREM FactoryTeardown == Spec => []FactoryTeardownIsQuiescent
<1>1. IInv => FactoryTeardownIsQuiescent
  BY Consequences
<1> QED BY <1>1, LifecycleIsInductive, PTL
=============================================================================
