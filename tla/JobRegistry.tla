----------------------------- MODULE JobRegistry -----------------------------
(***************************************************************************)
(* LocalJobRegistry (jobs/jobs-local/src/index.ts): background jobs, the   *)
(* waits on them, the completion notices and the two teardowns.            *)
(*                                                                         *)
(* Every method is synchronous up to its first await, so each one, and     *)
(* each continuation after an await, is one action.  A wait that has been  *)
(* resolved continues in a later one: between the two the job still counts *)
(* it.                                                                     *)
(***************************************************************************)
EXTENDS Naturals, FiniteSets

CONSTANTS
  Job,              \* identities issued by start(), each at most once
  Owner,            \* agents that may own jobs
  NoOwner,          \* the owner of an unowned job
  Waiter,           \* calls of wait(), each at most once
  MaxActive,        \* config.maxConcurrentJobsPerOwner
  Outcomes          \* terminal statuses that producers report

ASSUME JobAssumption ==
  /\ MaxActive \in Nat \ {0} /\ NoOwner \notin Owner /\ IsFiniteSet(Job)
  /\ Outcomes \subseteq {"completed", "killed", "failed"} /\ Outcomes # {}

VARIABLES
  store,            \* jobs in the registry
  owner,            \* owner of each started job
  status,           \* status of each job record, "absent" before start()
  reported,         \* job.reported
  producer,         \* external: whether the producer's done promise is settled
  announced,        \* what completion listeners were told of each job
  claimed,          \* history: kill() or teardown took the terminal report
  waitOf,           \* the job each wait() call is about
  waitState,        \* progress of each wait() call
  closing,          \* progress of disposeAll(); listenersClosed
  attached,         \* keys of ownerCleanups
  ownerState,       \* external: lifecycle of each owner's scope
  draining          \* jobs each disposeOwned() or disposeAll() awaits

vars == <<store, owner, status, reported, producer, announced, claimed, waitOf,
          waitState, closing, attached, ownerState, draining>>
storeVars == <<store, owner>>
outcomeVars == <<reported, announced, claimed>>
waitVars == <<waitOf, waitState>>
lifeVars == <<closing, attached, ownerState, draining>>

Owners == Owner \union {NoOwner}
Service == "service"                 \* the drain of disposeAll()
Terminal == {"completed", "killed", "failed"}
Active == {"running", "stopping"}
Counted == {"waiting", "timedOut", "released"}

\* The service is not an agent.
ASSUME ServiceAssumption == Service \notin Owner

TypeOK ==
  /\ store \subseteq Job
  /\ owner \in [Job -> Owners]
  /\ status \in [Job -> Active \union Terminal \union {"absent"}]
  /\ reported \in [Job -> BOOLEAN] /\ claimed \in [Job -> BOOLEAN]
  /\ producer \in [Job -> {"none", "working", "settled"}]
  /\ announced \in [Job -> {"none", "notice", "suppressed", "closed"}]
  /\ waitOf \in [Waiter -> Job]
  /\ waitState \in [Waiter -> Counted \union {"new", "rejected", "running", "terminal"}]
  /\ closing \in {"open", "draining", "closed"}
  /\ attached \subseteq Owner
  /\ ownerState \in [Owner -> {"live", "disposing", "gone"}]
  /\ draining \in [Owner \union {Service} -> SUBSET Job]

\* Mutants: an aborted wait stays counted; a timed-out wait is uncounted before
\* it continues.
IsAwaitedAfterAbort(j) ==
  \E w \in Waiter : waitOf[w] = j /\ waitState[w] \in Counted \union {"rejected"}

IsAwaitedUntilDeadline(j) ==
  \E w \in Waiter : waitOf[w] = j /\ waitState[w] = "waiting"

\* job.waiters > 0
IsAwaited(j) == \E w \in Waiter : waitOf[w] = j /\ waitState[w] \in Counted

Started(j) == status[j] # "absent"
IsTerminal(j) == status[j] \in Terminal

ActiveCount(o) ==
  Cardinality({j \in store : owner[j] = o /\ status[j] \in Active})

-----------------------------------------------------------------------------
\* start(): a live owner, room under its limit, and a service not disposed
\* (a call reaches a service only while its fiber is active).
Start(j, o) ==
  /\ closing = "open" /\ ~Started(j)
  /\ o # NoOwner => ownerState[o] = "live" \/ o \in attached
  /\ ActiveCount(o) < MaxActive
  /\ attached' = IF o = NoOwner THEN attached ELSE attached \union {o}
  /\ store' = store \union {j}
  /\ owner' = [owner EXCEPT ![j] = o]
  /\ status' = [status EXCEPT ![j] = "running"]
  /\ producer' = [producer EXCEPT ![j] = "working"]
  /\ UNCHANGED <<outcomeVars, waitVars, closing, ownerState, draining>>

\* settle(): the jobs in set get their first terminal record; isReported holds
\* after earlier effects of the same call.  Waiters are released before the
\* completion listeners see the record.
SettleAll(set, outcome, isReported) ==
  /\ status' = [j \in Job |-> IF j \in set THEN outcome ELSE status[j]]
  /\ reported' = [j \in Job |->
       isReported[j] \/ (j \in set /\ IsAwaited(j))]
  /\ waitState' = [w \in Waiter |->
       IF waitOf[w] \in set /\ waitState[w] = "waiting" THEN "released"
                                                        ELSE waitState[w]]
  /\ announced' = [j \in Job |->
       IF j \notin set THEN announced[j]
       ELSE IF closing # "open" THEN "closed"
       ELSE IF isReported[j] \/ IsAwaited(j) THEN "suppressed" ELSE "notice"]

\* The producer's done promise settles; a later outcome than the first is void.
ProducerSettles(j, outcome) ==
  /\ producer[j] = "working"
  /\ producer' = [producer EXCEPT ![j] = "settled"]
  /\ SettleAll(IF IsTerminal(j) THEN {} ELSE {j}, outcome, reported)
  /\ UNCHANGED <<storeVars, claimed, waitOf, lifeVars>>

\* read(): a terminal read counts as the report.
Read(j) ==
  /\ j \in store /\ IsTerminal(j)
  /\ reported' = [reported EXCEPT ![j] = TRUE]
  /\ UNCHANGED <<storeVars, status, producer, announced, claimed, waitVars,
                 lifeVars>>

\* kill(); a cancel that throws leaves the record as it was.  Killing a finished
\* job only reports it.
Kill(j) ==
  /\ j \in store
  /\ status' = [status EXCEPT ![j] = IF IsTerminal(j) THEN @ ELSE "stopping"]
  /\ reported' = [reported EXCEPT ![j] = TRUE]
  /\ claimed' = [claimed EXCEPT ![j] = @ \/ ~IsTerminal(j)]
  /\ UNCHANGED <<storeVars, producer, announced, waitVars, lifeVars>>

-----------------------------------------------------------------------------
(* wait() *)

Wait(w) ==
  LET j == waitOf[w]
  IN  /\ waitState[w] = "new" /\ j \in store
      /\ waitState' = [waitState EXCEPT ![w] =
                         IF IsTerminal(j) THEN "terminal" ELSE "waiting"]
      /\ reported' = [reported EXCEPT ![j] = @ \/ IsTerminal(j)]
  /\ UNCHANGED <<storeVars, status, producer, announced, claimed, waitOf,
                 lifeVars>>

\* The deadline resolves the wait, which stays counted until it continues.
WaitTimeout(w) ==
  /\ waitState[w] = "waiting"
  /\ waitState' = [waitState EXCEPT ![w] = "timedOut"]
  /\ UNCHANGED <<storeVars, status, outcomeVars, producer, waitOf, lifeVars>>

\* The caller aborts: uncounted in the same job that rejects the wait.
WaitAbort(w) ==
  /\ waitState[w] = "waiting"
  /\ waitState' = [waitState EXCEPT ![w] = "rejected"]
  /\ UNCHANGED <<storeVars, status, outcomeVars, producer, waitOf, lifeVars>>

\* Mutant: settlement does not resolve a wait.
WaitReturnsOnDeadline(w) ==
  /\ waitState[w] = "timedOut"
  /\ waitState' = [waitState EXCEPT ![w] =
                     IF IsTerminal(waitOf[w]) THEN "terminal" ELSE "running"]
  /\ reported' = [reported EXCEPT ![waitOf[w]] = @ \/ IsTerminal(waitOf[w])]
  /\ UNCHANGED <<storeVars, status, producer, announced, claimed, waitOf,
                 lifeVars>>

\* The continuation of a resolved wait returns a fresh snapshot.
WaitReturns(w) ==
  /\ waitState[w] \in {"timedOut", "released"}
  /\ waitState' = [waitState EXCEPT ![w] =
                     IF IsTerminal(waitOf[w]) THEN "terminal" ELSE "running"]
  /\ reported' = [reported EXCEPT ![waitOf[w]] = @ \/ IsTerminal(waitOf[w])]
  /\ UNCHANGED <<storeVars, status, producer, announced, claimed, waitOf,
                 lifeVars>>

-----------------------------------------------------------------------------
(* Teardown *)

\* Mutant: a cancel that throws leaves its job running.
CancelNeverForces(set, orphans) ==
  LET live == {j \in set : ~IsTerminal(j)}
  IN  /\ orphans \subseteq live
      /\ claimed' = [j \in Job |-> claimed[j] \/ j \in live]
      /\ reported' = [j \in Job |-> reported[j] \/ j \in live]
      /\ status' = [j \in Job |-> IF j \in live \ orphans THEN "stopping" ELSE status[j]]
      /\ UNCHANGED <<waitState, announced>>

\* cancelForTeardown() over the live jobs of set: the ones in orphans throw
\* from cancel and are forced to fail, the others are stopping.
CancelForTeardown(set, orphans) ==
  LET live == {j \in set : ~IsTerminal(j)}
      isReported == [j \in Job |-> reported[j] \/ j \in live]
  IN  /\ orphans \subseteq live
      /\ claimed' = [j \in Job |-> claimed[j] \/ j \in live]
      /\ reported' = isReported
      /\ status' = [j \in Job |-> IF j \in orphans THEN "failed"
                                  ELSE IF j \in live THEN "stopping" ELSE status[j]]
      /\ waitState' = [w \in Waiter |->
           IF waitOf[w] \in orphans /\ waitState[w] = "waiting" THEN "released"
                                                                ELSE waitState[w]]
      /\ announced' = [j \in Job |->
           IF j \notin orphans THEN announced[j]
           ELSE IF closing' # "open" THEN "closed" ELSE "suppressed"]

\* The owner's scope unwinds; the registry's cleanup may not run at once.
OwnerScopeDisposes(o) ==
  /\ ownerState[o] = "live"
  /\ ownerState' = [ownerState EXCEPT ![o] = IF o \in attached THEN "disposing" ELSE "gone"]
  /\ UNCHANGED <<storeVars, status, outcomeVars, producer, waitVars, closing,
                 attached, draining>>

\* The owner's cleanup: forget the attachment, then disposeOwned().
DisposeOwned(o, orphans) ==
  /\ ownerState[o] = "disposing" /\ o \in attached
  /\ attached' = attached \ {o}
  /\ draining' = [draining EXCEPT ![o] = {j \in store : owner[j] = o}]
  /\ UNCHANGED <<storeVars, producer, waitOf, closing, ownerState>>
  /\ CancelForTeardown({j \in store : owner[j] = o}, orphans)

\* Every awaited job has settled: drop the records.
OwnedDisposed(o) ==
  /\ ownerState[o] = "disposing" /\ o \notin attached
  /\ \A j \in draining[o] : IsTerminal(j)
  /\ store' = store \ draining[o]
  /\ draining' = [draining EXCEPT ![o] = {}]
  /\ ownerState' = [ownerState EXCEPT ![o] = "gone"]
  /\ UNCHANGED <<owner, status, outcomeVars, producer, waitVars, closing,
                 attached>>

DisposeAll(orphans) ==
  /\ closing = "open"
  /\ closing' = "draining"
  /\ draining' = [draining EXCEPT ![Service] = store]
  /\ UNCHANGED <<storeVars, producer, waitOf, attached, ownerState>>
  /\ CancelForTeardown(store, orphans)

\* Mutant: service disposal does not await the jobs.
AllDisposedAtOnce ==
  /\ closing = "draining" /\ closing' = "closed"
  /\ store' = {} /\ attached' = {}
  /\ draining' = [draining EXCEPT ![Service] = {}]
  /\ UNCHANGED <<owner, status, outcomeVars, producer, waitVars, ownerState>>

\* The store is quiescent: clear it and detach the owners' cleanups.
AllDisposed ==
  /\ closing = "draining"
  /\ \A j \in draining[Service] : IsTerminal(j)
  /\ closing' = "closed"
  /\ store' = {}
  /\ draining' = [draining EXCEPT ![Service] = {}]
  /\ attached' = {}
  /\ UNCHANGED <<owner, status, outcomeVars, producer, waitVars, ownerState>>

-----------------------------------------------------------------------------
Init ==
  /\ store = {}
  /\ owner = [j \in Job |-> NoOwner]
  /\ status = [j \in Job |-> "absent"]
  /\ reported = [j \in Job |-> FALSE] /\ claimed = [j \in Job |-> FALSE]
  /\ producer = [j \in Job |-> "none"]
  /\ announced = [j \in Job |-> "none"]
  /\ waitOf \in [Waiter -> Job]
  /\ waitState = [w \in Waiter |-> "new"]
  /\ closing = "open"
  /\ attached = {}
  /\ ownerState = [o \in Owner |-> "live"]
  /\ draining = [o \in Owner \union {Service} |-> {}]

Producer == \E j \in Job, outcome \in Outcomes : ProducerSettles(j, outcome)

Calls ==
  \/ \E j \in Job, o \in Owners : Start(j, o)
  \/ \E j \in Job : Read(j) \/ Kill(j)
  \/ \E w \in Waiter : Wait(w) \/ WaitAbort(w)

Continuations ==
  \/ \E w \in Waiter : WaitTimeout(w) \/ WaitReturns(w)
  \/ \E o \in Owner, orphans \in SUBSET Job : DisposeOwned(o, orphans)
  \/ \E o \in Owner : OwnedDisposed(o)
  \/ AllDisposed

Teardowns ==
  \/ \E o \in Owner : OwnerScopeDisposes(o)
  \/ \E orphans \in SUBSET Job : DisposeAll(orphans)

Next == Producer \/ Calls \/ Continuations \/ Teardowns

Spec == Init /\ [][Next]_vars

\* Timers and continuations run; a producer settles once it was cancelled
\* (JobHooks.cancel must eventually settle done).
FairSpec ==
  /\ Spec /\ WF_vars(Continuations)
  /\ \A j \in Job : WF_vars(status[j] = "stopping"
                            /\ \E outcome \in Outcomes : ProducerSettles(j, outcome))

-----------------------------------------------------------------------------
(* Properties *)

\* A completion notice withheld from the listeners is delivered otherwise: the
\* job was killed or torn down, or a wait returns, or returned, the terminal
\* record.  (settle() counts waiters; a timed-out wait counts until it
\* continues, an aborted one must not.)
SuppressedNoticeHasReader ==
  \A j \in Job : announced[j] = "suppressed" =>
    \/ claimed[j]
    \/ \E w \in Waiter : waitOf[w] = j /\ waitState[w] \in {"released", "timedOut", "terminal"}

\* Nor is it delivered twice: no wait that was pending at the settlement is
\* about to return a record the listeners were told to report.
NoticeIsNotRepeated ==
  \A w \in Waiter : waitState[w] \in {"released", "timedOut"} =>
    announced[waitOf[w]] # "notice"

\* Agent disposal joins the agent's jobs, service disposal joins all: none is
\* active afterwards, not even one started while the owner's scope unwound.
TeardownIsQuiescent ==
  \A j \in Job : status[j] \in Active =>
    /\ closing # "closed"
    /\ owner[j] # NoOwner => ownerState[owner[j]] # "gone"

\* What holds of the registry at every await of its callers and disposers.
RegistryInv == TypeOK /\ TeardownIsQuiescent

\* A wait ends, whatever happens to its job.
WaitsReturn ==
  \A w \in Waiter : waitState[w] = "waiting" ~>
    waitState[w] \in {"rejected", "running", "terminal"}

\* Agent disposal is not held up for ever by its jobs.
OwnerTeardownFinishes ==
  \A o \in Owner : ownerState[o] = "disposing" ~> ownerState[o] = "gone"
=============================================================================
