--------------------------- MODULE AgentLifecycle ---------------------------
(***************************************************************************)
(* The life of an agent outside its loop (core/agent-loop/src/index.ts):   *)
(* createAgent() and resume() up to the published handle, the memoized     *)
(* dispose(), and the three that may end it: the caller's signal, the      *)
(* owner's fiber and the factory.  All creations share one identity, the   *)
(* key of the two registries (SessionStore, AgentRegistry).                *)
(*                                                                         *)
(* An action is one synchronous stretch.  Publication and the minting of   *)
(* the scope run listeners inside theirs: those stretches are cut at the   *)
(* listeners (Sync), and in between only what a listener may call happens: *)
(* an abort, or the start of an unload.  The loop itself is AgentLoop; its *)
(* wait for quiescence is here the time dispose() takes.                   *)
(***************************************************************************)
EXTENDS Naturals, FiniteSets

CONSTANTS
  Life,              \* calls of createAgent() and resume(), each at most once
  Owner,             \* the fibers that call them
  None               \* no occupant

ASSUME LifeAssumption == None \notin Life /\ IsFiniteSet(Life)

VARIABLES
  life,              \* each creation and the agent it makes
  ownerOf,           \* the fiber that called it
  sessions,          \* occupant of the identity in the session store
  agents,            \* occupant of the identity in the agent registry
  owner,             \* state of each owner's fiber
  factory,           \* state of the factory's fiber and of its ownership
  awaited            \* what FactoryOwnership.dispose() waits for

vars == <<life, ownerOf, sessions, agents, owner, factory, awaited>>
registryVars == <<sessions, agents>>
fiberVars == <<ownerOf, owner, factory, awaited>>

Sync == {"minting", "sessionAnnounce", "agentAnnounce", "sessionStart"}
Settled == {"live", "failed"}
Pcs == {"none", "loading", "loaded", "setup", "rollback"} \union Sync \union Settled

LifeType ==
  [pc : Pcs,
   race : {"none", "pending", "ok", "error"},     \* raceAbort's promise
   cancelled : BOOLEAN,                           \* the caller's signal
   aborted : BOOLEAN,                             \* the fused signal
   disposal : {"none", "running", "done"},        \* the memoized dispose()
   byOwner : BOOLEAN,                             \* ownerTriggered
   following : BOOLEAN,                           \* an effect on the owner
   tracked : BOOLEAN,                             \* in liveAgents
   preparation : {"none", "pending", "held", "released"},
   created : SUBSET {"session", "agent"},         \* creation edges announced
   disposed : SUBSET {"session", "agent"}]        \* disposal edges emitted

TypeOK ==
  /\ life \in [Life -> LifeType] /\ ownerOf \in [Life -> Owner]
  /\ sessions \in Life \union {None} /\ agents \in Life \union {None}
  /\ owner \in [Owner -> {"active", "unloading", "gone"}]
  /\ factory \in {"active", "unloading", "disposing", "gone"}
  /\ awaited \in [agents : SUBSET Life, tasks : SUBSET Life]

InSync == \E l \in Life : life[l].pc \in Sync
Begun(l) == life[l].pc # "none"
Unsettled(l) == Begun(l) /\ life[l].pc \notin Settled

-----------------------------------------------------------------------------
(* Parts of a life's record *)

\* Mutant: an abort does not end the wait for the setup or the load.
AbortedUnheard(r) == [r EXCEPT !.aborted = TRUE]

\* The fused signal aborts: a pending race is lost.
AbortedLife(r) ==
  [r EXCEPT !.aborted = TRUE, !.race = IF @ = "pending" THEN "error" ELSE @]

\* dispose() up to its first await; a second call joins the first.
DisposedLife(r) ==
  IF r.disposal # "none" THEN r ELSE [AbortedLife(r) EXCEPT !.disposal = "running"]

ReleasedLife(r) ==
  [r EXCEPT !.preparation = IF @ = "held" THEN "released" ELSE @]

FailedLife(r) == [ReleasedLife(r) EXCEPT !.pc = "failed"]

\* prepare() up to the minting of the scope.
MintingLife(r) == [r EXCEPT !.pc = "minting", !.following = TRUE, !.tracked = TRUE]

\* setupAndPublish() catches: it awaits the disposal.
RollbackLife(r) == [DisposedLife(r) EXCEPT !.pc = "rollback"]

Become(l, r) == life' = [life EXCEPT ![l] = r]

-----------------------------------------------------------------------------
(* createAgent(), resume() *)

\* Mutant: the factory is not asked again after the load.
MayPrepareUnasked(l) == owner[ownerOf[l]] = "active" /\ ~life[l].cancelled

\* prepare(): an active owner, an active factory, a caller who still wants it.
MayPrepare(l) ==
  owner[ownerOf[l]] = "active" /\ factory = "active" /\ ~life[l].cancelled

\* A service method runs only for active fibers.
Callable(l) ==
  /\ ~InSync /\ ~Begun(l)
  /\ owner[ownerOf[l]] = "active" /\ factory = "active"

\* createAgent() is refused at once while the identity is in the store.
CreateAgent(l) ==
  /\ Callable(l) /\ sessions = None
  /\ Become(l, MintingLife(life[l]))
  /\ UNCHANGED <<registryVars, fiberVars>>

\* resume() races persistence.prepare() against the fused signal.
Resume(l) ==
  /\ Callable(l)
  /\ Become(l, [life[l] EXCEPT !.pc = "loading", !.race = "pending",
                               !.following = TRUE, !.preparation = "pending"])
  /\ UNCHANGED <<registryVars, fiberVars>>

\* Mutant: a preparation that arrives too late is kept.
KeptLate(r) == [r EXCEPT !.preparation = "held"]

\* releaseAbandoned: a preparation that arrives too late is given back.
Abandoned(r) == [r EXCEPT !.preparation = "released"]

\* The backend answers, or never does; it reserves an identity for one caller.
PrepareSettles(l, ok) ==
  /\ ~InSync /\ life[l].preparation = "pending"
  /\ ok => \A m \in Life : life[m].preparation # "held"
  /\ Become(l,
       IF ~ok THEN [life[l] EXCEPT !.preparation = "none",
                                   !.race = IF @ = "pending" THEN "error" ELSE @]
       ELSE IF life[l].race = "pending"
            THEN [life[l] EXCEPT !.preparation = "held", !.race = "ok"]
            ELSE Abandoned(life[l]))
  /\ UNCHANGED <<registryVars, fiberVars>>

\* After the race: the load stops following the owner.
Loaded(l) ==
  /\ ~InSync /\ life[l].pc = "loading" /\ life[l].race # "pending"
  /\ Become(l, [life[l] EXCEPT !.following = FALSE,
                               !.pc = IF life[l].race = "ok" THEN "loaded" ELSE "failed"])
  /\ UNCHANGED <<registryVars, fiberVars>>

\* The owner and the factory are asked again; then as createAgent().
Acquire(l) ==
  /\ ~InSync /\ life[l].pc = "loaded"
  /\ Become(l, IF MayPrepare(l) THEN MintingLife(life[l]) ELSE FailedLife(life[l]))
  /\ UNCHANGED <<registryVars, fiberVars>>

\* The scope exists; an abort from one of its listeners ends the creation at
\* once, with its disposal on the way.  Otherwise the setup is called.
Minted(l) ==
  /\ life[l].pc = "minting"
  /\ Become(l, IF life[l].aborted THEN FailedLife(DisposedLife(life[l]))
               ELSE [life[l] EXCEPT !.pc = "setup", !.race = "pending"])
  /\ UNCHANGED <<registryVars, fiberVars>>

SetupSettles(l, outcome) ==
  /\ ~InSync /\ life[l].pc = "setup" /\ life[l].race = "pending"
  /\ Become(l, [life[l] EXCEPT !.race = outcome])
  /\ UNCHANGED <<registryVars, fiberVars>>

\* The setup failed or was aborted, its commit throws, or the identity is taken.
SetupFails(l) ==
  /\ ~InSync /\ life[l].pc = "setup" /\ life[l].race # "pending"
  /\ Become(l, RollbackLife(life[l]))
  /\ UNCHANGED <<registryVars, fiberVars>>

\* publish(): assertLive, and both registries accept the identity.
MayPublish(l) == ~life[l].aborted /\ sessions = None /\ agents = None

\* publish() up to the listeners of session/created.
Publish(l) ==
  /\ ~InSync /\ life[l].pc = "setup" /\ life[l].race = "ok"
  /\ MayPublish(l)
  /\ sessions' = l /\ agents' = l
  /\ Become(l, [life[l] EXCEPT !.pc = "sessionAnnounce", !.created = {"session"}])
  /\ UNCHANGED fiberVars

\* A listener vetoed by throwing, or aborted the signal: roll back.
Vetoed(l) ==
  /\ life[l].pc \in {"sessionAnnounce", "agentAnnounce"}
  /\ Become(l, RollbackLife(life[l]))
  /\ UNCHANGED <<registryVars, fiberVars>>

SessionAnnounced(l) ==
  /\ life[l].pc = "sessionAnnounce" /\ ~life[l].aborted
  /\ Become(l, [life[l] EXCEPT !.pc = "agentAnnounce", !.created = {"session", "agent"}])
  /\ UNCHANGED <<registryVars, fiberVars>>

AgentAnnounced(l) ==
  /\ life[l].pc = "agentAnnounce" /\ ~life[l].aborted
  /\ Become(l, [life[l] EXCEPT !.pc = "sessionStart"])
  /\ UNCHANGED <<registryVars, fiberVars>>

\* The listeners of agent/session-start are contained; the signal is asked a
\* last time.  Leaving the function releases the preparation.
SessionStarted(l) ==
  /\ life[l].pc = "sessionStart"
  /\ Become(l, IF life[l].aborted THEN RollbackLife(life[l])
               ELSE [ReleasedLife(life[l]) EXCEPT !.pc = "live"])
  /\ UNCHANGED <<registryVars, fiberVars>>

RolledBack(l) ==
  /\ ~InSync /\ life[l].pc = "rollback" /\ life[l].disposal = "done"
  /\ Become(l, FailedLife(life[l]))
  /\ UNCHANGED <<registryVars, fiberVars>>

-----------------------------------------------------------------------------
(* dispose() *)

HandleDispose(l) ==
  /\ life[l].pc = "live" /\ life[l].disposal = "none"
  /\ Become(l, DisposedLife(life[l]))
  /\ UNCHANGED <<registryVars, fiberVars>>

\* The paired edges: a creation that was announced, even if one of its
\* listeners vetoed it.
DisposalEdges(l) == life[l].created

\* Mutant: the agent leaves, its session stays.
WithoutAgentOnly(l) == sessions' = sessions /\ agents' = IF agents = l THEN None ELSE agents

\* detachAgent, detachSession: each removes this exact entry.
Without(l) ==
  /\ sessions' = IF sessions = l THEN None ELSE sessions
  /\ agents' = IF agents = l THEN None ELSE agents

\* The loop is idle and the scope unwound: leave the registries, forget the
\* teardown and, unless it called, stop following the owner.
Quiesced(l) ==
  /\ ~InSync /\ life[l].disposal = "running"
  /\ Become(l, [life[l] EXCEPT !.disposal = "done", !.tracked = FALSE,
                               !.following = FALSE, !.disposed = DisposalEdges(l)])
  /\ Without(l)
  /\ UNCHANGED fiberVars

-----------------------------------------------------------------------------
(* The caller's signal, the owner's fiber, the factory *)

\* The signal is about the creation: before it, the call is refused at once;
\* after it, nothing reads the fused signal any more.
CallerAborts(l) ==
  /\ Unsettled(l) /\ ~life[l].cancelled
  /\ Become(l, IF life[l].disposal = "none"
               THEN [AbortedLife(life[l]) EXCEPT !.cancelled = TRUE]
               ELSE [life[l] EXCEPT !.cancelled = TRUE])
  /\ UNCHANGED <<registryVars, fiberVars>>

\* The fiber is inactive from now on; its effects are disposed a moment later.
OwnerUnloads(o) ==
  /\ owner[o] = "active"
  /\ owner' = [owner EXCEPT ![o] = "unloading"]
  /\ UNCHANGED <<life, registryVars, ownerOf, factory, awaited>>

\* The effect of a load aborts it; the effect of a lifecycle disposes it and is
\* awaited, unless a disposal is already running.
OwnerEffect(l) ==
  /\ ~InSync /\ owner[ownerOf[l]] = "unloading" /\ life[l].following
  /\ Become(l,
       IF life[l].pc = "loading" THEN [AbortedLife(life[l]) EXCEPT !.following = FALSE]
       ELSE IF life[l].disposal # "none" THEN [life[l] EXCEPT !.following = FALSE]
       ELSE [DisposedLife(life[l]) EXCEPT !.following = FALSE, !.byOwner = TRUE])
  /\ UNCHANGED <<registryVars, fiberVars>>

OwnerGone(o) ==
  /\ ~InSync /\ owner[o] = "unloading"
  /\ \A l \in Life : ownerOf[l] = o =>
       ~life[l].following /\ (life[l].byOwner => life[l].disposal = "done")
  /\ owner' = [owner EXCEPT ![o] = "gone"]
  /\ UNCHANGED <<life, registryVars, ownerOf, factory, awaited>>

FactoryUnloads ==
  /\ factory = "active" /\ factory' = "unloading"
  /\ UNCHANGED <<life, registryVars, ownerOf, owner, awaited>>

\* FactoryOwnership.dispose(): abort what is under way, dispose every tracked
\* agent, and await these disposals and the creations.
FactoryDisposes ==
  /\ ~InSync /\ factory = "unloading" /\ factory' = "disposing"
  /\ awaited' = [agents |-> {l \in Life : life[l].tracked},
                 tasks |-> {l \in Life : Unsettled(l)}]
  /\ life' = [l \in Life |-> IF life[l].tracked THEN DisposedLife(life[l])
                             ELSE IF life[l].pc = "loading" THEN AbortedLife(life[l])
                             ELSE life[l]]
  /\ UNCHANGED <<registryVars, ownerOf, owner>>

\* Mutant: the loads themselves are awaited, which nothing can abort.
FactoryWaitsForLoads ==
  /\ \A l \in awaited.agents : life[l].disposal = "done"
  /\ \A l \in awaited.tasks : life[l].preparation # "pending"

\* The disposals it started and the creations under way have settled.
FactoryWaited ==
  /\ \A l \in awaited.agents : life[l].disposal = "done"
  /\ \A l \in awaited.tasks : life[l].pc \in Settled

FactoryGone ==
  /\ ~InSync /\ factory = "disposing" /\ FactoryWaited
  /\ factory' = "gone"
  /\ UNCHANGED <<life, registryVars, ownerOf, owner, awaited>>

-----------------------------------------------------------------------------
Init ==
  /\ life = [l \in Life |->
       [pc |-> "none", race |-> "none", cancelled |-> FALSE, aborted |-> FALSE,
        disposal |-> "none", byOwner |-> FALSE, following |-> FALSE,
        tracked |-> FALSE, preparation |-> "none", created |-> {}, disposed |-> {}]]
  /\ ownerOf \in [Life -> Owner]
  /\ sessions = None /\ agents = None
  /\ owner = [o \in Owner |-> "active"]
  /\ factory = "active"
  /\ awaited = [agents |-> {}, tasks |-> {}]

\* What the program does on its own once its promises have settled.
Continues(l) ==
  \/ Loaded(l) \/ Acquire(l) \/ Minted(l) \/ SetupFails(l) \/ Publish(l)
  \/ Vetoed(l) \/ SessionAnnounced(l) \/ AgentAnnounced(l) \/ SessionStarted(l)
  \/ RolledBack(l) \/ Quiesced(l) \/ OwnerEffect(l)

Unloads == \E o \in Owner : OwnerGone(o)

Calls(l) ==
  \/ CreateAgent(l) \/ Resume(l) \/ HandleDispose(l) \/ CallerAborts(l)
  \/ \E ok \in BOOLEAN : PrepareSettles(l, ok)
  \/ \E outcome \in {"ok", "error"} : SetupSettles(l, outcome)

Next ==
  \/ \E l \in Life : Continues(l) \/ Calls(l)
  \/ \E o \in Owner : OwnerUnloads(o)
  \/ Unloads \/ FactoryUnloads \/ FactoryDisposes \/ FactoryGone

Spec == Init /\ [][Next]_vars

\* Settled promises are continued, a disposal ends (AgentLoop: a cancelled
\* activity converges) and a fiber that unloads runs its disposers.  Neither
\* the setup nor the backend has to answer.
FairSpec ==
  /\ Spec
  /\ \A l \in Life : WF_vars(Continues(l))
  /\ WF_vars(Unloads) /\ WF_vars(FactoryDisposes) /\ WF_vars(FactoryGone)

-----------------------------------------------------------------------------
(* Properties *)

\* A registered agent is never out of its owners' reach: the factory tracks it,
\* and either its disposal is running or the owner's unload will start it.
RegisteredIsOwned ==
  \A l \in Life : l \in {sessions, agents} =>
    life[l].tracked /\ (life[l].following \/ life[l].disposal = "running")

\* The two registries agree on whose identity it is: an agent is registered
\* exactly with its own session, whoever comes and goes under the same id.
RegistriesAgree == agents = sessions

\* What holds of the registries and their owners at every await and inside
\* every listener of a publication.
LifecycleInv == TypeOK /\ RegisteredIsOwned /\ RegistriesAgree

\* A creation that was refused, aborted or vetoed leaves nothing behind: no
\* registration and no reserved preparation.  A finished dispose() has announced
\* the disposal of everything whose creation was announced, and nothing else.
FailureLeavesNothing ==
  \A l \in Life :
    /\ life[l].pc = "failed" => l \notin {sessions, agents} /\ life[l].preparation # "held"
    /\ life[l].disposed = IF life[l].disposal = "done" THEN life[l].created ELSE {}

\* When the factory is gone nothing of it remains: no registration, no creation
\* under way that could still publish, no disposal still running.
FactoryTeardownIsQuiescent ==
  factory = "gone" =>
    /\ sessions = None /\ agents = None
    /\ \A l \in Life : ~Unsettled(l) /\ life[l].disposal # "running"

\* An aborted creation answers although its setup or its load never settles,
\* and what was registered on the way leaves the registries.
AbortedCreationAnswers ==
  \A l \in Life : (Unsettled(l) /\ life[l].aborted) ~>
    (life[l].pc = "failed" /\ l \notin {sessions, agents})

\* Unloading the factory ends, whatever its setups and its backend do.
FactoryTeardownFinishes == (factory = "unloading") ~> (factory = "gone")

\* The same boundary for an owner: once its fiber has unloaded, none of its
\* agents is registered.
OwnerUnloadIsQuiescent ==
  \A l \in Life : owner[ownerOf[l]] = "gone" => l \notin {sessions, agents}
=============================================================================
