-------------------------- MODULE JobRegistryProofs --------------------------
(***************************************************************************)
(* Theorems about JobRegistry, for every set of jobs, owners and waits and *)
(* every concurrency limit.                                                *)
(*                                                                         *)
(* Teardown and notices need one invariant each.  For teardown: an active  *)
(* job is in the store, and somebody who has not finished answers for it.  *)
(* For notices: what is settled is terminal, so that a wait met by the     *)
(* settlement is exactly one that was counted by it.                       *)
(***************************************************************************)
EXTENDS JobRegistry, TLAPS

\* Whoever will join an active job: the service while it drains, and the owner,
\* whose cleanup is still attached or awaits the job.
ActiveIsJoined ==
  \A j \in Job : status[j] \in Active =>
    /\ j \in store /\ closing # "closed"
    /\ closing = "draining" => j \in draining[Service]
    /\ owner[j] \in Owner =>
         \/ owner[j] \in attached
         \/ ownerState[owner[j]] = "disposing" /\ j \in draining[owner[j]]

\* An attached cleanup has not run: its owner is not gone.
AttachedIsLive == \A o \in attached : ownerState[o] # "gone"

TeardownInv ==
  /\ TypeOK /\ ActiveIsJoined /\ AttachedIsLive
  /\ \A j \in store : Started(j)

\* Only a terminal record was announced, and a report before that was claimed.
AnnouncedIsTerminal == \A j \in Job : announced[j] # "none" => IsTerminal(j)

EarlyReportIsClaimed == \A j \in Job : reported[j] /\ ~IsTerminal(j) => claimed[j]

\* A wait that still waits is about a job that has not settled.
WaitingIsEarly ==
  \A w \in Waiter : waitState[w] = "waiting" => ~IsTerminal(waitOf[w])

NoticeInv ==
  /\ TypeOK /\ AnnouncedIsTerminal /\ EarlyReportIsClaimed /\ WaitingIsEarly
  /\ SuppressedNoticeHasReader /\ NoticeIsNotRepeated

-----------------------------------------------------------------------------
(* Types *)

\* settle() and cancelForTeardown() keep the types of what they write.
LEMMA SettleAllType ==
  ASSUME TypeOK, NEW set \in SUBSET Job, NEW outcome \in Terminal,
         SettleAll(set, outcome, reported)
  PROVE  /\ status' \in [Job -> Active \union Terminal \union {"absent"}]
         /\ reported' \in [Job -> BOOLEAN]
         /\ announced' \in [Job -> {"none", "notice", "suppressed", "closed"}]
         /\ waitState' \in [Waiter -> Counted \union {"new", "rejected", "running", "terminal"}]
<1>1. status' \in [Job -> Active \union Terminal \union {"absent"}]
  BY DEF SettleAll, TypeOK
<1>2. reported' \in [Job -> BOOLEAN]
  BY Zenon DEF SettleAll, TypeOK
<1>3. announced' \in [Job -> {"none", "notice", "suppressed", "closed"}]
  BY DEF SettleAll, TypeOK
<1>4. waitState' \in [Waiter -> Counted \union {"new", "rejected", "running", "terminal"}]
  BY DEF SettleAll, TypeOK, Counted
<1> QED BY <1>1, <1>2, <1>3, <1>4

LEMMA CancelForTeardownType ==
  ASSUME TypeOK, NEW set \in SUBSET Job, NEW orphans \in SUBSET Job,
         CancelForTeardown(set, orphans)
  PROVE  /\ status' \in [Job -> Active \union Terminal \union {"absent"}]
         /\ reported' \in [Job -> BOOLEAN] /\ claimed' \in [Job -> BOOLEAN]
         /\ announced' \in [Job -> {"none", "notice", "suppressed", "closed"}]
         /\ waitState' \in [Waiter -> Counted \union {"new", "rejected", "running", "terminal"}]
<1>1. status' \in [Job -> Active \union Terminal \union {"absent"}]
  BY DEF CancelForTeardown, TypeOK, Active, Terminal
<1>2. reported' \in [Job -> BOOLEAN] /\ claimed' \in [Job -> BOOLEAN]
  BY Zenon DEF CancelForTeardown, TypeOK
<1>3. announced' \in [Job -> {"none", "notice", "suppressed", "closed"}]
  BY DEF CancelForTeardown, TypeOK
<1>4. waitState' \in [Waiter -> Counted \union {"new", "rejected", "running", "terminal"}]
  BY DEF CancelForTeardown, TypeOK, Counted
<1> QED BY <1>1, <1>2, <1>3, <1>4

LEMMA TypeStep == TypeOK /\ [Next]_vars => TypeOK'
<1> SUFFICES ASSUME TypeOK, [Next]_vars
             PROVE  TypeOK'
  OBVIOUS
<1> USE DEF storeVars, outcomeVars, waitVars, lifeVars
<1>1. CASE UNCHANGED vars
  BY <1>1 DEF vars, TypeOK
<1>2. ASSUME NEW j \in Job, NEW outcome \in Outcomes, ProducerSettles(j, outcome)
      PROVE  TypeOK'
  <2> DEFINE set == IF IsTerminal(j) THEN {} ELSE {j}
  <2>1. outcome \in Terminal /\ set \in SUBSET Job
    BY JobAssumption DEF Terminal
  <2>2. SettleAll(set, outcome, reported)
    BY <1>2 DEF ProducerSettles
  <2> HIDE DEF set
  <2> QED BY <1>2, <2>1, <2>2, SettleAllType DEF ProducerSettles, TypeOK
<1>3. ASSUME NEW j \in Job, NEW o \in Owners, Start(j, o)
      PROVE  TypeOK'
  BY <1>3 DEF Start, TypeOK, Owners, Active
<1>4. ASSUME NEW j \in Job, Read(j)
      PROVE  TypeOK'
  BY <1>4 DEF Read, TypeOK
<1>5. ASSUME NEW j \in Job, Kill(j)
      PROVE  TypeOK'
  <2>1. reported' \in [Job -> BOOLEAN] /\ claimed' \in [Job -> BOOLEAN]
    BY <1>5, Zenon DEF Kill, TypeOK
  <2>2. status' \in [Job -> Active \union Terminal \union {"absent"}]
    BY <1>5 DEF Kill, TypeOK, Active
  <2> QED BY <1>5, <2>1, <2>2 DEF Kill, TypeOK
<1>6. ASSUME NEW w \in Waiter, Wait(w) \/ WaitReturns(w)
      PROVE  TypeOK'
  <2>1. reported' \in [Job -> BOOLEAN]
    BY <1>6, Zenon DEF Wait, WaitReturns, TypeOK
  <2>2. waitState' \in [Waiter -> Counted \union {"new", "rejected", "running", "terminal"}]
    BY <1>6 DEF Wait, WaitReturns, TypeOK, Counted
  <2> QED BY <1>6, <2>1, <2>2 DEF Wait, WaitReturns, TypeOK
<1>7. ASSUME NEW w \in Waiter, WaitAbort(w) \/ WaitTimeout(w)
      PROVE  TypeOK'
  BY <1>7 DEF WaitAbort, WaitTimeout, TypeOK, Counted
<1>8. ASSUME NEW o \in Owner, NEW orphans \in SUBSET Job, DisposeOwned(o, orphans)
      PROVE  TypeOK'
  <2> DEFINE set == {j \in store : owner[j] = o}
  <2>1. set \in SUBSET Job
    BY DEF TypeOK
  <2>2. CancelForTeardown(set, orphans)
    BY <1>8 DEF DisposeOwned
  <2>3. draining' \in [Owner \union {Service} -> SUBSET Job]
    BY <1>8, <2>1 DEF DisposeOwned, TypeOK
  <2> HIDE DEF set
  <2> QED BY <1>8, <2>1, <2>2, <2>3, CancelForTeardownType DEF DisposeOwned, TypeOK
<1>9. ASSUME NEW o \in Owner, OwnedDisposed(o) \/ OwnerScopeDisposes(o)
      PROVE  TypeOK'
  BY <1>9 DEF OwnedDisposed, OwnerScopeDisposes, TypeOK
<1>10. CASE AllDisposed
  BY <1>10 DEF AllDisposed, TypeOK
<1>11. ASSUME NEW orphans \in SUBSET Job, DisposeAll(orphans)
       PROVE  TypeOK'
  <2>1. CancelForTeardown(store, orphans) /\ store \in SUBSET Job
    BY <1>11 DEF DisposeAll, TypeOK
  <2> QED BY <1>11, <2>1, CancelForTeardownType DEF DisposeAll, TypeOK
<1> QED
  BY <1>1, <1>2, <1>3, <1>4, <1>5, <1>6, <1>7, <1>8, <1>9, <1>10, <1>11
  DEF Next, Producer, Calls, Continuations, Teardowns

-----------------------------------------------------------------------------
(* Teardown *)

\* cancelForTeardown() starts nothing and brings no record back.
LEMMA CancelKeeps ==
  ASSUME TypeOK, \A j \in store : Started(j), store' = store,
         NEW set \in SUBSET store, NEW orphans, CancelForTeardown(set, orphans)
  PROVE  /\ \A k \in Job : status'[k] \in Active => status[k] \in Active
         /\ (\A k \in store : Started(k))'
  BY DEF CancelForTeardown, TypeOK, Started, IsTerminal, Active, Terminal

\* No step loses the one who will join an active job.
LEMMA TeardownStep == TeardownInv /\ [Next]_vars => TeardownInv'
<1> SUFFICES ASSUME TeardownInv, [Next]_vars
             PROVE  ActiveIsJoined' /\ AttachedIsLive' /\ (\A j \in store : Started(j))'
  BY TypeStep DEF TeardownInv
<1>0. TypeOK /\ ActiveIsJoined /\ AttachedIsLive /\ (\A j \in store : Started(j)) /\ TypeOK'
  BY TypeStep DEF TeardownInv
<1> USE DEF storeVars, outcomeVars, waitVars, lifeVars, ActiveIsJoined, AttachedIsLive, Started
<1>1. CASE UNCHANGED vars
  BY <1>0, <1>1 DEF vars
<1>2. ASSUME NEW j \in Job, NEW outcome \in Outcomes, ProducerSettles(j, outcome)
      PROVE  ActiveIsJoined' /\ AttachedIsLive' /\ (\A k \in store : Started(k))'
  <2>1. \A k \in Job : status'[k] = status[k] \/ status'[k] \in Terminal
    BY <1>2, JobAssumption DEF ProducerSettles, SettleAll, Terminal
  <2> QED BY <1>0, <1>2, <2>1 DEF ProducerSettles, Active, Terminal, TypeOK
<1>3. ASSUME NEW j \in Job, NEW o \in Owners, Start(j, o)
      PROVE  ActiveIsJoined' /\ AttachedIsLive' /\ (\A k \in store : Started(k))'
  BY <1>0, <1>3, JobAssumption DEF Start, TypeOK, Owners, Active
<1>4. ASSUME NEW j \in Job, Kill(j)
      PROVE  ActiveIsJoined' /\ AttachedIsLive' /\ (\A k \in store : Started(k))'
  <2>1. \A k \in Job : status'[k] \in Active => status[k] \in Active
    BY <1>0, <1>4 DEF Kill, TypeOK, IsTerminal, Active
  <2>2. (\A k \in store : Started(k))'
    BY <1>0, <1>4 DEF Kill, TypeOK
  <2> QED BY <1>0, <1>4, <2>1, <2>2 DEF Kill
<1>5. ASSUME NEW w \in Waiter, Wait(w) \/ WaitReturns(w) \/ WaitAbort(w) \/ WaitTimeout(w)
      PROVE  ActiveIsJoined' /\ AttachedIsLive' /\ (\A k \in store : Started(k))'
  BY <1>0, <1>5 DEF Wait, WaitReturns, WaitAbort, WaitTimeout
<1>6. ASSUME NEW j \in Job, Read(j)
      PROVE  ActiveIsJoined' /\ AttachedIsLive' /\ (\A k \in store : Started(k))'
  BY <1>0, <1>6 DEF Read
<1>7. ASSUME NEW o \in Owner, NEW orphans \in SUBSET Job, DisposeOwned(o, orphans)
      PROVE  ActiveIsJoined' /\ AttachedIsLive' /\ (\A k \in store : Started(k))'
  <2> DEFINE set == {j \in store : owner[j] = o}
  <2>1. /\ \A k \in Job : status'[k] \in Active => status[k] \in Active
        /\ (\A k \in store : Started(k))'
    BY <1>0, <1>7, CancelKeeps DEF DisposeOwned, TypeOK
  <2>2. /\ attached' = attached \ {o} /\ ownerState[o] = "disposing"
        /\ draining' = [draining EXCEPT ![o] = set]
        /\ UNCHANGED <<store, owner, closing, ownerState>>
    BY <1>7 DEF DisposeOwned
  <2>3. draining'[Service] = draining[Service]
    BY <1>0, <2>2, ServiceAssumption DEF TypeOK
  <2>4. \A p \in Owner : draining'[p] = IF p = o THEN set ELSE draining[p]
    BY <1>0, <2>2 DEF TypeOK
  <2>5. ActiveIsJoined'
    BY <1>0, <2>1, <2>2, <2>3, <2>4
  <2> QED BY <1>0, <2>1, <2>2, <2>5
<1>8. ASSUME NEW o \in Owner, OwnedDisposed(o)
      PROVE  ActiveIsJoined' /\ AttachedIsLive' /\ (\A k \in store : Started(k))'
  <2>1. \A j \in Job : status[j] \in Active => j \notin draining[o] /\ owner[j] # o
    BY <1>0, <1>8, JobAssumption DEF OwnedDisposed, IsTerminal, Active, Terminal, TypeOK
  <2>2. draining'[Service] = draining[Service]
    BY <1>0, <1>8, ServiceAssumption DEF OwnedDisposed, TypeOK
  <2>3. \A p \in Owner \ {o} : draining'[p] = draining[p] /\ ownerState'[p] = ownerState[p]
    BY <1>0, <1>8 DEF OwnedDisposed, TypeOK
  <2> QED BY <1>0, <1>8, <2>1, <2>2, <2>3 DEF OwnedDisposed, TypeOK
<1>9. ASSUME NEW o \in Owner, OwnerScopeDisposes(o)
      PROVE  ActiveIsJoined' /\ AttachedIsLive' /\ (\A k \in store : Started(k))'
  BY <1>0, <1>9 DEF OwnerScopeDisposes, TypeOK
<1>10. CASE AllDisposed
  <2>1. \A j \in Job : status[j] \notin Active
    BY <1>0, <1>10 DEF AllDisposed, IsTerminal, Active, Terminal
  <2> QED BY <1>0, <1>10, <2>1 DEF AllDisposed
<1>11. ASSUME NEW orphans \in SUBSET Job, DisposeAll(orphans)
       PROVE  ActiveIsJoined' /\ AttachedIsLive' /\ (\A k \in store : Started(k))'
  <2>1. /\ \A k \in Job : status'[k] \in Active => status[k] \in Active
        /\ (\A k \in store : Started(k))'
    BY <1>0, <1>11, CancelKeeps DEF DisposeAll, TypeOK
  <2>2. /\ closing' = "draining" /\ draining' = [draining EXCEPT ![Service] = store]
        /\ UNCHANGED <<store, owner, attached, ownerState>>
    BY <1>11 DEF DisposeAll
  <2>3. draining'[Service] = store /\ \A o \in Owner : draining'[o] = draining[o]
    BY <1>0, <2>2, ServiceAssumption DEF TypeOK
  <2> QED BY <1>0, <2>1, <2>2, <2>3
<1> QED
  BY <1>1, <1>2, <1>3, <1>4, <1>5, <1>6, <1>7, <1>8, <1>9, <1>10, <1>11
  DEF Next, Producer, Calls, Continuations, Teardowns

-----------------------------------------------------------------------------
(* Notices *)

NoticeParts ==
  /\ AnnouncedIsTerminal /\ EarlyReportIsClaimed /\ WaitingIsEarly
  /\ SuppressedNoticeHasReader /\ NoticeIsNotRepeated

\* settle(): the waits counted by the settlement are the ones it releases or
\* that have timed out, and those withhold the notice.
LEMMA SettleNotices ==
  ASSUME TypeOK, NoticeParts, NEW j \in Job, NEW outcome \in Terminal,
         SettleAll(IF IsTerminal(j) THEN {} ELSE {j}, outcome, reported),
         UNCHANGED <<claimed, waitOf>>
  PROVE  NoticeParts'
<1> USE DEF NoticeParts
<1>1. CASE IsTerminal(j)
  <2>1. /\ \A k \in Job : /\ status'[k] = status[k] /\ announced'[k] = announced[k]
                            /\ reported'[k] = reported[k]
        /\ \A w \in Waiter : waitState'[w] = waitState[w]
    BY <1>1, Zenon DEF SettleAll, TypeOK
  <2> QED BY <2>1 DEF AnnouncedIsTerminal, EarlyReportIsClaimed, WaitingIsEarly,
                      SuppressedNoticeHasReader, NoticeIsNotRepeated, IsTerminal, TypeOK
<1>2. CASE ~IsTerminal(j)
  <2>1. \A k \in Job :
          /\ status'[k] = IF k = j THEN outcome ELSE status[k]
          /\ announced'[k] = IF k # j THEN announced[k]
                             ELSE IF closing # "open" THEN "closed"
                             ELSE IF reported[k] \/ IsAwaited(k) THEN "suppressed" ELSE "notice"
          /\ reported'[k] <=> (reported[k] \/ (k = j /\ IsAwaited(k)))
    BY <1>2 DEF SettleAll
  <2>2. \A w \in Waiter :
          waitState'[w] = IF waitOf[w] = j /\ waitState[w] = "waiting" THEN "released"
                                                                      ELSE waitState[w]
    BY <1>2 DEF SettleAll
  <2>3. AnnouncedIsTerminal' /\ EarlyReportIsClaimed' /\ WaitingIsEarly'
    BY <2>1, <2>2 DEF AnnouncedIsTerminal, EarlyReportIsClaimed, WaitingIsEarly, IsTerminal, TypeOK
  <2>4. SuppressedNoticeHasReader'
    <3> SUFFICES ASSUME NEW k \in Job, announced'[k] = "suppressed", ~claimed[k]
                 PROVE  \E w \in Waiter :
                          waitOf[w] = k /\ waitState'[w] \in {"released", "timedOut", "terminal"}
      BY DEF SuppressedNoticeHasReader
    <3>1. CASE k # j
      BY <2>1, <2>2, <3>1 DEF SuppressedNoticeHasReader
    <3>2. CASE k = j
      <4>1. IsAwaited(j)
        BY <1>2, <2>1, <3>2 DEF EarlyReportIsClaimed
      <4>2. PICK w \in Waiter : waitOf[w] = j /\ waitState[w] \in Counted
        BY <4>1 DEF IsAwaited
      <4> QED BY <2>2, <3>2, <4>2 DEF Counted
    <3> QED BY <3>1, <3>2
  <2>5. NoticeIsNotRepeated'
    <3> SUFFICES ASSUME NEW w \in Waiter, waitState'[w] \in {"released", "timedOut"}
                 PROVE  announced'[waitOf[w]] # "notice"
      BY DEF NoticeIsNotRepeated
    <3>1. CASE waitOf[w] # j
      BY <2>1, <2>2, <3>1 DEF NoticeIsNotRepeated, TypeOK
    <3>2. CASE waitOf[w] = j
      <4>1. IsAwaited(j)
        BY <2>2, <3>2 DEF IsAwaited, Counted
      <4> QED BY <2>1, <3>2, <4>1
    <3> QED BY <3>1, <3>2
  <2> QED BY <2>3, <2>4, <2>5
<1> QED BY <1>1, <1>2

\* cancelForTeardown(): it claims the report of all it cancels, and notifies
\* nobody.
LEMMA CancelNotices ==
  ASSUME TypeOK, NoticeParts, NEW set \in SUBSET Job, NEW orphans,
         CancelForTeardown(set, orphans), waitOf' = waitOf
  PROVE  NoticeParts'
<1> DEFINE live == {j \in set : ~IsTerminal(j)}
<1>0. orphans \subseteq live
  BY DEF CancelForTeardown
<1>1. \A k \in Job :
        /\ status'[k] = IF k \in orphans THEN "failed"
                        ELSE IF k \in live THEN "stopping" ELSE status[k]
        /\ announced'[k] = IF k \notin orphans THEN announced[k]
                           ELSE IF closing' # "open" THEN "closed" ELSE "suppressed"
        /\ reported'[k] <=> (reported[k] \/ k \in live)
        /\ claimed'[k] <=> (claimed[k] \/ k \in live)
  BY DEF CancelForTeardown
<1>2. \A w \in Waiter :
        waitState'[w] = IF waitOf[w] \in orphans /\ waitState[w] = "waiting" THEN "released"
                                                                            ELSE waitState[w]
  BY DEF CancelForTeardown
<1>3. \A k \in live : ~IsTerminal(k)
  OBVIOUS
<1> HIDE DEF live
<1> USE DEF NoticeParts
<1>4. AnnouncedIsTerminal' /\ EarlyReportIsClaimed' /\ WaitingIsEarly'
  BY <1>0, <1>1, <1>2, <1>3 DEF AnnouncedIsTerminal, EarlyReportIsClaimed, WaitingIsEarly,
                                IsTerminal, Terminal, TypeOK
<1>5. SuppressedNoticeHasReader'
  BY <1>0, <1>1, <1>2 DEF SuppressedNoticeHasReader
<1>6. NoticeIsNotRepeated'
  BY <1>0, <1>1, <1>2 DEF NoticeIsNotRepeated, TypeOK
<1> QED BY <1>4, <1>5, <1>6

\* No step makes a withheld notice unread or repeats a delivered one.
LEMMA NoticeStep == NoticeInv /\ [Next]_vars => NoticeInv'
<1> SUFFICES ASSUME NoticeInv, [Next]_vars
             PROVE  NoticeParts'
  BY TypeStep DEF NoticeInv, NoticeParts
<1>0. TypeOK /\ NoticeParts /\ TypeOK'
  BY TypeStep DEF NoticeInv, NoticeParts
<1> USE DEF storeVars, outcomeVars, waitVars, lifeVars
<1>1. CASE UNCHANGED <<status, announced, reported, claimed, waitVars>>
  BY <1>0, <1>1 DEF NoticeParts, AnnouncedIsTerminal, EarlyReportIsClaimed, WaitingIsEarly,
                    SuppressedNoticeHasReader, NoticeIsNotRepeated, IsTerminal
<1>2. ASSUME NEW j \in Job, NEW outcome \in Outcomes, ProducerSettles(j, outcome)
      PROVE  NoticeParts'
  BY <1>0, <1>2, SettleNotices, JobAssumption DEF ProducerSettles, Terminal
<1>3. ASSUME NEW j \in Job, NEW o \in Owners, Start(j, o)
      PROVE  NoticeParts'
  BY <1>0, <1>3 DEF Start, Started, NoticeParts, AnnouncedIsTerminal, EarlyReportIsClaimed,
                    WaitingIsEarly, SuppressedNoticeHasReader, NoticeIsNotRepeated,
                    IsTerminal, Terminal, TypeOK
<1>4. ASSUME NEW j \in Job, Read(j)
      PROVE  NoticeParts'
  BY <1>0, <1>4 DEF Read, NoticeParts, AnnouncedIsTerminal, EarlyReportIsClaimed,
                    WaitingIsEarly, SuppressedNoticeHasReader, NoticeIsNotRepeated,
                    IsTerminal, TypeOK
<1>5. ASSUME NEW j \in Job, Kill(j)
      PROVE  NoticeParts'
  <2>1. \A k \in Job : IsTerminal(k)' <=> IsTerminal(k)
    BY <1>0, <1>5 DEF Kill, IsTerminal, Terminal, TypeOK
  <2>2. \A k \in Job : reported'[k] => reported[k] \/ k = j
    BY <1>0, <1>5 DEF Kill, TypeOK
  <2>3. (claimed[j] => claimed'[j]) /\ (~IsTerminal(j) => claimed'[j])
    <3>1. claimed' = [claimed EXCEPT ![j] = claimed[j] \/ ~IsTerminal(j)]
      BY <1>5 DEF Kill
    <3>2. claimed'[j] = (claimed[j] \/ ~IsTerminal(j))
      BY <1>0, <3>1, Zenon DEF TypeOK
    <3> QED BY <3>2
  <2>4. \A k \in Job \ {j} : claimed'[k] = claimed[k]
    BY <1>0, <1>5 DEF Kill, TypeOK
  <2>5. UNCHANGED <<announced, waitOf, waitState>>
    BY <1>5 DEF Kill
  <2>6. \A k \in Job : claimed[k] => claimed'[k]
    BY <2>3, <2>4
  <2>7. AnnouncedIsTerminal' /\ WaitingIsEarly' /\ NoticeIsNotRepeated'
    BY <1>0, <2>1, <2>5 DEF NoticeParts, AnnouncedIsTerminal, WaitingIsEarly,
                            NoticeIsNotRepeated, TypeOK
  <2>8. EarlyReportIsClaimed'
    BY <1>0, <2>1, <2>2, <2>3, <2>6 DEF NoticeParts, EarlyReportIsClaimed
  <2>9. SuppressedNoticeHasReader'
    BY <1>0, <2>5, <2>6 DEF NoticeParts, SuppressedNoticeHasReader
  <2> QED BY <2>7, <2>8, <2>9 DEF NoticeParts
<1>6. ASSUME NEW w \in Waiter, Wait(w) \/ WaitReturns(w) \/ WaitAbort(w) \/ WaitTimeout(w)
      PROVE  NoticeParts'
  <2>1. /\ UNCHANGED <<status, announced, claimed, waitOf>>
        /\ \A v \in Waiter \ {w} : waitState'[v] = waitState[v]
    BY <1>0, <1>6 DEF Wait, WaitReturns, WaitAbort, WaitTimeout, TypeOK
  <2>2. \A k \in Job : reported'[k] => reported[k] \/ IsTerminal(k)
    BY <1>0, <1>6 DEF Wait, WaitReturns, WaitAbort, WaitTimeout, TypeOK
  <2>3. /\ waitState'[w] = "waiting" => ~IsTerminal(waitOf[w])
        /\ waitState'[w] \in {"released", "timedOut"} =>
             waitState[w] = "waiting" /\ ~IsTerminal(waitOf[w])
        /\ waitState[w] \in {"released", "timedOut"} /\ IsTerminal(waitOf[w])
             => waitState'[w] = "terminal"
        /\ waitState[w] # "terminal"
    BY <1>0, <1>6 DEF Wait, WaitReturns, WaitAbort, WaitTimeout, TypeOK, NoticeParts,
                      WaitingIsEarly
  <2>4. AnnouncedIsTerminal' /\ EarlyReportIsClaimed' /\ WaitingIsEarly'
    BY <1>0, <2>1, <2>2, <2>3 DEF NoticeParts, AnnouncedIsTerminal, EarlyReportIsClaimed,
                                  WaitingIsEarly, IsTerminal
  <2>5. SuppressedNoticeHasReader'
    BY <1>0, <2>1, <2>3 DEF NoticeParts, SuppressedNoticeHasReader, AnnouncedIsTerminal
  <2>6. NoticeIsNotRepeated'
    BY <1>0, <2>1, <2>3 DEF NoticeParts, NoticeIsNotRepeated, AnnouncedIsTerminal, TypeOK
  <2> QED BY <2>4, <2>5, <2>6 DEF NoticeParts
<1>7. ASSUME NEW o \in Owner, NEW orphans \in SUBSET Job, DisposeOwned(o, orphans)
      PROVE  NoticeParts'
  <2> DEFINE set == {j \in store : owner[j] = o}
  <2>1. set \in SUBSET Job
    BY <1>0 DEF TypeOK
  <2>2. CancelForTeardown(set, orphans) /\ waitOf' = waitOf
    BY <1>7 DEF DisposeOwned
  <2> HIDE DEF set
  <2> QED BY <1>0, <2>1, <2>2, CancelNotices
<1>8. ASSUME NEW o \in Owner, OwnedDisposed(o) \/ OwnerScopeDisposes(o)
      PROVE  NoticeParts'
  BY <1>1, <1>8 DEF OwnedDisposed, OwnerScopeDisposes
<1>9. CASE AllDisposed
  BY <1>1, <1>9 DEF AllDisposed
<1>10. ASSUME NEW orphans \in SUBSET Job, DisposeAll(orphans)
       PROVE  NoticeParts'
  BY <1>0, <1>10, CancelNotices DEF DisposeAll, TypeOK
<1>11. CASE UNCHANGED vars
  BY <1>1, <1>11 DEF vars
<1> QED
  BY <1>2, <1>3, <1>4, <1>5, <1>6, <1>7, <1>8, <1>9, <1>10, <1>11
  DEF Next, Producer, Calls, Continuations, Teardowns

LEMMA InitOK == Init => TeardownInv /\ NoticeInv
<1> SUFFICES ASSUME Init
             PROVE  TeardownInv /\ NoticeInv
  OBVIOUS
<1>1. TypeOK
  BY DEF Init, TypeOK, Owners
<1>2. TeardownInv
  BY <1>1 DEF Init, TeardownInv, ActiveIsJoined, AttachedIsLive, Started, Active
<1>3. NoticeInv
  BY <1>1 DEF Init, NoticeInv, AnnouncedIsTerminal, EarlyReportIsClaimed, WaitingIsEarly,
              SuppressedNoticeHasReader, NoticeIsNotRepeated, TypeOK
<1> QED BY <1>2, <1>3

-----------------------------------------------------------------------------
(* Theorems *)

\* disposeOwned() and disposeAll() join what they tear down: no job of a gone
\* owner and no job of a closed registry is still active, not even one that was
\* started while the owner's scope unwound.
THEOREM TeardownJoinsJobs == Spec => []RegistryInv
<1>1. Init => TeardownInv
  BY InitOK
<1>2. TeardownInv /\ [Next]_vars => TeardownInv'
  BY TeardownStep
<1>3. TeardownInv => RegistryInv
  BY DEF TeardownInv, RegistryInv, TeardownIsQuiescent, ActiveIsJoined, AttachedIsLive,
         TypeOK, Owners
<1> QED BY <1>1, <1>2, <1>3, PTL DEF Spec

\* Every reachable state satisfies the invariant of the notices.
THEOREM NoticesAreInductive == Spec => []NoticeInv
<1>1. Init => NoticeInv
  BY InitOK
<1>2. NoticeInv /\ [Next]_vars => NoticeInv'
  BY NoticeStep
<1> QED BY <1>1, <1>2, PTL DEF Spec

\* settle() withholds a completion notice only for a job that was killed or torn
\* down, or that a wait will return, or has returned, as terminal.
THEOREM WithheldNoticesAreRead == Spec => []SuppressedNoticeHasReader
<1>1. NoticeInv => SuppressedNoticeHasReader
  BY DEF NoticeInv
<1> QED BY <1>1, NoticesAreInductive, PTL

\* A wait that was pending when its job settled never returns a record whose
\* completion the listeners were told of.
THEOREM NoticesAreNotRepeated == Spec => []NoticeIsNotRepeated
<1>1. NoticeInv => NoticeIsNotRepeated
  BY DEF NoticeInv
<1> QED BY <1>1, NoticesAreInductive, PTL
=============================================================================
