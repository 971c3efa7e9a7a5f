----------------------------- MODULE DurableLog ------------------------------
(***************************************************************************)
(* What the session write path promises (session-persistence, README       *)
(* "Durability"): the durable log is always a prefix of the accepted       *)
(* events, in order, and a flush that succeeds is a barrier for every      *)
(* event accepted before it was called.  The events of a session are the   *)
(* numbers 1, 2, ... in the order the session appended them.               *)
(***************************************************************************)
EXTENDS Naturals, Sequences

CONSTANT Caller     \* calls of flush()

VARIABLES
  accepted,         \* events the session has appended
  durable,          \* the stored log
  asked,            \* accepted, at the time of each flush() call
  answer            \* what each flush() call came to

logVars == <<accepted, durable, asked, answer>>

FirstEvents(n) == [i \in 1..n |-> i]

Accept ==
  /\ accepted' = accepted + 1
  /\ UNCHANGED <<durable, asked, answer>>

\* Any further part of the accepted events becomes durable; answers to flushes
\* it satisfies may be given in the same step.
Persist ==
  /\ \E n \in Len(durable)..accepted : durable' = FirstEvents(n)
  /\ answer' \in [Caller -> {"none", "asked", "flushed", "refused"}]
  /\ \A c \in Caller : answer'[c] # answer[c] =>
       /\ answer[c] = "asked"
       /\ answer'[c] = "refused" \/ asked[c] <= Len(durable')
  /\ UNCHANGED <<accepted, asked>>

Ask(c) ==
  /\ answer[c] = "none"
  /\ answer' = [answer EXCEPT ![c] = "asked"]
  /\ asked' = [asked EXCEPT ![c] = accepted]
  /\ UNCHANGED <<accepted, durable>>

Init ==
  /\ accepted \in Nat
  /\ durable = <<>>
  /\ asked = [c \in Caller |-> 0]
  /\ answer = [c \in Caller |-> "none"]

Next == Accept \/ Persist \/ \E c \in Caller : Ask(c)

Spec == Init /\ [][Next]_logVars
=============================================================================
