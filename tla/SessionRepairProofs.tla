------------------------- MODULE SessionRepairProofs -------------------------
(***************************************************************************)
(* Theorems about SessionRepair, for logs of any length and messages with  *)
(* any number of tool calls: the closers of interruptedTurnClosers() are   *)
(* legal wherever the process dies, a repair that is interrupted is        *)
(* resumed where it stopped, and every tool call gets one true answer.     *)
(*                                                                         *)
(* The definitions are recursions over a log.  An induction over sets of   *)
(* natural numbers, which is not a schema, shows that they are functions   *)
(* and what one more event does to each of them.  The invariant is then    *)
(* about the values for the whole log, and the closers are followed one by *)
(* one.                                                                    *)
(***************************************************************************)
EXTENDS SessionRepair, SequenceTheorems, WellFoundedInduction, TLAPS

EventRecord ==
  [type : Types, turn : Nat, step : Nat, calls : Seq(Nat), call : Nat,
   error : {"none", "not-started", "unknown"}, source : Nat,
   op : {"none", "append", "replace"}]
PendingRecord == [call : Nat, step : Nat, callSeq : Nat]
ScanRecord == [turn : Nat, step : Nat, pending : Seq(PendingRecord)]
\* A trace in which every event was valid.
TraceRecord ==
  [ok : {TRUE}, openTurn : Nat, openStep : Nat, nextTurn : Nat, nextStep : Nat,
   pendingCalls : SUBSET Nat]

Typed ==
  /\ log \in Seq(EventRecord) /\ stage \in Stages
  /\ turn \in Nat /\ step \in Nat /\ used \in Nat
  /\ asked \in Seq(Nat) /\ inFlight \in Seq(Nat)

-----------------------------------------------------------------------------
(* The parts of the inductive invariant *)

\* The two scans of a log agree on what is open, every event was valid, and the
\* calls that repair would answer belong to the open step.
Agree(s, t) ==
  /\ s \in ScanRecord /\ t \in TraceRecord
  /\ t.openTurn = s.turn /\ t.openStep = s.step
  /\ s.turn = 0 => s.step = 0
  /\ s.step = 0 => s.pending = <<>>
  /\ \A i \in DOMAIN s.pending :
       /\ s.pending[i].step = s.step
       /\ s.pending[i].callSeq # 0 => s.pending[i].call \in t.pendingCalls
       /\ \A j \in DOMAIN s.pending : s.pending[i].call = s.pending[j].call => i = j

\* The next turn follows the last one of the log.
Numbered(t, last) ==
  /\ t.openTurn # 0 => t.openTurn = last
  /\ t.nextTurn = IF t.openTurn = 0 THEN last + 1 ELSE last

\* While a step is open after its assistant message, the calls of the message
\* are those answered so far, then the pending ones, and both cite what was
\* recorded of them; at any other time nothing is pending.
CitedOK(l, call, source) == source = SeqOfCall(l, call)
CallsOK(l, a, p) ==
  LET calls == l[LastMessage(l)].calls
  IN  /\ Len(calls) = Len(a) + Len(p)
      /\ \A i, j \in DOMAIN calls : calls[i] = calls[j] => i = j
      /\ \A i \in DOMAIN a :
           /\ a[i].call = calls[i] /\ CitedOK(l, a[i].call, a[i].source)
           /\ a[i].error = "not-started" <=> a[i].source = 0
      /\ \A i \in DOMAIN p :
           p[i].call = calls[Len(a) + i] /\ CitedOK(l, p[i].call, p[i].callSeq)
AnsweredOK(l, s) ==
  IF LastMessage(l) > LastStepEnd(l)
    THEN s.step # 0 /\ CallsOK(l, Answers(l), s.pending)
    ELSE s.pending = <<>>

\* What holds of every stored log, also of one whose repair was interrupted.
SoundLog(l) ==
  /\ l \in Seq(EventRecord)
  /\ Agree(Scanned(l), Traced(l))
  /\ Numbered(Traced(l), LastTurn(l))
  /\ AnsweredOK(l, Scanned(l))

\* Where the driver is in the log it writes.
DriverOK(s, t) ==
  /\ stage = "idle" => s.turn = 0
  /\ stage \in {"turn", "step", "tools"} => s.turn = turn /\ turn # 0
  /\ stage = "turn" => s.step = 0 /\ t.nextStep = step + 1
  /\ stage \in {"step", "tools"} => s.step = step /\ step # 0 /\ t.nextStep = step
  /\ stage = "step" => LastMessage(log) <= LastStepEnd(log)
  /\ stage = "tools" =>
       /\ LastMessage(log) > LastStepEnd(log)
       /\ Len(s.pending) = Len(inFlight) + Len(asked)
       /\ \A i \in DOMAIN inFlight : s.pending[i].call = inFlight[i] /\ s.pending[i].callSeq # 0
       /\ \A i \in DOMAIN asked : LET p == s.pending[Len(inFlight) + i]
                                  IN  p.call = asked[i] /\ p.callSeq = 0
  /\ stage # "tools" => asked = <<>> /\ inFlight = <<>>

\* No event is of a later turn, and call ids are the model's, never used twice.
TurnsUpTo(l, t) == \A i \in DOMAIN l : l[i].turn \in 0..t
CallsUpTo(l, u) == \A i \in DOMAIN l : l[i].type = "tool/call" => l[i].call \in 1..u

IInv ==
  /\ Typed /\ SoundLog(log) /\ LastTurn(log) = turn
  /\ TurnsUpTo(log, turn) /\ CallsUpTo(log, used)
  /\ \A i \in DOMAIN asked : asked[i] \in 1..used
  /\ DriverOK(Scanned(log), Traced(log))

-----------------------------------------------------------------------------
(* Induction, and the recursions over a log *)

\* A set of numbers with 0 and the successors of its members has all of them.
LEMMA SetInduction ==
  ASSUME NEW S, 0 \in S, \A n \in Nat : n \in S => n + 1 \in S
  PROVE  Nat \subseteq S
<1> DEFINE Less == {ss \in Nat \X Nat : ss[1] < ss[2]}
           T == Nat \ S
<1>1. IsWellFoundedOn(Less, Nat)
  BY NatLessThanWellFounded DEF OpToRel
<1>2. SUFFICES ASSUME T # {} PROVE FALSE
  OBVIOUS
<1>3. PICK x \in T : \A y \in T : ~(<<y, x>> \in Less)
  <2> HIDE DEF Less
  <2>1. T \subseteq Nat
    OBVIOUS
  <2> HIDE DEF T
  <2> QED BY <1>1, <1>2, <2>1, WFMin
<1>4. x \in Nat /\ x - 1 \in Nat /\ (x - 1) + 1 = x
  OBVIOUS
<1>5. <<x - 1, x>> \in Less
  BY <1>4
<1>6. x - 1 \in S
  BY <1>3, <1>4, <1>5
<1> QED BY <1>4, <1>6

\* The loop of interruptedTurnClosers() is a function of the log.
LEMMA ScanOfExists ==
  ASSUME NEW S, NEW l \in Seq(S)
  PROVE  ScanOf(l) = [i \in 0..Len(l) |-> IF i = 0 THEN NoScan ELSE Scan(ScanOf(l)[i - 1], l[i], i)]
<1> DEFINE Defines(n, g) == g = [i \in 0..n |-> IF i = 0 THEN NoScan ELSE Scan(g[i - 1], l[i], i)]
           Upto == {n \in Nat : \E g : Defines(n, g)}
<1>1. 0 \in Upto
  <2>1. Defines(0, [i \in 0..0 |-> NoScan])
    OBVIOUS
  <2> QED BY <2>1
<1>2. ASSUME NEW n \in Nat, n \in Upto PROVE n + 1 \in Upto
  <2>1. PICK g : Defines(n, g)
    BY <1>2
  <2> DEFINE h == [i \in 0..(n + 1) |-> IF i <= n THEN g[i] ELSE Scan(g[n], l[n + 1], n + 1)]
  <2>2. \A i \in 0..n : g[i] = IF i = 0 THEN NoScan ELSE Scan(g[i - 1], l[i], i)
    BY <2>1
  <2>3. ASSUME NEW i \in 0..(n + 1)
        PROVE  h[i] = IF i = 0 THEN NoScan ELSE Scan(h[i - 1], l[i], i)
    <3>1. CASE i = 0
      BY <2>2, <3>1
    <3>2. CASE i # 0 /\ i <= n
      <4>1. i - 1 \in 0..(n + 1) /\ i - 1 <= n
        BY <3>2
      <4> QED BY <2>2, <3>2, <4>1
    <3>3. CASE i = n + 1
      <4>1. h[i - 1] = g[n] /\ h[i] = Scan(g[n], l[n + 1], n + 1)
        BY <3>3
      <4> QED BY <3>3, <4>1
    <3> QED BY <3>1, <3>2, <3>3
  <2>4. Defines(n + 1, h)
    BY <2>3
  <2> HIDE DEF Defines, h
  <2> QED BY <2>4
<1>3. Nat \subseteq Upto
  <2> HIDE DEF Upto
  <2> QED BY <1>1, <1>2, SetInduction
<1>4. \E g : Defines(Len(l), g)
  BY <1>3, LenProperties
<1>5. ScanOf(l) = CHOOSE g : Defines(Len(l), g)
  BY DEF ScanOf
<1> HIDE DEF Defines
<1>6. Defines(Len(l), CHOOSE g : Defines(Len(l), g))
  BY <1>4
<1> QED BY <1>5, <1>6 DEF Defines

\* What one more event does to that loop.
LEMMA ScannedAppend ==
  ASSUME NEW S, NEW l \in Seq(S), NEW e \in S
  PROVE  Scanned(Append(l, e)) = Scan(Scanned(l), e, Len(l) + 1)
<1> DEFINE m == Append(l, e)
           f == ScanOf(l)
           g == ScanOf(m)
           Same == {i \in Nat : i <= Len(l) => g[i] = f[i]}
<1>1. m \in Seq(S) /\ Len(m) = Len(l) + 1 /\ Len(l) \in Nat
      /\ m[Len(l) + 1] = e /\ \A i \in 1..Len(l) : m[i] = l[i]
  BY AppendProperties, LenProperties
<1>2. \A i \in 0..Len(l) : f[i] = IF i = 0 THEN NoScan ELSE Scan(f[i - 1], l[i], i)
  BY ScanOfExists
<1>3. \A i \in 0..Len(m) : g[i] = IF i = 0 THEN NoScan ELSE Scan(g[i - 1], m[i], i)
  <2> HIDE DEF m
  <2> QED BY <1>1, ScanOfExists
<1> HIDE DEF m, f, g
<1>4. 0 \in Same
  BY <1>1, <1>2, <1>3
<1>5. ASSUME NEW n \in Nat, n \in Same PROVE n + 1 \in Same
  <2>1. SUFFICES ASSUME n + 1 <= Len(l) PROVE g[n + 1] = f[n + 1]
    OBVIOUS
  <2>2. n + 1 \in 0..Len(l) /\ n + 1 \in 0..Len(m) /\ n + 1 # 0 /\ (n + 1) - 1 = n
        /\ n <= Len(l) /\ n + 1 \in 1..Len(l)
    BY <1>1, <2>1
  <2>3. g[n] = f[n] /\ m[n + 1] = l[n + 1]
    BY <1>1, <1>5, <2>2
  <2> QED BY <1>2, <1>3, <2>2, <2>3
<1>6. Nat \subseteq Same
  <2> HIDE DEF Same
  <2> QED BY <1>4, <1>5, SetInduction
<1>7. g[Len(l)] = f[Len(l)]
  BY <1>1, <1>6
<1>8. g[Len(m)] = Scan(g[Len(l)], e, Len(l) + 1)
  <2>1. Len(m) \in 0..Len(m) /\ Len(m) # 0 /\ Len(m) - 1 = Len(l)
    BY <1>1
  <2> QED BY <1>1, <1>3, <2>1
<1> QED BY <1>7, <1>8 DEF m, f, g, Scanned

\* The replay of seedSession() is a function of the log.
LEMMA TraceOfExists ==
  ASSUME NEW S, NEW l \in Seq(S)
  PROVE  TraceOf(l) = [i \in 0..Len(l) |-> IF i = 0 THEN FreshTrace ELSE Commit(TraceOf(l)[i - 1], l[i])]
<1> DEFINE Defines(n, g) == g = [i \in 0..n |-> IF i = 0 THEN FreshTrace ELSE Commit(g[i - 1], l[i])]
           Upto == {n \in Nat : \E g : Defines(n, g)}
<1>1. 0 \in Upto
  <2>1. Defines(0, [i \in 0..0 |-> FreshTrace])
    OBVIOUS
  <2> QED BY <2>1
<1>2. ASSUME NEW n \in Nat, n \in Upto PROVE n + 1 \in Upto
  <2>1. PICK g : Defines(n, g)
    BY <1>2
  <2> DEFINE h == [i \in 0..(n + 1) |-> IF i <= n THEN g[i] ELSE Commit(g[n], l[n + 1])]
  <2>2. \A i \in 0..n : g[i] = IF i = 0 THEN FreshTrace ELSE Commit(g[i - 1], l[i])
    BY <2>1
  <2>3. ASSUME NEW i \in 0..(n + 1)
        PROVE  h[i] = IF i = 0 THEN FreshTrace ELSE Commit(h[i - 1], l[i])
    <3>1. CASE i = 0
      BY <2>2, <3>1
    <3>2. CASE i # 0 /\ i <= n
      <4>1. i - 1 \in 0..(n + 1) /\ i - 1 <= n
        BY <3>2
      <4> QED BY <2>2, <3>2, <4>1
    <3>3. CASE i = n + 1
      <4>1. h[i - 1] = g[n] /\ h[i] = Commit(g[n], l[n + 1])
        BY <3>3
      <4> QED BY <3>3, <4>1
    <3> QED BY <3>1, <3>2, <3>3
  <2>4. Defines(n + 1, h)
    BY <2>3
  <2> HIDE DEF Defines, h
  <2> QED BY <2>4
<1>3. Nat \subseteq Upto
  <2> HIDE DEF Upto
  <2> QED BY <1>1, <1>2, SetInduction
<1>4. \E g : Defines(Len(l), g)
  BY <1>3, LenProperties
<1>5. TraceOf(l) = CHOOSE g : Defines(Len(l), g)
  BY DEF TraceOf
<1> HIDE DEF Defines
<1>6. Defines(Len(l), CHOOSE g : Defines(Len(l), g))
  BY <1>4
<1> QED BY <1>5, <1>6 DEF Defines

\* What one more event does to the trace.
LEMMA TracedAppend ==
  ASSUME NEW S, NEW l \in Seq(S), NEW e \in S
  PROVE  Traced(Append(l, e)) = Commit(Traced(l), e)
<1> DEFINE m == Append(l, e)
           f == TraceOf(l)
           g == TraceOf(m)
           Same == {i \in Nat : i <= Len(l) => g[i] = f[i]}
<1>1. m \in Seq(S) /\ Len(m) = Len(l) + 1 /\ Len(l) \in Nat
      /\ m[Len(l) + 1] = e /\ \A i \in 1..Len(l) : m[i] = l[i]
  BY AppendProperties, LenProperties
<1>2. \A i \in 0..Len(l) : f[i] = IF i = 0 THEN FreshTrace ELSE Commit(f[i - 1], l[i])
  BY TraceOfExists
<1>3. \A i \in 0..Len(m) : g[i] = IF i = 0 THEN FreshTrace ELSE Commit(g[i - 1], m[i])
  <2> HIDE DEF m
  <2> QED BY <1>1, TraceOfExists
<1> HIDE DEF m, f, g
<1>4. 0 \in Same
  BY <1>1, <1>2, <1>3
<1>5. ASSUME NEW n \in Nat, n \in Same PROVE n + 1 \in Same
  <2>1. SUFFICES ASSUME n + 1 <= Len(l) PROVE g[n + 1] = f[n + 1]
    OBVIOUS
  <2>2. n + 1 \in 0..Len(l) /\ n + 1 \in 0..Len(m) /\ n + 1 # 0 /\ (n + 1) - 1 = n
        /\ n <= Len(l) /\ n + 1 \in 1..Len(l)
    BY <1>1, <2>1
  <2>3. g[n] = f[n] /\ m[n + 1] = l[n + 1]
    BY <1>1, <1>5, <2>2
  <2> QED BY <1>2, <1>3, <2>2, <2>3
<1>6. Nat \subseteq Same
  <2> HIDE DEF Same
  <2> QED BY <1>4, <1>5, SetInduction
<1>7. g[Len(l)] = f[Len(l)]
  BY <1>1, <1>6
<1>8. g[Len(m)] = Commit(g[Len(l)], e)
  <2>1. Len(m) \in 0..Len(m) /\ Len(m) # 0 /\ Len(m) - 1 = Len(l)
    BY <1>1
  <2> QED BY <1>1, <1>3, <2>1
<1> QED BY <1>7, <1>8 DEF m, f, g, Traced

\* The results since the last assistant message are a function of the log.
LEMMA AnswersOfExists ==
  ASSUME NEW S, NEW l \in Seq(S)
  PROVE  AnswersOf(l) = [i \in 0..Len(l) |-> IF i = 0 THEN <<>> ELSE Collected(AnswersOf(l)[i - 1], l[i])]
<1> DEFINE Defines(n, g) == g = [i \in 0..n |-> IF i = 0 THEN <<>> ELSE Collected(g[i - 1], l[i])]
           Upto == {n \in Nat : \E g : Defines(n, g)}
<1>1. 0 \in Upto
  <2>1. Defines(0, [i \in 0..0 |-> <<>>])
    OBVIOUS
  <2> QED BY <2>1
<1>2. ASSUME NEW n \in Nat, n \in Upto PROVE n + 1 \in Upto
  <2>1. PICK g : Defines(n, g)
    BY <1>2
  <2> DEFINE h == [i \in 0..(n + 1) |-> IF i <= n THEN g[i] ELSE Collected(g[n], l[n + 1])]
  <2>2. \A i \in 0..n : g[i] = IF i = 0 THEN <<>> ELSE Collected(g[i - 1], l[i])
    BY <2>1
  <2>3. ASSUME NEW i \in 0..(n + 1)
        PROVE  h[i] = IF i = 0 THEN <<>> ELSE Collected(h[i - 1], l[i])
    <3>1. CASE i = 0
      BY <2>2, <3>1
    <3>2. CASE i # 0 /\ i <= n
      <4>1. i - 1 \in 0..(n + 1) /\ i - 1 <= n
        BY <3>2
      <4> QED BY <2>2, <3>2, <4>1
    <3>3. CASE i = n + 1
      <4>1. h[i - 1] = g[n] /\ h[i] = Collected(g[n], l[n + 1])
        BY <3>3
      <4> QED BY <3>3, <4>1
    <3> QED BY <3>1, <3>2, <3>3
  <2>4. Defines(n + 1, h)
    BY <2>3
  <2> HIDE DEF Defines, h
  <2> QED BY <2>4
<1>3. Nat \subseteq Upto
  <2> HIDE DEF Upto
  <2> QED BY <1>1, <1>2, SetInduction
<1>4. \E g : Defines(Len(l), g)
  BY <1>3, LenProperties
<1>5. AnswersOf(l) = CHOOSE g : Defines(Len(l), g)
  BY DEF AnswersOf
<1> HIDE DEF Defines
<1>6. Defines(Len(l), CHOOSE g : Defines(Len(l), g))
  BY <1>4
<1> QED BY <1>5, <1>6 DEF Defines

\* What one more event does to these results.
LEMMA AnswersAppend ==
  ASSUME NEW S, NEW l \in Seq(S), NEW e \in S
  PROVE  Answers(Append(l, e)) = Collected(Answers(l), e)
<1> DEFINE m == Append(l, e)
           f == AnswersOf(l)
           g == AnswersOf(m)
           Same == {i \in Nat : i <= Len(l) => g[i] = f[i]}
<1>1. m \in Seq(S) /\ Len(m) = Len(l) + 1 /\ Len(l) \in Nat
      /\ m[Len(l) + 1] = e /\ \A i \in 1..Len(l) : m[i] = l[i]
  BY AppendProperties, LenProperties
<1>2. \A i \in 0..Len(l) : f[i] = IF i = 0 THEN <<>> ELSE Collected(f[i - 1], l[i])
  BY AnswersOfExists
<1>3. \A i \in 0..Len(m) : g[i] = IF i = 0 THEN <<>> ELSE Collected(g[i - 1], m[i])
  <2> HIDE DEF m
  <2> QED BY <1>1, AnswersOfExists
<1> HIDE DEF m, f, g
<1>4. 0 \in Same
  BY <1>1, <1>2, <1>3
<1>5. ASSUME NEW n \in Nat, n \in Same PROVE n + 1 \in Same
  <2>1. SUFFICES ASSUME n + 1 <= Len(l) PROVE g[n + 1] = f[n + 1]
    OBVIOUS
  <2>2. n + 1 \in 0..Len(l) /\ n + 1 \in 0..Len(m) /\ n + 1 # 0 /\ (n + 1) - 1 = n
        /\ n <= Len(l) /\ n + 1 \in 1..Len(l)
    BY <1>1, <2>1
  <2>3. g[n] = f[n] /\ m[n + 1] = l[n + 1]
    BY <1>1, <1>5, <2>2
  <2> QED BY <1>2, <1>3, <2>2, <2>3
<1>6. Nat \subseteq Same
  <2> HIDE DEF Same
  <2> QED BY <1>4, <1>5, SetInduction
<1>7. g[Len(l)] = f[Len(l)]
  BY <1>1, <1>6
<1>8. g[Len(m)] = Collected(g[Len(l)], e)
  <2>1. Len(m) \in 0..Len(m) /\ Len(m) # 0 /\ Len(m) - 1 = Len(l)
    BY <1>1
  <2> QED BY <1>1, <1>3, <2>1
<1> QED BY <1>7, <1>8 DEF m, f, g, Answers

\* An empty log has none of it.
LEMMA EmptyLog ==
  /\ Scanned(<<>>) = NoScan /\ Traced(<<>>) = FreshTrace /\ Answers(<<>>) = <<>>
  /\ LastTurn(<<>>) = 0 /\ LastMessage(<<>>) = 0 /\ LastStepEnd(<<>>) = 0
  /\ \A c : SeqOfCall(<<>>, c) = 0
<1>1. <<>> \in Seq(Nat) /\ Len(<<>>) = 0 /\ 0 \in 0..0
  OBVIOUS
<1>2. Scanned(<<>>) = NoScan
  BY <1>1, ScanOfExists DEF Scanned
<1>3. Traced(<<>>) = FreshTrace
  BY <1>1, TraceOfExists DEF Traced
<1>4. Answers(<<>>) = <<>>
  BY <1>1, AnswersOfExists DEF Answers
<1>5. LastTurn(<<>>) = 0 /\ LastMessage(<<>>) = 0 /\ LastStepEnd(<<>>) = 0
      /\ \A c : SeqOfCall(<<>>, c) = 0
  BY <1>1 DEF LastTurn, LastMessage, LastStepEnd, SeqOfCall, SelectLastInSeq, SelectInSeq
<1> QED BY <1>2, <1>3, <1>4, <1>5

\* The positions that match a test, in a log with one more event.
LEMMA MatchesAppend ==
  ASSUME NEW S, NEW l \in Seq(S), NEW e \in S, NEW M, NEW N,
         M \subseteq 1..Len(l), N \subseteq 1..(Len(l) + 1),
         \A i \in 1..Len(l) : i \in M <=> i \in N
  PROVE  /\ Len(l) + 1 \notin N => N = M
         /\ Len(l) + 1 \in N => Max(N) = Len(l) + 1
         /\ Len(l) + 1 \in N /\ M = {} => Min(N) = Len(l) + 1
<1>1. Len(l) \in Nat
  BY LenProperties
<1>2. ASSUME NEW i \in N, i # Len(l) + 1 PROVE i \in 1..Len(l) /\ i \in M
  BY <1>1, <1>2
<1>3. M \subseteq N
  OBVIOUS
<1>4. Len(l) + 1 \notin N => N = M
  BY <1>2, <1>3
<1>5. ASSUME Len(l) + 1 \in N PROVE Max(N) = Len(l) + 1
  <2>1. \A y \in N : Len(l) + 1 >= y
    BY <1>1
  <2>2. \A x \in N : (\A y \in N : x >= y) => x = Len(l) + 1
    BY <1>1, <1>5
  <2> QED BY <1>5, <2>1, <2>2 DEF Max
<1>6. ASSUME Len(l) + 1 \in N, M = {} PROVE Min(N) = Len(l) + 1
  <2>1. N = {Len(l) + 1}
    BY <1>2, <1>6
  <2> QED BY <1>1, <2>1 DEF Min
<1> QED BY <1>4, <1>5, <1>6

\* A set of positions that is not empty has a first and a last one.
LEMMA FirstAndLast ==
  ASSUME NEW n \in Nat, NEW I, I \subseteq 1..n, I # {}
  PROVE  Min(I) \in I /\ Max(I) \in I
<1>1. ASSUME NEW T, T \subseteq Nat, T # {} PROVE \E x \in T : \A y \in T : x =< y
  <2> DEFINE Less == {ss \in Nat \X Nat : ss[1] < ss[2]}
  <2>1. IsWellFoundedOn(Less, Nat)
    BY NatLessThanWellFounded DEF OpToRel
  <2>2. PICK x \in T : \A y \in T : ~(<<y, x>> \in Less)
    <3> HIDE DEF Less
    <3> QED BY <1>1, <2>1, WFMin
  <2>3. ASSUME NEW y \in T PROVE x =< y
    <3>1. x \in Nat /\ y \in Nat
      BY <1>1
    <3>2. ~(y < x)
      BY <2>2, <3>1
    <3> QED BY <3>1, <3>2
  <2> QED BY <2>3
<1>2. \E x \in I : \A y \in I : x =< y
  <2>1. I \subseteq Nat
    OBVIOUS
  <2> QED BY <1>1, <2>1
<1>3. \E x \in I : \A y \in I : x >= y
  <2> DEFINE Above == {k \in Nat : \A y \in I : k >= y}
  <2>1. Above # {}
    <3>1. n \in Above
      OBVIOUS
    <3> QED BY <3>1
  <2>2. PICK x \in Above : \A y \in Above : x =< y
    <3>1. Above \subseteq Nat
      OBVIOUS
    <3> HIDE DEF Above
    <3> QED BY <1>1, <2>1, <3>1
  <2>3. x \in I
    <3>1. SUFFICES ASSUME x \notin I PROVE FALSE
      OBVIOUS
    <3>2. \A y \in I : y \in Nat /\ y # 0 /\ y # x /\ x >= y
      BY <2>2, <3>1
    <3>3. PICK z \in I : TRUE
      OBVIOUS
    <3>4. x \in Nat /\ x - 1 \in Nat /\ x - 1 < x
      BY <3>2, <3>3
    <3>5. x - 1 \in Above
      BY <3>2, <3>4
    <3> QED BY <2>2, <3>4, <3>5
  <2> QED BY <2>2, <2>3
<1> QED BY <1>2, <1>3 DEF Min, Max

\* The position a search returns: 0 if nothing matches.
LEMMA Found ==
  ASSUME NEW n \in Nat, NEW I, I \subseteq 1..n,
         NEW first, first = IF I # {} THEN Min(I) ELSE 0,
         NEW last, last = IF I # {} THEN Max(I) ELSE 0
  PROVE  /\ first \in 0..n /\ last \in 0..n
         /\ first = 0 <=> I = {}
         /\ last = 0 <=> I = {}
         /\ last # 0 => last \in I
<1>1. CASE I = {}
  BY <1>1
<1>2. CASE I # {}
  <2>1. first \in I /\ last \in I
    BY <1>2, FirstAndLast
  <2> QED BY <1>2, <2>1
<1> QED BY <1>1, <1>2

\* Where in a log a last event of some kind and the event of a call are.
LEMMA Positions ==
  ASSUME NEW l \in Seq(EventRecord)
  PROVE  /\ LastMessage(l) \in 0..Len(l) /\ LastStepEnd(l) \in 0..Len(l)
         /\ LastTurn(l) \in Nat
         /\ \A c : SeqOfCall(l, c) \in 0..Len(l)
         /\ \A c : SeqOfCall(l, c) = 0
                     <=> \A i \in 1..Len(l) : ~(l[i].type = "tool/call" /\ l[i].call = c)
<1>1. Len(l) \in Nat /\ \A i \in 1..Len(l) : l[i] \in EventRecord
  BY LenProperties, ElementOfSeq
<1>2. LastMessage(l) \in 0..Len(l)
  <2> DEFINE I == {i \in 1..Len(l) : l[i].type = "assistant/message"}
             r == IF I # {} THEN Max(I) ELSE 0
             q == IF I # {} THEN Min(I) ELSE 0
  <2>1. LastMessage(l) = r
    BY DEF LastMessage, SelectLastInSeq
  <2>2. I \subseteq 1..Len(l)
    OBVIOUS
  <2>3. q = IF I # {} THEN Min(I) ELSE 0
    OBVIOUS
  <2>4. r = IF I # {} THEN Max(I) ELSE 0
    OBVIOUS
  <2> HIDE DEF I, q, r
  <2> QED BY <1>1, <2>1, <2>2, <2>3, <2>4, Found
<1>3. LastStepEnd(l) \in 0..Len(l)
  <2> DEFINE I == {i \in 1..Len(l) : l[i].type = "step/end"}
             r == IF I # {} THEN Max(I) ELSE 0
             q == IF I # {} THEN Min(I) ELSE 0
  <2>1. LastStepEnd(l) = r
    BY DEF LastStepEnd, SelectLastInSeq
  <2>2. I \subseteq 1..Len(l)
    OBVIOUS
  <2>3. q = IF I # {} THEN Min(I) ELSE 0
    OBVIOUS
  <2>4. r = IF I # {} THEN Max(I) ELSE 0
    OBVIOUS
  <2> HIDE DEF I, q, r
  <2> QED BY <1>1, <2>1, <2>2, <2>3, <2>4, Found
<1>4. LastTurn(l) \in Nat
  <2> DEFINE I == {i \in 1..Len(l) : l[i].type = "turn/start"}
             r == IF I # {} THEN Max(I) ELSE 0
             q == IF I # {} THEN Min(I) ELSE 0
  <2>1. LastTurn(l) = IF r = 0 THEN 0 ELSE l[r].turn
    BY DEF LastTurn, SelectLastInSeq
  <2>2. I \subseteq 1..Len(l)
    OBVIOUS
  <2>3. q = IF I # {} THEN Min(I) ELSE 0
    OBVIOUS
  <2>4. r = IF I # {} THEN Max(I) ELSE 0
    OBVIOUS
  <2>5. \A i \in 1..Len(l) : l[i].turn \in Nat
    BY <1>1 DEF EventRecord
  <2> HIDE DEF I, q, r
  <2>6. r # 0 => r \in 1..Len(l)
    BY <1>1, <2>2, <2>3, <2>4, Found
  <2> QED BY <2>1, <2>5, <2>6
<1>5. ASSUME NEW c
      PROVE  /\ SeqOfCall(l, c) \in 0..Len(l)
             /\ SeqOfCall(l, c) = 0
                  <=> \A i \in 1..Len(l) : ~(l[i].type = "tool/call" /\ l[i].call = c)
  <2> DEFINE I == {i \in 1..Len(l) : l[i].type = "tool/call" /\ l[i].call = c}
             r == IF I # {} THEN Max(I) ELSE 0
             q == IF I # {} THEN Min(I) ELSE 0
  <2>1. SeqOfCall(l, c) = q
    BY DEF SeqOfCall, SelectInSeq
  <2>2. I \subseteq 1..Len(l)
    OBVIOUS
  <2>3. q = IF I # {} THEN Min(I) ELSE 0
    OBVIOUS
  <2>4. r = IF I # {} THEN Max(I) ELSE 0
    OBVIOUS
  <2>5. I = {} <=> \A i \in 1..Len(l) : ~(l[i].type = "tool/call" /\ l[i].call = c)
    OBVIOUS
  <2> HIDE DEF I, q, r
  <2>6. q \in 0..Len(l) /\ (q = 0 <=> I = {})
    BY <1>1, <2>2, <2>3, <2>4, Found
  <2> QED BY <2>1, <2>5, <2>6
<1> QED BY <1>2, <1>3, <1>4, <1>5

\* What one more event does to these positions.
LEMMA PositionsAppend ==
  ASSUME NEW l \in Seq(EventRecord), NEW e \in EventRecord
  PROVE  LET m == Append(l, e)
         IN  /\ LastMessage(m) = IF e.type = "assistant/message" THEN Len(l) + 1 ELSE LastMessage(l)
             /\ LastStepEnd(m) = IF e.type = "step/end" THEN Len(l) + 1 ELSE LastStepEnd(l)
             /\ LastTurn(m) = IF e.type = "turn/start" THEN e.turn ELSE LastTurn(l)
             /\ \A c : ~(e.type = "tool/call" /\ e.call = c) => SeqOfCall(m, c) = SeqOfCall(l, c)
             /\ e.type = "tool/call" /\ SeqOfCall(l, e.call) = 0 =>
                  SeqOfCall(m, e.call) = Len(l) + 1
<1> DEFINE m == Append(l, e)
           n == Len(l) + 1
<1>1. m \in Seq(EventRecord) /\ Len(m) = n /\ Len(l) \in Nat
      /\ m[n] = e /\ \A i \in 1..Len(l) : m[i] = l[i]
  BY AppendProperties, LenProperties
<1> HIDE DEF m
<1>2. LastMessage(m) = IF e.type = "assistant/message" THEN n ELSE LastMessage(l)
  <2> DEFINE M == {i \in 1..Len(l) : l[i].type = "assistant/message"}
             N == {i \in 1..Len(m) : m[i].type = "assistant/message"}
  <2>1. M \subseteq 1..Len(l) /\ N \subseteq 1..(Len(l) + 1)
        /\ (\A i \in 1..Len(l) : i \in M <=> i \in N)
        /\ (n \in N <=> e.type = "assistant/message")
    BY <1>1
  <2>2. /\ LastMessage(l) = IF M # {} THEN Max(M) ELSE 0
        /\ LastMessage(m) = IF N # {} THEN Max(N) ELSE 0
    BY DEF LastMessage, SelectLastInSeq
  <2> HIDE DEF M, N
  <2> QED BY <2>1, <2>2, MatchesAppend
<1>3. LastStepEnd(m) = IF e.type = "step/end" THEN n ELSE LastStepEnd(l)
  <2> DEFINE M == {i \in 1..Len(l) : l[i].type = "step/end"}
             N == {i \in 1..Len(m) : m[i].type = "step/end"}
  <2>1. M \subseteq 1..Len(l) /\ N \subseteq 1..(Len(l) + 1)
        /\ (\A i \in 1..Len(l) : i \in M <=> i \in N)
        /\ (n \in N <=> e.type = "step/end")
    BY <1>1
  <2>2. /\ LastStepEnd(l) = IF M # {} THEN Max(M) ELSE 0
        /\ LastStepEnd(m) = IF N # {} THEN Max(N) ELSE 0
    BY DEF LastStepEnd, SelectLastInSeq
  <2> HIDE DEF M, N
  <2> QED BY <2>1, <2>2, MatchesAppend
<1>4. LastTurn(m) = IF e.type = "turn/start" THEN e.turn ELSE LastTurn(l)
  <2> DEFINE M == {i \in 1..Len(l) : l[i].type = "turn/start"}
             N == {i \in 1..Len(m) : m[i].type = "turn/start"}
             j == IF M # {} THEN Max(M) ELSE 0
             k == IF N # {} THEN Max(N) ELSE 0
  <2>1. M \subseteq 1..Len(l) /\ N \subseteq 1..(Len(l) + 1)
        /\ (\A i \in 1..Len(l) : i \in M <=> i \in N)
        /\ (n \in N <=> e.type = "turn/start")
    BY <1>1
  <2>2. /\ LastTurn(l) = IF j = 0 THEN 0 ELSE l[j].turn
        /\ LastTurn(m) = IF k = 0 THEN 0 ELSE m[k].turn
    BY DEF LastTurn, SelectLastInSeq
  <2> HIDE DEF M, N
  <2>3. M # {} => Max(M) \in M
    BY <1>1, <2>1, FirstAndLast
  <2>4. n \notin N => N = M
    BY <2>1, MatchesAppend
  <2>5. n \in N => Max(N) = n
    BY <2>1, MatchesAppend
  <2>6. CASE e.type = "turn/start"
    BY <1>1, <2>1, <2>2, <2>5, <2>6
  <2>7. CASE e.type # "turn/start"
    <3>1. k = j
      BY <2>1, <2>4, <2>7
    <3>2. j = 0 \/ j \in 1..Len(l)
      BY <2>1, <2>3
    <3> HIDE DEF j, k
    <3> QED BY <1>1, <2>2, <2>7, <3>1, <3>2
  <2> QED BY <2>6, <2>7
<1>5. ASSUME NEW c
      PROVE  /\ ~(e.type = "tool/call" /\ e.call = c) => SeqOfCall(m, c) = SeqOfCall(l, c)
             /\ e.type = "tool/call" /\ e.call = c /\ SeqOfCall(l, c) = 0 => SeqOfCall(m, c) = n
  <2> DEFINE M == {i \in 1..Len(l) : l[i].type = "tool/call" /\ l[i].call = c}
             N == {i \in 1..Len(m) : m[i].type = "tool/call" /\ m[i].call = c}
  <2>1. M \subseteq 1..Len(l) /\ N \subseteq 1..(Len(l) + 1)
        /\ (\A i \in 1..Len(l) : i \in M <=> i \in N)
        /\ (n \in N <=> e.type = "tool/call" /\ e.call = c)
    BY <1>1
  <2>2. /\ SeqOfCall(l, c) = IF M # {} THEN Min(M) ELSE 0
        /\ SeqOfCall(m, c) = IF N # {} THEN Min(N) ELSE 0
    BY DEF SeqOfCall, SelectInSeq
  <2>3. SeqOfCall(l, c) = 0 => M = {}
    BY Positions
  <2> HIDE DEF M, N
  <2> QED BY <2>1, <2>2, <2>3, MatchesAppend
<1> QED BY <1>2, <1>3, <1>4, <1>5 DEF m

\* The events of a log.
LEMMA Events ==
  ASSUME NEW t \in Nat, NEW s \in Nat, NEW c \in Nat
  PROVE  /\ \A type \in Types : Event(type, t, s) \in EventRecord
         /\ \A calls \in Seq(Nat) : Message(t, s, calls) \in EventRecord
         /\ ToolCallOf(t, s, c) \in EventRecord
         /\ \A error \in {"none", "not-started", "unknown"}, source \in Nat :
              Result(t, s, c, error, source, "append") \in EventRecord
<1>1. <<>> \in Seq(Nat) /\ 0 \in Nat
  OBVIOUS
<1>2. \A type \in Types : Event(type, t, s) \in EventRecord
  BY <1>1 DEF Event, EventRecord
<1>3. \A calls \in Seq(Nat) : Message(t, s, calls) \in EventRecord
  BY DEF Message, Event, EventRecord, Types
<1>4. ToolCallOf(t, s, c) \in EventRecord
  BY <1>1 DEF ToolCallOf, Event, EventRecord, Types
<1>5. \A error \in {"none", "not-started", "unknown"}, source \in Nat :
        Result(t, s, c, error, source, "append") \in EventRecord
  BY <1>1 DEF Result, Event, EventRecord, Types
<1> QED BY <1>2, <1>3, <1>4, <1>5

\* What a result leaves of the pending calls.
Without(pending, c) == RemoveFirstMatch(pending, LAMBDA p : p.call = c)

\* The result of the first pending call leaves the others.
LEMMA FirstLeaves ==
  ASSUME NEW p \in Seq(PendingRecord), p # <<>>, NEW c, c = p[1].call
  PROVE  Without(p, c) = Tail(p)
<1>1. Len(p) \in Nat /\ 1 \in 1..Len(p) /\ Len(p) # 0
  BY EmptySeq, LenProperties
<1>2. SelectInSeq(p, LAMBDA x : x.call = c) = 1
  <2> DEFINE I == {i \in 1..Len(p) : p[i].call = c}
  <2>1. SelectInSeq(p, LAMBDA x : x.call = c) = IF I # {} THEN Min(I) ELSE 0
    BY DEF SelectInSeq
  <2>2. 1 \in I /\ \A y \in I : 1 =< y
    BY <1>1
  <2>3. \A x \in I : (\A y \in I : x =< y) => x = 1
    BY <1>1, <2>2
  <2>4. Min(I) = 1
    BY <2>2, <2>3 DEF Min
  <2> QED BY <2>1, <2>2, <2>4
<1>3. \E i \in 1..Len(p) : p[i].call = c
  BY <1>1
<1>4. RemoveFirstMatch(p, LAMBDA x : x.call = c)
        = RemoveAt(p, SelectInSeq(p, LAMBDA x : x.call = c))
  BY <1>3 DEF RemoveFirstMatch
<1>5. RemoveAt(p, 1) = Tail(p)
  <2>1. RemoveAt(p, 1) = SubSeq(p, 1, 0) \o SubSeq(p, 2, Len(p))
    BY DEF RemoveAt
  <2>2. SubSeq(p, 1, 0) = <<>>
    BY <1>1
  <2>3. Tail(p) \in Seq(PendingRecord) /\ SubSeq(p, 2, Len(p)) = Tail(p)
    BY <1>1, HeadTailProperties, SubSeqProperties
  <2> QED BY <2>1, <2>2, <2>3, ConcatEmptySeq
<1> QED BY <1>2, <1>4, <1>5 DEF Without

\* No call is pending, none is taken away.
LEMMA NoneLeaves ==
  ASSUME NEW c
  PROVE  Without(<<>>, c) = <<>>
BY DEF Without, RemoveFirstMatch

\* What each kind of event does to the loop.
LEMMA ScanStep ==
  ASSUME NEW s \in ScanRecord, NEW e \in EventRecord, NEW q \in Nat
  PROVE  /\ e.type = "turn/start" => Scan(s, e, q) = [turn |-> e.turn, step |-> 0, pending |-> <<>>]
         /\ e.type = "turn/end" => Scan(s, e, q) = [turn |-> 0, step |-> 0, pending |-> <<>>]
         /\ e.type = "step/start" => Scan(s, e, q) = [turn |-> s.turn, step |-> e.step, pending |-> s.pending]
         /\ e.type = "step/end" => Scan(s, e, q) = [turn |-> s.turn, step |-> 0, pending |-> <<>>]
         /\ e.type = "assistant/message" =>
              Scan(s, e, q) = [turn |-> s.turn, step |-> s.step, pending |->
                s.pending \o [i \in DOMAIN e.calls |-> Registered(e.calls[i], e.step)]]
         /\ e.type = "tool/call" =>
              Scan(s, e, q) = [turn |-> s.turn, step |-> s.step,
                               pending |-> Recorded(s.pending, e.call, q)]
         /\ e.type = "tool/result" =>
              Scan(s, e, q) = [turn |-> s.turn, step |-> s.step,
                               pending |-> Without(s.pending, e.call)]
         /\ e.type = "session/end-seed" => Scan(s, e, q) = s
<1>1. e.type = "turn/start" => Scan(s, e, q) = [turn |-> e.turn, step |-> 0, pending |-> <<>>]
  BY DEF Scan
<1>2. e.type = "turn/end" => Scan(s, e, q) = [turn |-> 0, step |-> 0, pending |-> <<>>]
  BY DEF Scan
<1>3. e.type = "step/start" => Scan(s, e, q) = [turn |-> s.turn, step |-> e.step, pending |-> s.pending]
  BY DEF Scan, ScanRecord
<1>4. e.type = "step/end" => Scan(s, e, q) = [turn |-> s.turn, step |-> 0, pending |-> <<>>]
  BY DEF Scan, ScanRecord
<1>5. e.type = "assistant/message" =>
        Scan(s, e, q) = [turn |-> s.turn, step |-> s.step, pending |->
          s.pending \o [i \in DOMAIN e.calls |-> Registered(e.calls[i], e.step)]]
  BY DEF Scan, ScanRecord
<1>6. e.type = "tool/call" =>
        Scan(s, e, q) = [turn |-> s.turn, step |-> s.step,
                         pending |-> Recorded(s.pending, e.call, q)]
  BY DEF Scan, ScanRecord
<1>7. e.type = "tool/result" =>
        Scan(s, e, q) = [turn |-> s.turn, step |-> s.step,
                         pending |-> Without(s.pending, e.call)]
  BY DEF Scan, ScanRecord, Without
<1>8. e.type = "session/end-seed" => Scan(s, e, q) = s
  BY DEF Scan
<1> QED BY <1>1, <1>2, <1>3, <1>4, <1>5, <1>6, <1>7, <1>8

\* A trace in which every event was valid.
GoodTrace(openTurn, openStep, nextTurn, nextStep, pendingCalls) ==
  [ok |-> TRUE, openTurn |-> openTurn, openStep |-> openStep, nextTurn |-> nextTurn,
   nextStep |-> nextStep, pendingCalls |-> pendingCalls]

\* What each kind of event does to the trace.
LEMMA TraceStep ==
  ASSUME NEW t \in TraceRecord, NEW e \in EventRecord
  PROVE  /\ e.type = "turn/start" /\ t.openTurn = 0 /\ e.turn = t.nextTurn =>
              Commit(t, e) = GoodTrace(e.turn, t.openStep, t.nextTurn, 1, t.pendingCalls)
         /\ e.type = "turn/end" /\ t.openTurn = e.turn /\ t.openStep = 0 =>
              Commit(t, e) = GoodTrace(0, t.openStep, t.nextTurn + 1, t.nextStep, t.pendingCalls)
         /\ e.type = "step/start" /\ t.openTurn = e.turn /\ t.openStep = 0
            /\ e.step = t.nextStep =>
              Commit(t, e) = GoodTrace(t.openTurn, e.step, t.nextTurn, t.nextStep, t.pendingCalls)
         /\ e.turn = t.openTurn /\ e.step = t.openStep /\ e.step # 0 =>
              /\ e.type = "step/end" =>
                   Commit(t, e) = GoodTrace(t.openTurn, 0, t.nextTurn, t.nextStep + 1, {})
              /\ e.type = "assistant/message" => Commit(t, e) = t
              /\ e.type = "tool/call" =>
                   Commit(t, e) = GoodTrace(t.openTurn, t.openStep, t.nextTurn, t.nextStep,
                                            t.pendingCalls \union {e.call})
              /\ e.type = "tool/result" /\ e.op = "append"
                 /\ (e.call \in t.pendingCalls \/ e.error = "not-started") =>
                   Commit(t, e) = GoodTrace(t.openTurn, t.openStep, t.nextTurn, t.nextStep,
                                            t.pendingCalls \ {e.call})
         /\ e.type = "tool/result" /\ e.op = "replace" /\ t.openTurn # 0 => Commit(t, e) = t
         /\ e.type = "session/end-seed" => Commit(t, e) = t
<1>0. t.ok = TRUE
  BY DEF TraceRecord
<1>1. ASSUME Valid(t, e) PROVE Commit(t, e) = Apply(t, e)
  <2>1. (t.ok /\ Valid(t, e)) = TRUE /\ t.ok = TRUE
    BY <1>1 DEF TraceRecord
  <2>2. [t EXCEPT !.ok = @ /\ Valid(t, e)] = t
    BY <2>1 DEF TraceRecord
  <2> QED BY <2>2 DEF Commit
<1>2. e.type = "turn/start" /\ t.openTurn = 0 /\ e.turn = t.nextTurn =>
        Commit(t, e) = GoodTrace(e.turn, t.openStep, t.nextTurn, 1, t.pendingCalls)
  BY <1>0, <1>1 DEF Valid, Apply, GoodTrace, TraceRecord
<1>3. e.type = "turn/end" /\ t.openTurn = e.turn /\ t.openStep = 0 =>
        Commit(t, e) = GoodTrace(0, t.openStep, t.nextTurn + 1, t.nextStep, t.pendingCalls)
  BY <1>0, <1>1 DEF Valid, Apply, GoodTrace, TraceRecord
<1>4. e.type = "step/start" /\ t.openTurn = e.turn /\ t.openStep = 0 /\ e.step = t.nextStep =>
        Commit(t, e) = GoodTrace(t.openTurn, e.step, t.nextTurn, t.nextStep, t.pendingCalls)
  BY <1>0, <1>1 DEF Valid, Apply, GoodTrace, TraceRecord
<1>5. ASSUME e.turn = t.openTurn, e.step = t.openStep, e.step # 0
      PROVE  /\ e.type = "step/end" =>
                  Commit(t, e) = GoodTrace(t.openTurn, 0, t.nextTurn, t.nextStep + 1, {})
             /\ e.type = "assistant/message" => Commit(t, e) = t
             /\ e.type = "tool/call" =>
                  Commit(t, e) = GoodTrace(t.openTurn, t.openStep, t.nextTurn, t.nextStep,
                                           t.pendingCalls \union {e.call})
             /\ e.type = "tool/result" /\ e.op = "append"
                /\ (e.call \in t.pendingCalls \/ e.error = "not-started") =>
                  Commit(t, e) = GoodTrace(t.openTurn, t.openStep, t.nextTurn, t.nextStep,
                                           t.pendingCalls \ {e.call})
  <2>1. e.type = "step/end" =>
          Commit(t, e) = GoodTrace(t.openTurn, 0, t.nextTurn, t.nextStep + 1, {})
    BY <1>0, <1>1, <1>5 DEF Valid, Apply, GoodTrace, TraceRecord
  <2>2. e.type = "assistant/message" => Commit(t, e) = t
    BY <1>1, <1>5 DEF Valid, Apply
  <2>3. e.type = "tool/call" =>
          Commit(t, e) = GoodTrace(t.openTurn, t.openStep, t.nextTurn, t.nextStep,
                                   t.pendingCalls \union {e.call})
    BY <1>0, <1>1, <1>5 DEF Valid, Apply, GoodTrace, TraceRecord
  <2>4. e.type = "tool/result" /\ e.op = "append"
        /\ (e.call \in t.pendingCalls \/ e.error = "not-started") =>
          Commit(t, e) = GoodTrace(t.openTurn, t.openStep, t.nextTurn, t.nextStep,
                                   t.pendingCalls \ {e.call})
    BY <1>0, <1>1, <1>5 DEF Valid, Apply, GoodTrace, TraceRecord
  <2> QED BY <2>1, <2>2, <2>3, <2>4
<1>6. e.type = "tool/result" /\ e.op = "replace" /\ t.openTurn # 0 => Commit(t, e) = t
  BY <1>1 DEF Valid, Apply
<1>7. e.type = "session/end-seed" => Commit(t, e) = t
  BY <1>1 DEF Valid, Apply
<1> QED BY <1>2, <1>3, <1>4, <1>5, <1>6, <1>7

\* A log with one more event.
LEMMA Extended ==
  ASSUME NEW l \in Seq(EventRecord), NEW e \in EventRecord
  PROVE  LET m == Append(l, e)
         IN  /\ m \in Seq(EventRecord) /\ Len(m) = Len(l) + 1 /\ Len(l) \in Nat
             /\ m[Len(l) + 1] = e /\ \A i \in 1..Len(l) : m[i] = l[i]
             /\ Scanned(m) = Scan(Scanned(l), e, Len(l) + 1)
             /\ Traced(m) = Commit(Traced(l), e)
             /\ Answers(m) = Collected(Answers(l), e)
<1>1. Append(l, e) \in Seq(EventRecord) /\ Len(Append(l, e)) = Len(l) + 1 /\ Len(l) \in Nat
      /\ Append(l, e)[Len(l) + 1] = e /\ \A i \in 1..Len(l) : Append(l, e)[i] = l[i]
  BY AppendProperties, LenProperties
<1> QED BY <1>1, ScannedAppend, TracedAppend, AnswersAppend

\* What a sound log and a first look at its parts give.
LEMMA SoundParts ==
  ASSUME NEW l, SoundLog(l)
  PROVE  /\ l \in Seq(EventRecord) /\ Scanned(l) \in ScanRecord /\ Traced(l) \in TraceRecord
         /\ Traced(l).openTurn = Scanned(l).turn
         /\ Traced(l).openStep = Scanned(l).step
         /\ Scanned(l).turn = 0 => Scanned(l).step = 0
         /\ Scanned(l).step = 0 => Scanned(l).pending = <<>>
         /\ LastMessage(l) > LastStepEnd(l) => Scanned(l).step # 0
         /\ ~(LastMessage(l) > LastStepEnd(l)) => Scanned(l).pending = <<>>
         /\ LastTurn(l) \in Nat
         /\ Scanned(l).turn # 0 => Scanned(l).turn = LastTurn(l)
         /\ Traced(l).nextTurn = IF Scanned(l).turn = 0 THEN LastTurn(l) + 1 ELSE LastTurn(l)
<1>1. l \in Seq(EventRecord) /\ Agree(Scanned(l), Traced(l)) /\ Numbered(Traced(l), LastTurn(l))
      /\ AnsweredOK(l, Scanned(l))
  BY DEF SoundLog
<1> QED BY <1>1, Positions DEF Agree, Numbered, AnsweredOK

\* turn/start of the next turn.
LEMMA TurnStarts ==
  ASSUME NEW l, SoundLog(l), Scanned(l).turn = 0
  PROVE  LET t == LastTurn(l) + 1
             m == Append(l, Event("turn/start", t, 0))
         IN  /\ SoundLog(m) /\ LastTurn(m) = t
             /\ Scanned(m) = [turn |-> t, step |-> 0, pending |-> <<>>]
             /\ Traced(m).nextStep = 1
<1> DEFINE t == LastTurn(l) + 1
           e == Event("turn/start", t, 0)
           m == Append(l, e)
<1>1. l \in Seq(EventRecord) /\ t \in Nat /\ e \in EventRecord
  BY SoundParts, Events DEF Types
<1>2. e.type = "turn/start" /\ e.turn = t /\ e.step = 0
  BY DEF Event
<1>3. Scanned(m) = [turn |-> t, step |-> 0, pending |-> <<>>]
  <2> HIDE DEF e, t
  <2>1. Scanned(m) = Scan(Scanned(l), e, Len(l) + 1) /\ Len(l) + 1 \in Nat
    BY <1>1, Extended
  <2>2. Scanned(l) \in ScanRecord
    BY SoundParts
  <2> QED BY <1>1, <1>2, <2>1, <2>2, ScanStep
<1>4. Traced(m) = GoodTrace(t, 0, t, 1, Traced(l).pendingCalls)
  <2>1. Traced(l).openTurn = 0 /\ Traced(l).openStep = 0 /\ t = Traced(l).nextTurn
        /\ Traced(l) \in TraceRecord
    BY SoundParts
  <2> HIDE DEF e, t
  <2>2. Traced(m) = Commit(Traced(l), e)
    BY <1>1, Extended
  <2>3. Commit(Traced(l), e)
          = GoodTrace(e.turn, Traced(l).openStep, Traced(l).nextTurn, 1, Traced(l).pendingCalls)
    BY <1>1, <1>2, <2>1, TraceStep
  <2> QED BY <1>2, <2>1, <2>2, <2>3
<1>5. LastTurn(m) = t /\ LastMessage(m) = LastMessage(l) /\ LastStepEnd(m) = LastStepEnd(l)
  <2> HIDE DEF e, t
  <2> QED BY <1>1, <1>2, PositionsAppend
<1>6. m \in Seq(EventRecord)
  <2> HIDE DEF e
  <2> QED BY <1>1, Extended
<1> HIDE DEF e, m
<1>7. <<>> \in Seq(PendingRecord) /\ Traced(m).nextStep = 1 /\ Traced(m).nextTurn = t
      /\ Traced(m).openTurn = t /\ Traced(m).openStep = 0 /\ Traced(m) \in TraceRecord
      /\ Scanned(m) \in ScanRecord
  <2>1. Scanned(m) \in ScanRecord
    BY <1>1, <1>3 DEF ScanRecord
  <2>2. Traced(l) \in TraceRecord
    BY SoundParts
  <2> HIDE DEF t
  <2> QED BY <1>1, <1>4, <2>1, <2>2 DEF TraceRecord, GoodTrace
<1>8. Agree(Scanned(m), Traced(m))
  BY <1>3, <1>7 DEF Agree
<1>9. Numbered(Traced(m), LastTurn(m))
  BY <1>1, <1>5, <1>7, SoundParts DEF Numbered
<1>10. AnsweredOK(m, Scanned(m))
  BY <1>3, <1>5, SoundParts DEF AnsweredOK
<1> QED BY <1>3, <1>5, <1>6, <1>7, <1>8, <1>9, <1>10 DEF SoundLog, m, e

\* step/start with the next number.
LEMMA StepStarts ==
  ASSUME NEW l, SoundLog(l), Scanned(l).turn # 0, Scanned(l).step = 0,
         Traced(l).nextStep # 0
  PROVE  LET t == Scanned(l).turn
             n == Traced(l).nextStep
             m == Append(l, Event("step/start", t, n))
         IN  /\ SoundLog(m) /\ LastTurn(m) = LastTurn(l)
             /\ LastMessage(m) = LastMessage(l) /\ LastStepEnd(m) = LastStepEnd(l)
             /\ Scanned(m) = [turn |-> t, step |-> n, pending |-> <<>>]
             /\ Traced(m).nextStep = n
<1> DEFINE t == Scanned(l).turn
           n == Traced(l).nextStep
           e == Event("step/start", t, n)
           m == Append(l, e)
<1>1. Scanned(l) \in ScanRecord /\ Traced(l) \in TraceRecord
      /\ Traced(l).openTurn = t /\ Traced(l).openStep = Scanned(l).step
      /\ (Scanned(l).step = 0 => Scanned(l).pending = <<>>) /\ Len(l) \in Nat
  BY SoundParts, LenProperties
<1>2. l \in Seq(EventRecord) /\ e \in EventRecord
  <2>1. t \in Nat /\ n \in Nat
    BY <1>1 DEF ScanRecord, TraceRecord
  <2> HIDE DEF t, n
  <2> QED BY <2>1, SoundParts, Events DEF Types
<1>3. e.type = "step/start" /\ e.turn = t /\ e.step = n
  BY DEF Event
<1>4. Scanned(m) = [turn |-> t, step |-> n, pending |-> <<>>]
  <2> HIDE DEF e
  <2>1. Scanned(m) = Scan(Scanned(l), e, Len(l) + 1) /\ Len(l) + 1 \in Nat
    BY <1>2, Extended
  <2>2. Scan(Scanned(l), e, Len(l) + 1) = [turn |-> t, step |-> n, pending |-> Scanned(l).pending]
    BY <1>1, <1>2, <1>3, <2>1, ScanStep
  <2>3. Scanned(l).pending = <<>>
    BY <1>1
  <2> QED BY <2>1, <2>2, <2>3
<1>5. Traced(m) = GoodTrace(t, n, Traced(l).nextTurn, n, Traced(l).pendingCalls)
  <2> HIDE DEF e
  <2>1. Traced(m) = Commit(Traced(l), e)
    BY <1>2, Extended
  <2> QED BY <1>1, <1>2, <1>3, <2>1, TraceStep
<1>6. LastTurn(m) = LastTurn(l) /\ LastMessage(m) = LastMessage(l) /\ LastStepEnd(m) = LastStepEnd(l)
  <2> HIDE DEF e
  <2> QED BY <1>2, <1>3, PositionsAppend
<1>7. m \in Seq(EventRecord)
  <2> HIDE DEF e
  <2> QED BY <1>2, Extended
<1> HIDE DEF e, m
<1>8. /\ Traced(m) \in TraceRecord /\ Traced(m).openTurn = t /\ Traced(m).openStep = n
      /\ Traced(m).nextStep = n /\ Traced(m).nextTurn = Traced(l).nextTurn
  BY <1>1, <1>5 DEF TraceRecord, ScanRecord, GoodTrace
<1>9. Scanned(m) \in ScanRecord /\ <<>> \in Seq(PendingRecord)
  BY <1>1, <1>4 DEF ScanRecord, TraceRecord
<1>10. Agree(Scanned(m), Traced(m))
  BY <1>4, <1>8, <1>9 DEF Agree
<1>11. Numbered(Traced(m), LastTurn(m))
  BY <1>6, <1>8, SoundParts DEF Numbered
<1>12. AnsweredOK(m, Scanned(m))
  <2>1. ~(LastMessage(m) > LastStepEnd(m))
    BY <1>1, <1>2, <1>6, SoundParts, Positions
  <2> QED BY <1>4, <2>1 DEF AnsweredOK
<1> QED BY <1>4, <1>6, <1>7, <1>8, <1>10, <1>11, <1>12 DEF SoundLog, m, e

\* step/end: the calls that were pending are forgotten.
LEMMA StepEnds ==
  ASSUME NEW l, SoundLog(l), Scanned(l).step # 0
  PROVE  LET t == Scanned(l).turn
             n == Scanned(l).step
             m == Append(l, Event("step/end", t, n))
         IN  /\ SoundLog(m) /\ LastTurn(m) = LastTurn(l)
             /\ LastMessage(m) = LastMessage(l) /\ LastStepEnd(m) = Len(l) + 1
             /\ Scanned(m) = [turn |-> t, step |-> 0, pending |-> <<>>]
             /\ Traced(m).nextStep = Traced(l).nextStep + 1
<1> DEFINE t == Scanned(l).turn
           n == Scanned(l).step
           e == Event("step/end", t, n)
           m == Append(l, e)
<1>1. Scanned(l) \in ScanRecord /\ Traced(l) \in TraceRecord
      /\ Traced(l).openTurn = t /\ Traced(l).openStep = Scanned(l).step
      /\ (Scanned(l).step = 0 => Scanned(l).pending = <<>>) /\ Len(l) \in Nat
  BY SoundParts, LenProperties
<1>2. l \in Seq(EventRecord) /\ e \in EventRecord
  <2>1. t \in Nat /\ n \in Nat
    BY <1>1 DEF ScanRecord, TraceRecord
  <2> HIDE DEF t, n
  <2> QED BY <2>1, SoundParts, Events DEF Types
<1>3. e.type = "step/end" /\ e.turn = t /\ e.step = n
  BY DEF Event
<1>4. Scanned(m) = [turn |-> t, step |-> 0, pending |-> <<>>]
  <2> HIDE DEF e
  <2>1. Scanned(m) = Scan(Scanned(l), e, Len(l) + 1) /\ Len(l) + 1 \in Nat
    BY <1>2, Extended
  <2>2. Scan(Scanned(l), e, Len(l) + 1) = [turn |-> t, step |-> 0, pending |-> <<>>]
    BY <1>1, <1>2, <1>3, <2>1, ScanStep
  <2>3. <<>> = <<>>
    BY <1>1
  <2> QED BY <2>1, <2>2, <2>3
<1>5. Traced(m) = GoodTrace(t, 0, Traced(l).nextTurn, Traced(l).nextStep + 1, {})
  <2> HIDE DEF e
  <2>1. Traced(m) = Commit(Traced(l), e)
    BY <1>2, Extended
  <2> QED BY <1>1, <1>2, <1>3, <2>1, TraceStep
<1>6. LastTurn(m) = LastTurn(l) /\ LastMessage(m) = LastMessage(l) /\ LastStepEnd(m) = Len(l) + 1
  <2> HIDE DEF e
  <2> QED BY <1>2, <1>3, PositionsAppend
<1>7. m \in Seq(EventRecord)
  <2> HIDE DEF e
  <2> QED BY <1>2, Extended
<1> HIDE DEF e, m
<1>8. /\ Traced(m) \in TraceRecord /\ Traced(m).openTurn = t /\ Traced(m).openStep = 0
      /\ Traced(m).nextStep = Traced(l).nextStep + 1 /\ Traced(m).nextTurn = Traced(l).nextTurn
  BY <1>1, <1>5 DEF TraceRecord, ScanRecord, GoodTrace
<1>9. Scanned(m) \in ScanRecord /\ <<>> \in Seq(PendingRecord)
  BY <1>1, <1>4 DEF ScanRecord, TraceRecord
<1>10. Agree(Scanned(m), Traced(m))
  BY <1>4, <1>8, <1>9 DEF Agree
<1>11. Numbered(Traced(m), LastTurn(m))
  BY <1>6, <1>8, SoundParts DEF Numbered
<1>12. AnsweredOK(m, Scanned(m))
  <2>1. ~(LastMessage(m) > LastStepEnd(m))
    BY <1>1, <1>2, <1>6, SoundParts, Positions
  <2> QED BY <1>4, <2>1 DEF AnsweredOK
<1> QED BY <1>4, <1>6, <1>7, <1>8, <1>10, <1>11, <1>12 DEF SoundLog, m, e

\* turn/end, once the step is closed.
LEMMA TurnEnds ==
  ASSUME NEW l, SoundLog(l), Scanned(l).turn # 0, Scanned(l).step = 0
  PROVE  LET t == Scanned(l).turn
             n == 0
             m == Append(l, Event("turn/end", t, n))
         IN  /\ SoundLog(m) /\ LastTurn(m) = LastTurn(l)
             /\ LastMessage(m) = LastMessage(l) /\ LastStepEnd(m) = LastStepEnd(l)
             /\ Scanned(m) = [turn |-> 0, step |-> 0, pending |-> <<>>]
             /\ Traced(m).nextStep = Traced(l).nextStep
<1> DEFINE t == Scanned(l).turn
           n == 0
           e == Event("turn/end", t, n)
           m == Append(l, e)
<1>1. Scanned(l) \in ScanRecord /\ Traced(l) \in TraceRecord
      /\ Traced(l).openTurn = t /\ Traced(l).openStep = Scanned(l).step
      /\ (Scanned(l).step = 0 => Scanned(l).pending = <<>>) /\ Len(l) \in Nat
  BY SoundParts, LenProperties
<1>2. l \in Seq(EventRecord) /\ e \in EventRecord
  <2>1. t \in Nat /\ n \in Nat
    BY <1>1 DEF ScanRecord, TraceRecord
  <2> HIDE DEF t, n
  <2> QED BY <2>1, SoundParts, Events DEF Types
<1>3. e.type = "turn/end" /\ e.turn = t /\ e.step = n
  BY DEF Event
<1>4. Scanned(m) = [turn |-> 0, step |-> 0, pending |-> <<>>]
  <2> HIDE DEF e
  <2>1. Scanned(m) = Scan(Scanned(l), e, Len(l) + 1) /\ Len(l) + 1 \in Nat
    BY <1>2, Extended
  <2>2. Scan(Scanned(l), e, Len(l) + 1) = [turn |-> 0, step |-> 0, pending |-> <<>>]
    BY <1>1, <1>2, <1>3, <2>1, ScanStep
  <2>3. <<>> = <<>>
    BY <1>1
  <2> QED BY <2>1, <2>2, <2>3
<1>5. Traced(m) = GoodTrace(0, 0, Traced(l).nextTurn + 1, Traced(l).nextStep, Traced(l).pendingCalls)
  <2> HIDE DEF e
  <2>1. Traced(m) = Commit(Traced(l), e)
    BY <1>2, Extended
  <2> QED BY <1>1, <1>2, <1>3, <2>1, TraceStep
<1>6. LastTurn(m) = LastTurn(l) /\ LastMessage(m) = LastMessage(l) /\ LastStepEnd(m) = LastStepEnd(l)
  <2> HIDE DEF e
  <2> QED BY <1>2, <1>3, PositionsAppend
<1>7. m \in Seq(EventRecord)
  <2> HIDE DEF e
  <2> QED BY <1>2, Extended
<1> HIDE DEF e, m
<1>8. /\ Traced(m) \in TraceRecord /\ Traced(m).openTurn = 0 /\ Traced(m).openStep = 0
      /\ Traced(m).nextStep = Traced(l).nextStep /\ Traced(m).nextTurn = Traced(l).nextTurn + 1
  BY <1>1, <1>5 DEF TraceRecord, ScanRecord, GoodTrace
<1>9. Scanned(m) \in ScanRecord /\ <<>> \in Seq(PendingRecord)
  BY <1>1, <1>4 DEF ScanRecord, TraceRecord
<1>10. Agree(Scanned(m), Traced(m))
  BY <1>4, <1>8, <1>9 DEF Agree
<1>11. Numbered(Traced(m), LastTurn(m))
  BY <1>6, <1>8, SoundParts DEF Numbered
<1>12. AnsweredOK(m, Scanned(m))
  <2>1. ~(LastMessage(m) > LastStepEnd(m))
    BY <1>1, <1>2, <1>6, SoundParts, Positions
  <2> QED BY <1>4, <2>1 DEF AnsweredOK
<1> QED BY <1>4, <1>6, <1>7, <1>8, <1>10, <1>11, <1>12 DEF SoundLog, m, e

\* An event that neither scan looks at: the mark of a seed, a rewritten result.
LEMMA Unnoticed ==
  ASSUME NEW l, SoundLog(l), NEW e \in EventRecord,
         \/ e.type = "session/end-seed"
         \/ e.type = "tool/result" /\ e.op = "replace" /\ Scanned(l).turn # 0 /\ Scanned(l).step = 0
  PROVE  LET m == Append(l, e)
         IN  /\ SoundLog(m) /\ LastTurn(m) = LastTurn(l) /\ Answers(m) = Answers(l)
             /\ LastMessage(m) = LastMessage(l) /\ LastStepEnd(m) = LastStepEnd(l)
             /\ Scanned(m) = Scanned(l) /\ Traced(m) = Traced(l)
             /\ \A c : SeqOfCall(m, c) = SeqOfCall(l, c)
<1> DEFINE m == Append(l, e)
<1>1. l \in Seq(EventRecord) /\ Scanned(l) \in ScanRecord /\ Traced(l) \in TraceRecord
      /\ Traced(l).openTurn = Scanned(l).turn
      /\ (Scanned(l).step = 0 => Scanned(l).pending = <<>>)
  BY SoundParts
<1>2. /\ m \in Seq(EventRecord) /\ Len(m) = Len(l) + 1 /\ Len(l) \in Nat
      /\ \A i \in 1..Len(l) : m[i] = l[i]
      /\ Scanned(m) = Scan(Scanned(l), e, Len(l) + 1)
      /\ Traced(m) = Commit(Traced(l), e)
      /\ Answers(m) = Collected(Answers(l), e)
  BY <1>1, Extended
<1>3. /\ LastTurn(m) = LastTurn(l) /\ LastMessage(m) = LastMessage(l)
      /\ LastStepEnd(m) = LastStepEnd(l) /\ \A c : SeqOfCall(m, c) = SeqOfCall(l, c)
  BY <1>1, PositionsAppend
<1> HIDE DEF m
<1>4. Scanned(m) = Scanned(l)
  <2>1. CASE e.type = "session/end-seed"
    <3>1. Len(l) + 1 \in Nat
      BY <1>2
    <3> QED BY <1>1, <1>2, <2>1, <3>1, ScanStep
  <2>2. CASE e.type = "tool/result" /\ e.op = "replace" /\ Scanned(l).turn # 0 /\ Scanned(l).step = 0
    <3>1. Scanned(m) = [turn |-> Scanned(l).turn, step |-> Scanned(l).step,
                        pending |-> Without(Scanned(l).pending, e.call)]
      <4>1. Len(l) + 1 \in Nat
        BY <1>2
      <4> QED BY <1>1, <1>2, <2>2, <4>1, ScanStep
    <3>2. Scanned(l).pending = <<>>
      BY <1>1, <2>2
    <3>3. Without(<<>>, e.call) = <<>>
      BY NoneLeaves
    <3> QED BY <1>1, <3>1, <3>2, <3>3 DEF ScanRecord
  <2> QED BY <2>1, <2>2
<1>5. Traced(m) = Traced(l)
  BY <1>1, <1>2, TraceStep
<1>6. Answers(m) = Answers(l)
  BY <1>2 DEF Collected
<1>7. AnsweredOK(m, Scanned(m))
  <2>1. AnsweredOK(l, Scanned(l))
    BY DEF SoundLog
  <2>2. CASE LastMessage(l) > LastStepEnd(l)
    <3>1. LastMessage(l) \in 1..Len(l)
      BY <1>1, <1>2, <2>2, Positions
    <3>2. m[LastMessage(m)].calls = l[LastMessage(l)].calls
      BY <1>2, <1>3, <3>1
    <3> QED BY <1>3, <1>4, <1>6, <2>1, <2>2, <3>2 DEF AnsweredOK, CallsOK, CitedOK
  <2>3. CASE ~(LastMessage(l) > LastStepEnd(l))
    BY <1>3, <1>4, <2>1, <2>3 DEF AnsweredOK
  <2> QED BY <2>2, <2>3
<1>8. Agree(Scanned(m), Traced(m)) /\ Numbered(Traced(m), LastTurn(m))
  BY <1>3, <1>4, <1>5 DEF SoundLog
<1> QED BY <1>2, <1>3, <1>4, <1>5, <1>6, <1>7, <1>8 DEF SoundLog, m

\* The calls of a message, as they are registered.
LEMMA RegisteredCalls ==
  ASSUME NEW calls \in Seq(Nat), NEW n \in Nat
  PROVE  LET p == [i \in DOMAIN calls |-> Registered(calls[i], n)]
         IN  /\ p \in Seq(PendingRecord) /\ Len(p) = Len(calls) /\ DOMAIN p = DOMAIN calls
             /\ \A i \in DOMAIN calls :
                  p[i].call = calls[i] /\ p[i].step = n /\ p[i].callSeq = 0
             /\ <<>> \o p = p
<1> DEFINE p == [i \in DOMAIN calls |-> Registered(calls[i], n)]
<1>1. DOMAIN calls = 1..Len(calls) /\ Len(calls) \in Nat /\ \A i \in DOMAIN calls : calls[i] \in Nat
  BY LenProperties, ElementOfSeq
<1>2. \A i \in DOMAIN calls : p[i] \in PendingRecord
  BY <1>1 DEF Registered, PendingRecord
<1>3. p \in Seq(PendingRecord) /\ Len(p) = Len(calls)
  <2>1. p \in [1..Len(calls) -> PendingRecord]
    BY <1>1, <1>2
  <2> HIDE DEF p
  <2> QED BY <1>1, <2>1
<1>4. \A i \in DOMAIN calls : p[i].call = calls[i] /\ p[i].step = n /\ p[i].callSeq = 0
  BY DEF Registered
<1>5. <<>> \o p = p
  <2> HIDE DEF p
  <2> QED BY <1>3, ConcatEmptySeq
<1> QED BY <1>3, <1>4, <1>5

\* assistant/message, the first of its step, with calls that are new.
LEMMA MessageArrives ==
  ASSUME NEW l, SoundLog(l), Scanned(l).step # 0, LastMessage(l) <= LastStepEnd(l),
         NEW calls \in Seq(Nat),
         \A i, j \in DOMAIN calls : calls[i] = calls[j] => i = j,
         \A i \in DOMAIN calls : SeqOfCall(l, calls[i]) = 0
  PROVE  LET t == Scanned(l).turn
             n == Scanned(l).step
             m == Append(l, Message(t, n, calls))
         IN  /\ SoundLog(m) /\ LastTurn(m) = LastTurn(l)
             /\ LastMessage(m) > LastStepEnd(m)
             /\ Scanned(m) = [turn |-> t, step |-> n,
                              pending |-> [i \in DOMAIN calls |-> Registered(calls[i], n)]]
             /\ Traced(m) = Traced(l)
<1> DEFINE t == Scanned(l).turn
           n == Scanned(l).step
           e == Message(t, n, calls)
           p == [i \in DOMAIN calls |-> Registered(calls[i], n)]
           m == Append(l, e)
<1>1. /\ l \in Seq(EventRecord) /\ Scanned(l) \in ScanRecord /\ Traced(l) \in TraceRecord
      /\ Traced(l).openTurn = t /\ Traced(l).openStep = n /\ t # 0
      /\ Scanned(l).pending = <<>>
      /\ LastMessage(l) \in 0..Len(l) /\ LastStepEnd(l) \in 0..Len(l) /\ Len(l) \in Nat
  BY SoundParts, Positions, LenProperties
<1>2. t \in Nat /\ n \in Nat
  BY <1>1 DEF ScanRecord
<1>3. e \in EventRecord
  BY <1>2, Events
<1>4. e.type = "assistant/message" /\ e.turn = t /\ e.step = n /\ e.calls = calls
  BY DEF Message, Event
<1>5. p \in Seq(PendingRecord) /\ Len(p) = Len(calls) /\ DOMAIN p = DOMAIN calls /\ <<>> \o p = p
      /\ \A i \in DOMAIN calls : p[i].call = calls[i] /\ p[i].step = n /\ p[i].callSeq = 0
  BY <1>2, RegisteredCalls
<1>6. /\ m \in Seq(EventRecord) /\ Len(m) = Len(l) + 1 /\ m[Len(l) + 1] = e
      /\ Scanned(m) = Scan(Scanned(l), e, Len(l) + 1)
      /\ Traced(m) = Commit(Traced(l), e)
      /\ Answers(m) = Collected(Answers(l), e)
  <2> HIDE DEF e
  <2> QED BY <1>1, <1>3, Extended
<1>7. /\ LastTurn(m) = LastTurn(l) /\ LastMessage(m) = Len(l) + 1
      /\ LastStepEnd(m) = LastStepEnd(l) /\ \A c : SeqOfCall(m, c) = SeqOfCall(l, c)
  <2> HIDE DEF e
  <2> QED BY <1>1, <1>3, <1>4, PositionsAppend
<1> HIDE DEF e, m
<1>8. Scanned(m) = [turn |-> t, step |-> n, pending |-> p]
  <2>1. Len(l) + 1 \in Nat
    BY <1>1
  <2>2. Scan(Scanned(l), e, Len(l) + 1) = [turn |-> t, step |-> n, pending |-> <<>> \o p]
    <3>1. Scan(Scanned(l), e, Len(l) + 1)
            = [turn |-> t, step |-> n, pending |->
                 Scanned(l).pending \o [i \in DOMAIN e.calls |-> Registered(e.calls[i], e.step)]]
      BY <1>1, <1>3, <1>4, <2>1, ScanStep
    <3>2. [i \in DOMAIN e.calls |-> Registered(e.calls[i], e.step)] = p
      BY <1>4
    <3> HIDE DEF p
    <3> QED BY <1>1, <3>1, <3>2
  <2> QED BY <1>5, <1>6, <2>2
<1>9. Traced(m) = Traced(l)
  <2>1. e.turn = Traced(l).openTurn /\ e.step = Traced(l).openStep /\ e.step # 0
    BY <1>1, <1>4
  <2>2. Commit(Traced(l), e) = Traced(l)
    BY <1>1, <1>3, <1>4, <2>1, TraceStep
  <2> QED BY <1>6, <2>2
<1>10. Answers(m) = <<>>
  BY <1>4, <1>6 DEF Collected
<1> HIDE DEF p
<1>11. Agree(Scanned(m), Traced(m))
  <2>1. Scanned(m) \in ScanRecord
    BY <1>2, <1>5, <1>8 DEF ScanRecord
  <2>2. DOMAIN Scanned(m).pending = DOMAIN calls /\ Scanned(m).step = n /\ Scanned(m).turn = t
    BY <1>5, <1>8
  <2>3. ASSUME NEW i \in DOMAIN Scanned(m).pending
        PROVE  /\ Scanned(m).pending[i].step = Scanned(m).step
               /\ Scanned(m).pending[i].callSeq = 0
               /\ \A j \in DOMAIN Scanned(m).pending :
                    Scanned(m).pending[i].call = Scanned(m).pending[j].call => i = j
    BY <1>5, <1>8, <2>2
  <2> QED BY <1>1, <1>9, <2>1, <2>2, <2>3 DEF Agree
<1>12. Numbered(Traced(m), LastTurn(m))
  BY <1>7, <1>9 DEF SoundLog
<1>13. LastMessage(m) > LastStepEnd(m)
  BY <1>1, <1>7
<1>14. AnsweredOK(m, Scanned(m))
  <2>1. m[LastMessage(m)].calls = calls
    BY <1>4, <1>6, <1>7
  <2>2. Len(Answers(m)) = 0 /\ DOMAIN Answers(m) = {}
    BY <1>10
  <2>3. Len(p) \in Nat /\ DOMAIN p = 1..Len(p)
    BY <1>5, LenProperties
  <2>4. ASSUME NEW i \in DOMAIN p
        PROVE  p[i].call = calls[0 + i] /\ CitedOK(m, p[i].call, p[i].callSeq)
    <3>1. i \in DOMAIN calls /\ 0 + i = i
      BY <1>5, <2>3
    <3> QED BY <1>5, <1>7, <3>1 DEF CitedOK
  <2>5. CallsOK(m, Answers(m), p)
    BY <1>5, <2>1, <2>2, <2>3, <2>4 DEF CallsOK
  <2> QED BY <1>8, <1>13, <2>5 DEF AnsweredOK
<1> QED BY <1>6, <1>7, <1>8, <1>9, <1>11, <1>12, <1>13, <1>14 DEF SoundLog, m, e, p

\* tool/call marks the entry of its call and no other.
LEMMA RecordedCall ==
  ASSUME NEW p \in Seq(PendingRecord), NEW k \in DOMAIN p, NEW q \in Nat,
         \A i, j \in DOMAIN p : p[i].call = p[j].call => i = j
  PROVE  LET r == Recorded(p, p[k].call, q)
         IN  /\ r \in Seq(PendingRecord) /\ Len(r) = Len(p) /\ DOMAIN r = DOMAIN p
             /\ \A i \in DOMAIN p :
                  /\ r[i].call = p[i].call /\ r[i].step = p[i].step
                  /\ r[i].callSeq = IF i = k THEN q ELSE p[i].callSeq
<1> DEFINE r == Recorded(p, p[k].call, q)
<1>1. DOMAIN p = 1..Len(p) /\ Len(p) \in Nat /\ \A i \in DOMAIN p : p[i] \in PendingRecord
  BY LenProperties, ElementOfSeq
<1>2. \A i \in DOMAIN p : r[i] = IF i = k THEN [p[i] EXCEPT !.callSeq = q] ELSE p[i]
  BY DEF Recorded
<1>3. DOMAIN r = DOMAIN p
  BY DEF Recorded
<1>4. \A i \in DOMAIN p : r[i] \in PendingRecord
  BY <1>1, <1>2 DEF PendingRecord
<1>5. r \in [1..Len(p) -> PendingRecord]
  BY <1>1, <1>4 DEF Recorded
<1> HIDE DEF r
<1>6. r \in Seq(PendingRecord) /\ Len(r) = Len(p)
  BY <1>1, <1>5
<1>7. \A i \in DOMAIN p : /\ r[i].call = p[i].call /\ r[i].step = p[i].step
                          /\ r[i].callSeq = IF i = k THEN q ELSE p[i].callSeq
  BY <1>1, <1>2 DEF PendingRecord
<1> QED BY <1>3, <1>6, <1>7 DEF r

\* The results of a log are events of it.
LEMMA AnswersAreEvents ==
  ASSUME NEW l \in Seq(EventRecord)
  PROVE  Answers(l) \in Seq(EventRecord)
<1> DEFINE f == AnswersOf(l)
           Fine == {i \in Nat : i <= Len(l) => f[i] \in Seq(EventRecord)}
<1>1. Len(l) \in Nat /\ \A i \in 1..Len(l) : l[i] \in EventRecord
  BY LenProperties, ElementOfSeq
<1>2. \A i \in 0..Len(l) : f[i] = IF i = 0 THEN <<>> ELSE Collected(f[i - 1], l[i])
  BY AnswersOfExists
<1> HIDE DEF f
<1>3. 0 \in Fine
  <2>1. 0 \in 0..Len(l)
    BY <1>1
  <2>2. f[0] = <<>>
    BY <1>2, <2>1
  <2> QED BY <2>2, EmptySeq
<1>4. ASSUME NEW n \in Nat, n \in Fine PROVE n + 1 \in Fine
  <2>1. SUFFICES ASSUME n + 1 <= Len(l) PROVE f[n + 1] \in Seq(EventRecord)
    OBVIOUS
  <2>2. f[n] \in Seq(EventRecord) /\ l[n + 1] \in EventRecord
        /\ n + 1 \in 0..Len(l) /\ n + 1 # 0 /\ (n + 1) - 1 = n
    BY <1>1, <1>4, <2>1
  <2>3. f[n + 1] = Collected(f[n], l[n + 1])
    BY <1>2, <2>2
  <2>4. f[n + 1] \in {<<>>, f[n], Append(f[n], l[n + 1])}
    BY <2>3 DEF Collected
  <2>5. <<>> \in Seq(EventRecord) /\ Append(f[n], l[n + 1]) \in Seq(EventRecord)
    BY <2>2, AppendProperties
  <2> QED BY <2>2, <2>4, <2>5
<1>5. Nat \subseteq Fine
  <2> HIDE DEF Fine
  <2> QED BY <1>3, <1>4, SetInduction
<1> QED BY <1>1, <1>5 DEF Answers, f

\* Calls are pending only in an open step, after its message.
LEMMA OpenCalls ==
  ASSUME NEW l, SoundLog(l), Scanned(l).pending # <<>>
  PROVE  LET s == Scanned(l)
         IN  /\ s.turn \in Nat \ {0} /\ s.step \in Nat \ {0} /\ s.pending \in Seq(PendingRecord)
             /\ DOMAIN s.pending = 1..Len(s.pending) /\ Len(s.pending) \in Nat \ {0}
             /\ LastMessage(l) > LastStepEnd(l) /\ LastMessage(l) \in 1..Len(l)
             /\ CallsOK(l, Answers(l), s.pending)
             /\ \A i \in DOMAIN s.pending :
                  /\ s.pending[i] \in PendingRecord /\ s.pending[i].step = s.step
                  /\ s.pending[i].callSeq # 0 => s.pending[i].call \in Traced(l).pendingCalls
                  /\ \A j \in DOMAIN s.pending : s.pending[i].call = s.pending[j].call => i = j
<1> DEFINE s == Scanned(l)
<1>1. /\ s \in ScanRecord /\ s.turn # 0 /\ s.step # 0 /\ LastMessage(l) > LastStepEnd(l)
      /\ l \in Seq(EventRecord)
  BY SoundParts
<1>2. s.turn \in Nat \ {0} /\ s.step \in Nat \ {0} /\ s.pending \in Seq(PendingRecord)
  BY <1>1 DEF ScanRecord
<1>3. /\ DOMAIN s.pending = 1..Len(s.pending) /\ Len(s.pending) \in Nat \ {0}
      /\ \A i \in DOMAIN s.pending : s.pending[i] \in PendingRecord
  <2> HIDE DEF s
  <2> QED BY <1>2, EmptySeq, LenProperties, ElementOfSeq DEF s
<1>4. LastMessage(l) \in 1..Len(l)
  BY <1>1, Positions, LenProperties
<1>5. CallsOK(l, Answers(l), s.pending)
  BY <1>1 DEF SoundLog, AnsweredOK
<1>6. \A i \in DOMAIN s.pending :
        /\ s.pending[i].step = s.step
        /\ s.pending[i].callSeq # 0 => s.pending[i].call \in Traced(l).pendingCalls
        /\ \A j \in DOMAIN s.pending : s.pending[i].call = s.pending[j].call => i = j
  BY DEF SoundLog, Agree
<1> QED BY <1>1, <1>2, <1>3, <1>4, <1>5, <1>6

\* tool/call of a pending call that was not recorded before.
LEMMA CallStarts ==
  ASSUME NEW l, SoundLog(l), NEW k \in DOMAIN Scanned(l).pending,
         Scanned(l).pending[k].callSeq = 0, Scanned(l).pending # <<>>
  PROVE  LET t == Scanned(l).turn
             n == Scanned(l).step
             p == Scanned(l).pending
             m == Append(l, ToolCallOf(t, n, p[k].call))
         IN  /\ SoundLog(m) /\ LastTurn(m) = LastTurn(l)
             /\ LastMessage(m) = LastMessage(l) /\ LastStepEnd(m) = LastStepEnd(l)
             /\ Scanned(m) = [turn |-> t, step |-> n,
                              pending |-> Recorded(p, p[k].call, Len(l) + 1)]
             /\ Traced(m).nextStep = Traced(l).nextStep
<1> DEFINE t == Scanned(l).turn
           n == Scanned(l).step
           p == Scanned(l).pending
           c == p[k].call
           e == ToolCallOf(t, n, c)
           r == Recorded(p, c, Len(l) + 1)
           m == Append(l, e)
<1>1. /\ l \in Seq(EventRecord) /\ Scanned(l) \in ScanRecord /\ Traced(l) \in TraceRecord
      /\ Traced(l).openTurn = t /\ Traced(l).openStep = n /\ Len(l) \in Nat /\ Len(l) + 1 \in Nat
  BY SoundParts, LenProperties
<1>2. /\ t \in Nat \ {0} /\ n \in Nat \ {0} /\ p \in Seq(PendingRecord)
      /\ DOMAIN p = 1..Len(p) /\ Len(p) \in Nat
      /\ LastMessage(l) > LastStepEnd(l) /\ LastMessage(l) \in 1..Len(l)
      /\ CallsOK(l, Answers(l), p)
      /\ \A i \in DOMAIN p :
           /\ p[i] \in PendingRecord /\ p[i].step = n
           /\ p[i].callSeq # 0 => p[i].call \in Traced(l).pendingCalls
           /\ \A j \in DOMAIN p : p[i].call = p[j].call => i = j
  BY OpenCalls
<1>3. c \in Nat
  BY <1>2 DEF PendingRecord
<1>4. e \in EventRecord
  <2> HIDE DEF t, n, c
  <2> QED BY <1>2, <1>3, Events
<1>5. e.type = "tool/call" /\ e.turn = t /\ e.step = n /\ e.call = c
  BY DEF ToolCallOf, Event
<1>6. /\ r \in Seq(PendingRecord) /\ Len(r) = Len(p) /\ DOMAIN r = DOMAIN p
      /\ \A i \in DOMAIN p :
           /\ r[i].call = p[i].call /\ r[i].step = p[i].step
           /\ r[i].callSeq = IF i = k THEN Len(l) + 1 ELSE p[i].callSeq
  <2>1. k \in DOMAIN p
    OBVIOUS
  <2>2. \A i, j \in DOMAIN p : p[i].call = p[j].call => i = j
    BY <1>2
  <2>3. p \in Seq(PendingRecord) /\ Len(l) + 1 \in Nat
    BY <1>1, <1>2
  <2> HIDE DEF p
  <2> QED BY <2>1, <2>2, <2>3, RecordedCall
<1>7. /\ m \in Seq(EventRecord) /\ Len(m) = Len(l) + 1
      /\ \A i \in 1..Len(l) : m[i] = l[i]
      /\ Scanned(m) = Scan(Scanned(l), e, Len(l) + 1)
      /\ Traced(m) = Commit(Traced(l), e)
      /\ Answers(m) = Collected(Answers(l), e)
  <2> HIDE DEF e
  <2> QED BY <1>1, <1>4, Extended
<1>8. SeqOfCall(l, c) = 0
  BY <1>2 DEF CallsOK, CitedOK
<1>9. /\ LastTurn(m) = LastTurn(l) /\ LastMessage(m) = LastMessage(l)
      /\ LastStepEnd(m) = LastStepEnd(l) /\ SeqOfCall(m, c) = Len(l) + 1
      /\ \A d : d # c => SeqOfCall(m, d) = SeqOfCall(l, d)
  <2> HIDE DEF e, c
  <2> QED BY <1>1, <1>4, <1>5, <1>8, PositionsAppend
<1> HIDE DEF e, m
<1>10. Scanned(m) = [turn |-> t, step |-> n, pending |-> r]
  <2>1. Scan(Scanned(l), e, Len(l) + 1)
          = [turn |-> t, step |-> n, pending |-> Recorded(p, e.call, Len(l) + 1)]
    BY <1>1, <1>4, <1>5, ScanStep
  <2> QED BY <1>5, <1>7, <2>1
<1>11. Traced(m) = GoodTrace(t, n, Traced(l).nextTurn, Traced(l).nextStep,
                             Traced(l).pendingCalls \union {c})
  <2>1. e.turn = Traced(l).openTurn /\ e.step = Traced(l).openStep /\ e.step # 0
    BY <1>1, <1>2, <1>5
  <2>2. Commit(Traced(l), e)
          = GoodTrace(Traced(l).openTurn, Traced(l).openStep, Traced(l).nextTurn,
                      Traced(l).nextStep, Traced(l).pendingCalls \union {e.call})
    BY <1>1, <1>4, <1>5, <2>1, TraceStep
  <2> QED BY <1>1, <1>5, <1>7, <2>2
<1>12. Answers(m) = Answers(l)
  BY <1>5, <1>7 DEF Collected
<1> HIDE DEF r, c, p, t, n
<1>13. /\ Traced(m) \in TraceRecord /\ Traced(m).openTurn = t /\ Traced(m).openStep = n
       /\ Traced(m).nextStep = Traced(l).nextStep /\ Traced(m).nextTurn = Traced(l).nextTurn
       /\ Traced(m).pendingCalls = Traced(l).pendingCalls \union {c}
  BY <1>1, <1>2, <1>3, <1>11 DEF TraceRecord, GoodTrace
<1>14. Agree(Scanned(m), Traced(m))
  <2>1. Scanned(m) \in ScanRecord /\ Scanned(m).pending = r /\ Scanned(m).step = n
        /\ Scanned(m).turn = t
    BY <1>2, <1>6, <1>10 DEF ScanRecord
  <2>2. ASSUME NEW i \in DOMAIN r
        PROVE  /\ r[i].step = n
               /\ r[i].callSeq # 0 => r[i].call \in Traced(m).pendingCalls
               /\ \A j \in DOMAIN r : r[i].call = r[j].call => i = j
    BY <1>2, <1>6, <1>13 DEF c
  <2> QED BY <1>2, <1>13, <2>1, <2>2 DEF Agree
<1>15. Numbered(Traced(m), LastTurn(m))
  BY <1>1, <1>9, <1>13 DEF SoundLog, Numbered
<1>16. AnsweredOK(m, Scanned(m))
  <2> DEFINE calls == l[LastMessage(l)].calls
             a == Answers(l)
  <2>1. m[LastMessage(m)].calls = calls
    BY <1>2, <1>7, <1>9
  <2>2. /\ Len(calls) = Len(a) + Len(p)
        /\ \A i, j \in DOMAIN calls : calls[i] = calls[j] => i = j
        /\ \A i \in DOMAIN a :
             /\ a[i].call = calls[i] /\ a[i].source = SeqOfCall(l, a[i].call)
             /\ a[i].error = "not-started" <=> a[i].source = 0
        /\ \A i \in DOMAIN p :
             p[i].call = calls[Len(a) + i] /\ p[i].callSeq = SeqOfCall(l, p[i].call)
    BY <1>2 DEF CallsOK, CitedOK
  <2>3. DOMAIN calls = 1..Len(calls) /\ DOMAIN a = 1..Len(a) /\ Len(a) \in Nat
    <3>1. l[LastMessage(l)] \in EventRecord
      BY <1>1, <1>2, ElementOfSeq
    <3>2. calls \in Seq(Nat)
      BY <3>1 DEF EventRecord
    <3>3. a \in Seq(EventRecord)
      BY <1>1, AnswersAreEvents
    <3> HIDE DEF a, calls
    <3> QED BY <3>2, <3>3, LenProperties
  <2> HIDE DEF calls, a
  <2>4. k \in DOMAIN p /\ c = calls[Len(a) + k]
    BY <2>2 DEF c, p
  <2>5. ASSUME NEW i \in DOMAIN a PROVE a[i].source = SeqOfCall(m, a[i].call)
    <3>1. i \in DOMAIN calls /\ Len(a) + k \in DOMAIN calls /\ i # Len(a) + k
      BY <1>2, <2>2, <2>3, <2>4
    <3>2. a[i].call # c
      BY <2>2, <2>4, <3>1
    <3> QED BY <1>9, <2>2, <3>2
  <2>6. ASSUME NEW i \in DOMAIN r
        PROVE  r[i].call = calls[Len(a) + i] /\ r[i].callSeq = SeqOfCall(m, r[i].call)
    <3>1. CASE i = k
      BY <1>6, <1>9, <2>2, <3>1 DEF c
    <3>2. CASE i # k
      <4>1. p[i].call # c
        BY <1>2, <1>6, <2>4, <3>2 DEF c
      <4> QED BY <1>6, <1>9, <2>2, <3>2, <4>1
    <3> QED BY <3>1, <3>2
  <2>7. CallsOK(m, Answers(m), r)
    BY <1>6, <1>12, <2>1, <2>2, <2>5, <2>6 DEF CallsOK, CitedOK, a
  <2> QED BY <1>2, <1>9, <1>10, <2>7 DEF AnsweredOK
<1> QED BY <1>7, <1>9, <1>10, <1>13, <1>14, <1>15, <1>16 DEF SoundLog, m, e, r, c, p, t, n

\* The first pending call is answered, by its tool or by the repair.
LEMMA CallEnds ==
  ASSUME NEW l, SoundLog(l), Scanned(l).pending # <<>>,
         NEW error \in {"none", "not-started", "unknown"},
         error = "not-started" <=> Scanned(l).pending[1].callSeq = 0
  PROVE  LET t == Scanned(l).turn
             n == Scanned(l).step
             p == Scanned(l).pending
             e == Result(t, n, p[1].call, error, p[1].callSeq, "append")
             m == Append(l, e)
         IN  /\ e \in EventRecord
             /\ SoundLog(m) /\ LastTurn(m) = LastTurn(l)
             /\ LastMessage(m) = LastMessage(l) /\ LastStepEnd(m) = LastStepEnd(l)
             /\ Scanned(m) = [turn |-> t, step |-> n, pending |-> Tail(p)]
             /\ Traced(m).nextStep = Traced(l).nextStep
             /\ Answers(m) = Append(Answers(l), e)
             /\ \A c : SeqOfCall(m, c) = SeqOfCall(l, c)
<1> DEFINE t == Scanned(l).turn
           n == Scanned(l).step
           p == Scanned(l).pending
           c == p[1].call
           e == Result(t, n, c, error, p[1].callSeq, "append")
           r == Tail(p)
           m == Append(l, e)
<1>1. /\ l \in Seq(EventRecord) /\ Scanned(l) \in ScanRecord /\ Traced(l) \in TraceRecord
      /\ Traced(l).openTurn = t /\ Traced(l).openStep = n /\ Len(l) \in Nat /\ Len(l) + 1 \in Nat
  BY SoundParts, LenProperties
<1>2. /\ t \in Nat \ {0} /\ n \in Nat \ {0} /\ p \in Seq(PendingRecord)
      /\ DOMAIN p = 1..Len(p) /\ Len(p) \in Nat \ {0}
      /\ LastMessage(l) > LastStepEnd(l) /\ LastMessage(l) \in 1..Len(l)
      /\ CallsOK(l, Answers(l), p)
      /\ \A i \in DOMAIN p :
           /\ p[i] \in PendingRecord /\ p[i].step = n
           /\ p[i].callSeq # 0 => p[i].call \in Traced(l).pendingCalls
           /\ \A j \in DOMAIN p : p[i].call = p[j].call => i = j
  BY OpenCalls
<1>3. 1 \in DOMAIN p /\ c \in Nat /\ p[1].callSeq \in Nat
  BY <1>2 DEF PendingRecord
<1>4. e \in EventRecord
  <2> HIDE DEF t, n, c, p
  <2> QED BY <1>2, <1>3, Events
<1>5. /\ e.type = "tool/result" /\ e.turn = t /\ e.step = n /\ e.call = c /\ e.error = error
      /\ e.source = p[1].callSeq /\ e.op = "append"
  BY DEF Result, Event
<1>6. /\ r \in Seq(PendingRecord) /\ Len(r) = Len(p) - 1 /\ DOMAIN r = 1..Len(r)
      /\ \A i \in DOMAIN r : i + 1 \in DOMAIN p /\ r[i] = p[i + 1]
  <2>1. p \in Seq(PendingRecord) /\ p # <<>>
    BY <1>2
  <2> HIDE DEF p
  <2>2. r \in Seq(PendingRecord) /\ Len(r) = Len(p) - 1 /\ \A i \in 1..Len(r) : r[i] = p[i + 1]
    BY <2>1, HeadTailProperties
  <2>3. DOMAIN r = 1..Len(r)
    BY <2>2, LenProperties
  <2> QED BY <1>2, <2>2, <2>3
<1>7. /\ m \in Seq(EventRecord) /\ Len(m) = Len(l) + 1
      /\ \A i \in 1..Len(l) : m[i] = l[i]
      /\ Scanned(m) = Scan(Scanned(l), e, Len(l) + 1)
      /\ Traced(m) = Commit(Traced(l), e)
      /\ Answers(m) = Collected(Answers(l), e)
  <2> HIDE DEF e
  <2> QED BY <1>1, <1>4, Extended
<1>8. /\ LastTurn(m) = LastTurn(l) /\ LastMessage(m) = LastMessage(l)
      /\ LastStepEnd(m) = LastStepEnd(l)
      /\ \A d : SeqOfCall(m, d) = SeqOfCall(l, d)
  <2> HIDE DEF e
  <2> QED BY <1>1, <1>4, <1>5, PositionsAppend
<1> HIDE DEF e, m
<1>9. Scanned(m) = [turn |-> t, step |-> n, pending |-> r]
  <2>1. Scan(Scanned(l), e, Len(l) + 1)
          = [turn |-> t, step |-> n, pending |-> Without(p, e.call)]
    BY <1>1, <1>4, <1>5, ScanStep
  <2>2. Without(p, c) = r
    <3>1. p # <<>> /\ c = p[1].call /\ p \in Seq(PendingRecord)
      BY <1>2
    <3> HIDE DEF p, c
    <3> QED BY <3>1, FirstLeaves
  <2> QED BY <1>5, <1>7, <2>1, <2>2
<1>10. Traced(m) = GoodTrace(t, n, Traced(l).nextTurn, Traced(l).nextStep,
                             Traced(l).pendingCalls \ {c})
  <2>1. e.turn = Traced(l).openTurn /\ e.step = Traced(l).openStep /\ e.step # 0
    BY <1>1, <1>2, <1>5
  <2>2. e.call \in Traced(l).pendingCalls \/ e.error = "not-started"
    BY <1>2, <1>3, <1>5
  <2>3. Commit(Traced(l), e)
          = GoodTrace(Traced(l).openTurn, Traced(l).openStep, Traced(l).nextTurn,
                      Traced(l).nextStep, Traced(l).pendingCalls \ {e.call})
    BY <1>1, <1>4, <1>5, <2>1, <2>2, TraceStep
  <2> QED BY <1>1, <1>5, <1>7, <2>3
<1>11. Answers(m) = Append(Answers(l), e)
  BY <1>5, <1>7 DEF Collected
<1>12. error = "not-started" <=> p[1].callSeq = 0
  OBVIOUS
<1> HIDE DEF r, c, p, t, n
<1>13. /\ Traced(m) \in TraceRecord /\ Traced(m).openTurn = t /\ Traced(m).openStep = n
       /\ Traced(m).nextStep = Traced(l).nextStep /\ Traced(m).nextTurn = Traced(l).nextTurn
       /\ Traced(m).pendingCalls = Traced(l).pendingCalls \ {c}
  BY <1>1, <1>2, <1>3, <1>10 DEF TraceRecord, GoodTrace
<1>14. Agree(Scanned(m), Traced(m))
  <2>1. Scanned(m) \in ScanRecord /\ Scanned(m).pending = r /\ Scanned(m).step = n
        /\ Scanned(m).turn = t
    BY <1>2, <1>6, <1>9 DEF ScanRecord
  <2>2. ASSUME NEW i \in DOMAIN r
        PROVE  /\ r[i].step = n
               /\ r[i].callSeq # 0 => r[i].call \in Traced(m).pendingCalls
               /\ \A j \in DOMAIN r : r[i].call = r[j].call => i = j
    <3>1. i \in Nat /\ i + 1 \in DOMAIN p /\ i + 1 # 1 /\ r[i] = p[i + 1]
      BY <1>2, <1>6
    <3>2. p[i + 1].call # c
      BY <1>2, <1>3, <3>1 DEF c
    <3>3. ASSUME NEW j \in DOMAIN r, r[i].call = r[j].call PROVE i = j
      <4>1. j \in Nat /\ j + 1 \in DOMAIN p /\ r[j] = p[j + 1]
        BY <1>2, <1>6
      <4> QED BY <1>2, <3>1, <3>3, <4>1
    <3> QED BY <1>2, <1>13, <3>1, <3>2, <3>3
  <2> QED BY <1>2, <1>13, <2>1, <2>2 DEF Agree
<1>15. Numbered(Traced(m), LastTurn(m))
  BY <1>1, <1>8, <1>13 DEF SoundLog, Numbered
<1>16. AnsweredOK(m, Scanned(m))
  <2> DEFINE calls == l[LastMessage(l)].calls
             a == Answers(l)
             b == Answers(m)
  <2>1. m[LastMessage(m)].calls = calls
    BY <1>2, <1>7, <1>8
  <2>2. /\ Len(calls) = Len(a) + Len(p)
        /\ \A i, j \in DOMAIN calls : calls[i] = calls[j] => i = j
        /\ \A i \in DOMAIN a :
             /\ a[i].call = calls[i] /\ a[i].source = SeqOfCall(l, a[i].call)
             /\ a[i].error = "not-started" <=> a[i].source = 0
        /\ \A i \in DOMAIN p :
             p[i].call = calls[Len(a) + i] /\ p[i].callSeq = SeqOfCall(l, p[i].call)
    BY <1>2 DEF CallsOK, CitedOK
  <2>3. a \in Seq(EventRecord) /\ b = Append(a, e)
    BY <1>1, <1>11, AnswersAreEvents
  <2> HIDE DEF calls, a, b
  <2>4. /\ Len(a) \in Nat /\ DOMAIN a = 1..Len(a) /\ Len(b) = Len(a) + 1 /\ DOMAIN b = 1..Len(b)
        /\ b[Len(a) + 1] = e /\ \A i \in 1..Len(a) : b[i] = a[i]
    BY <1>4, <2>3, LenProperties, AppendProperties
  <2>5. ASSUME NEW i \in DOMAIN b
        PROVE  /\ b[i].call = calls[i] /\ b[i].source = SeqOfCall(m, b[i].call)
               /\ b[i].error = "not-started" <=> b[i].source = 0
    <3>1. CASE i \in 1..Len(a)
      BY <1>8, <2>2, <2>4, <3>1
    <3>2. CASE i = Len(a) + 1
      BY <1>3, <1>5, <1>8, <1>12, <2>2, <2>4, <3>2 DEF c
    <3> QED BY <2>4, <3>1, <3>2
  <2>6. ASSUME NEW i \in DOMAIN r
        PROVE  r[i].call = calls[Len(b) + i] /\ r[i].callSeq = SeqOfCall(m, r[i].call)
    <3>1. i \in Nat /\ i + 1 \in DOMAIN p /\ r[i] = p[i + 1]
      BY <1>2, <1>6
    <3>2. Len(b) + i = Len(a) + (i + 1)
      BY <2>4, <3>1
    <3> QED BY <1>8, <2>2, <3>1, <3>2
  <2>7. Len(calls) = Len(b) + Len(r)
    BY <1>2, <1>6, <2>2, <2>4
  <2>8. CallsOK(m, Answers(m), r)
    BY <2>1, <2>2, <2>5, <2>6, <2>7 DEF CallsOK, CitedOK, b
  <2> QED BY <1>2, <1>8, <1>9, <2>8 DEF AnsweredOK
<1> QED BY <1>4, <1>7, <1>8, <1>9, <1>11, <1>13, <1>14, <1>15, <1>16 DEF SoundLog, m, e, r, c, p, t, n

-----------------------------------------------------------------------------
(* The closers, one by one *)

\* Two logs in one.
LEMMA Joined ==
  ASSUME NEW S, NEW u \in Seq(S), NEW v \in Seq(S)
  PROVE  /\ u \o v \in Seq(S) /\ Len(u \o v) = Len(u) + Len(v)
         /\ Len(u) \in Nat /\ Len(v) \in Nat
         /\ \A i \in 1..(Len(u) + Len(v)) :
              (u \o v)[i] = IF i <= Len(u) THEN u[i] ELSE v[i - Len(u)]
<1>1. /\ u \o v \in Seq(S) /\ Len(u \o v) = Len(u) + Len(v)
      /\ \A i \in 1..(Len(u) + Len(v)) :
           (u \o v)[i] = IF i <= Len(u) THEN u[i] ELSE v[i - Len(u)]
  BY ConcatProperties
<1> QED BY <1>1, LenProperties

LEMMA TwoEvents ==
  ASSUME NEW S, NEW a \in S, NEW b \in S
  PROVE  <<a>> \o <<b>> = <<a, b>>
<1>1. <<a>> \in Seq(S) /\ <<b>> \in Seq(S) /\ <<a, b>> \in Seq(S)
  OBVIOUS
<1>2. Len(<<a>>) = 1 /\ Len(<<b>>) = 1 /\ Len(<<a, b>>) = 2
  OBVIOUS
<1>3. Len(<<a>> \o <<b>>) = 2 /\ <<a>> \o <<b>> \in Seq(S)
  BY <1>1, <1>2, Joined
<1>4. \A i \in 1..2 : (<<a>> \o <<b>>)[i] = <<a, b>>[i]
  BY <1>1, <1>2, Joined
<1> QED BY <1>1, <1>2, <1>3, <1>4, SeqEqual

\* The two parts of the closers of a turn t that is open.
Results(t, p) == [i \in DOMAIN p |-> Interrupted(t, p[i])]
Ends(t, n) ==
  IF n = 0 THEN <<Event("turn/end", t, 0)>>
  ELSE <<Event("step/end", t, n), Event("turn/end", t, 0)>>

\* A result for every pending call.
LEMMA ResultsOfPending ==
  ASSUME NEW t \in Nat, NEW p \in Seq(PendingRecord)
  PROVE  /\ Results(t, p) \in Seq(EventRecord) /\ Len(Results(t, p)) = Len(p)
         /\ \A i \in 1..Len(p) : Results(t, p)[i] = Interrupted(t, p[i])
<1> DEFINE r == Results(t, p)
<1>1. DOMAIN p = 1..Len(p) /\ Len(p) \in Nat /\ \A i \in DOMAIN p : p[i] \in PendingRecord
  BY LenProperties, ElementOfSeq
<1>2. ASSUME NEW i \in DOMAIN p PROVE Interrupted(t, p[i]) \in EventRecord
  <2> DEFINE error == IF p[i].callSeq = 0 THEN "not-started" ELSE "unknown"
  <2>1. p[i].step \in Nat /\ p[i].call \in Nat /\ p[i].callSeq \in Nat
    BY <1>1 DEF PendingRecord
  <2>2. error \in {"none", "not-started", "unknown"}
    OBVIOUS
  <2>3. Interrupted(t, p[i]) = Result(t, p[i].step, p[i].call, error, p[i].callSeq, "append")
    BY DEF Interrupted
  <2> HIDE DEF error
  <2> QED BY <2>1, <2>2, <2>3, Events
<1>3. r \in [1..Len(p) -> EventRecord]
  <2> HIDE DEF EventRecord
  <2> QED BY <1>1, <1>2 DEF Results
<1>4. r \in Seq(EventRecord) /\ Len(r) = Len(p)
  <2> HIDE DEF r
  <2> QED BY <1>1, <1>3
<1> QED BY <1>1, <1>4 DEF Results

\* The closers are these two parts.
LEMMA ClosersParts ==
  ASSUME NEW l, SoundLog(l)
  PROVE  LET s == Scanned(l)
         IN  /\ Closers(l) = IF s.turn = 0 THEN <<>>
                             ELSE Results(s.turn, s.pending) \o Ends(s.turn, s.step)
             /\ Closers(l) \in Seq(EventRecord)
             /\ Ends(s.turn, s.step) \in Seq(EventRecord)
             /\ Results(s.turn, s.pending) \in Seq(EventRecord)
<1> DEFINE s == Scanned(l)
           r == Results(s.turn, s.pending)
           first == IF s.step = 0 THEN <<>> ELSE <<Event("step/end", s.turn, s.step)>>
           last == <<Event("turn/end", s.turn, 0)>>
<1>1. s.turn \in Nat /\ s.step \in Nat /\ s.pending \in Seq(PendingRecord)
  BY SoundParts DEF ScanRecord
<1>2. r \in Seq(EventRecord)
  BY <1>1, ResultsOfPending
<1>3. Event("step/end", s.turn, s.step) \in EventRecord /\ Event("turn/end", s.turn, 0) \in EventRecord
  <2> HIDE DEF s
  <2> QED BY <1>1, Events DEF Types
<1>4. first \in Seq(EventRecord) /\ last \in Seq(EventRecord)
  BY <1>3
<1>5. first \o last = Ends(s.turn, s.step)
  <2>1. CASE s.step = 0
    BY <1>4, <2>1, ConcatEmptySeq DEF Ends
  <2>2. CASE s.step # 0
    <3>1. first = <<Event("step/end", s.turn, s.step)>>
      BY <2>2
    <3>2. Ends(s.turn, s.step)
            = <<Event("step/end", s.turn, s.step), Event("turn/end", s.turn, 0)>>
      BY <2>2 DEF Ends
    <3> HIDE DEF first, s
    <3> QED BY <1>3, <3>1, <3>2, TwoEvents
  <2> QED BY <2>1, <2>2
<1>6. Closers(l) = IF s.turn = 0 THEN <<>> ELSE (r \o first) \o last
  BY DEF Closers, Results
<1>7. (r \o first) \o last = r \o (first \o last)
  <2> HIDE DEF r, first, last
  <2> QED BY <1>2, <1>4, ConcatAssociative
<1> HIDE DEF r, first, last
<1>8. first \o last \in Seq(EventRecord) /\ r \o (first \o last) \in Seq(EventRecord)
  BY <1>2, <1>4, ConcatProperties
<1>9. <<>> \in Seq(EventRecord)
  OBVIOUS
<1> QED BY <1>2, <1>5, <1>6, <1>7, <1>8, <1>9 DEF r

\* Closing a turn can be continued after any of its events: a log with one more
\* closer is as sound, and its closers are those that are missing.
LEMMA OneCloser ==
  ASSUME NEW l, SoundLog(l), Scanned(l).turn # 0
  PROVE  LET c == Closers(l)
             m == Append(l, c[1])
         IN  /\ c \in Seq(EventRecord) /\ c # <<>> /\ c[1] \in EventRecord
             /\ c[1].turn = LastTurn(l) /\ c[1].type # "tool/call"
             /\ SoundLog(m) /\ Closers(m) = Tail(c)
             /\ LastTurn(m) = LastTurn(l) /\ LastMessage(m) = LastMessage(l)
             /\ \A d : SeqOfCall(m, d) = SeqOfCall(l, d)
             /\ LastMessage(l) \in 1..Len(l) /\ CallsOK(l, Answers(l), Scanned(l).pending)
                  => CallsOK(m, Answers(m), Scanned(m).pending)
<1> DEFINE s == Scanned(l)
           t == s.turn
           n == s.step
           p == s.pending
           c == Closers(l)
           m == Append(l, c[1])
<1>1. t \in Nat /\ n \in Nat /\ p \in Seq(PendingRecord) /\ t = LastTurn(l)
      /\ l \in Seq(EventRecord)
  BY SoundParts DEF ScanRecord
<1>2. c = Results(t, p) \o Ends(t, n) /\ c \in Seq(EventRecord)
      /\ Results(t, p) \in Seq(EventRecord) /\ Ends(t, n) \in Seq(EventRecord)
  BY ClosersParts
<1>3. CASE p # <<>>
  <2> DEFINE error == IF p[1].callSeq = 0 THEN "not-started" ELSE "unknown"
             e == Result(t, n, p[1].call, error, p[1].callSeq, "append")
  <2>1. error \in {"none", "not-started", "unknown"} /\ (error = "not-started" <=> p[1].callSeq = 0)
    OBVIOUS
  <2>2. /\ e \in EventRecord
        /\ SoundLog(Append(l, e)) /\ LastTurn(Append(l, e)) = LastTurn(l)
        /\ LastMessage(Append(l, e)) = LastMessage(l)
        /\ LastStepEnd(Append(l, e)) = LastStepEnd(l)
        /\ Scanned(Append(l, e)) = [turn |-> t, step |-> n, pending |-> Tail(p)]
        /\ \A d : SeqOfCall(Append(l, e), d) = SeqOfCall(l, d)
    <3> HIDE DEF error
    <3> QED BY <1>3, <2>1, CallEnds
  <2>3. Len(p) \in Nat \ {0} /\ p[1].step = n
    BY <1>3, OpenCalls
  <2>4. Len(Results(t, p)) = Len(p) /\ \A i \in 1..Len(p) : Results(t, p)[i] = Interrupted(t, p[i])
    BY <1>1, ResultsOfPending
  <2>5. Interrupted(t, p[1]) = e
    BY <2>3 DEF Interrupted
  <2>6. c[1] = e /\ Len(c) = Len(p) + Len(Ends(t, n)) /\ Len(Ends(t, n)) \in Nat
    <3>1. Results(t, p)[1] = e
      BY <2>3, <2>4, <2>5
    <3> HIDE DEF e, c, t, p, n
    <3>2. 1 \in 1..(Len(p) + Len(Ends(t, n))) /\ 1 <= Len(p) /\ Len(Ends(t, n)) \in Nat
      BY <1>2, <2>3, LenProperties
    <3> QED BY <1>2, <2>4, <3>1, <3>2, Joined
  <2>7. e.type = "tool/result" /\ e.turn = t
    BY DEF Result, Event
  <2> HIDE DEF e
  <2>8. c # <<>>
    <3> HIDE DEF c
    <3> DEFINE k == Len(Ends(t, n))
               j == Len(p)
    <3>1. j \in Nat \ {0} /\ k \in Nat /\ Len(c) = j + k
      BY <2>3, <2>6
    <3> HIDE DEF j, k
    <3>2. Len(c) # 0
      BY <3>1
    <3> QED BY <3>2
  <2>9. Closers(m) = Tail(c)
    <3> DEFINE q == Tail(p)
               z == Ends(t, n)
    <3>1. /\ q \in Seq(PendingRecord) /\ Len(q) = Len(p) - 1 /\ Len(q) \in Nat
          /\ \A i \in 1..Len(q) : q[i] = p[i + 1]
      <4> HIDE DEF p
      <4> QED BY <1>1, <1>3, <2>3, HeadTailProperties
    <3>2. /\ Results(t, q) \in Seq(EventRecord) /\ Len(Results(t, q)) = Len(q)
          /\ \A i \in 1..Len(q) : Results(t, q)[i] = Interrupted(t, q[i])
      <4> HIDE DEF q, t
      <4> QED BY <1>1, <3>1, ResultsOfPending
    <3>3. Closers(m) = Results(t, q) \o z
      <4>1. SoundLog(m) /\ Scanned(m).turn = t /\ Scanned(m).step = n /\ Scanned(m).pending = q
        BY <2>2, <2>6
      <4> HIDE DEF m, q
      <4> QED BY <4>1, ClosersParts
    <3> HIDE DEF m, q, z, t, p, n, c
    <3>4. /\ Results(t, q) \o z \in Seq(EventRecord)
          /\ Len(Results(t, q) \o z) = Len(q) + Len(z)
          /\ \A i \in 1..Len(Results(t, q) \o z) : (Results(t, q) \o z)[i] =
               IF i <= Len(q) THEN Results(t, q)[i] ELSE z[i - Len(q)]
      <4> DEFINE r == Results(t, q)
      <4>1. r \in Seq(EventRecord) /\ z \in Seq(EventRecord) /\ Len(r) = Len(q)
        BY <1>2, <3>2 DEF z
      <4> HIDE DEF r
      <4>2. /\ r \o z \in Seq(EventRecord) /\ Len(r \o z) = Len(r) + Len(z)
            /\ \A i \in 1..(Len(r) + Len(z)) :
                 (r \o z)[i] = IF i <= Len(r) THEN r[i] ELSE z[i - Len(r)]
        BY <4>1, Joined
      <4> QED BY <4>1, <4>2 DEF r
    <3>5. \A i \in 1..Len(c) : c[i] = IF i <= Len(p) THEN Results(t, p)[i] ELSE z[i - Len(p)]
      BY <1>2, <2>4, Joined DEF z
    <3>6. /\ Tail(c) \in Seq(EventRecord) /\ Len(Tail(c)) = Len(c) - 1
          /\ \A i \in 1..Len(Tail(c)) : Tail(c)[i] = c[i + 1]
      BY <1>2, <2>8, HeadTailProperties
    <3>7. Len(Tail(c)) = Len(Results(t, q) \o z)
      BY <2>3, <2>6, <3>1, <3>4, <3>6 DEF z
    <3>8. ASSUME NEW i \in 1..Len(Tail(c)) PROVE Tail(c)[i] = (Results(t, q) \o z)[i]
      <4>0. Len(z) \in Nat /\ i \in 1..(Len(q) + Len(z)) /\ i \in Nat
        BY <2>6, <3>1, <3>4, <3>7 DEF z
      <4>1. CASE i <= Len(q)
        <5>1. i + 1 \in 1..Len(c) /\ i + 1 \in 1..Len(p) /\ i \in 1..Len(q)
          BY <2>3, <2>6, <3>1, <4>0, <4>1 DEF z
        <5>2. Tail(c)[i] = Interrupted(t, p[i + 1])
          BY <2>4, <3>5, <3>6, <5>1
        <5>3. (Results(t, q) \o z)[i] = Interrupted(t, q[i])
          BY <3>2, <3>4, <3>7, <4>1, <5>1
        <5> QED BY <3>1, <5>1, <5>2, <5>3
      <4>2. CASE ~(i <= Len(q))
        <5>1. i + 1 \in 1..Len(c) /\ ~(i + 1 <= Len(p)) /\ (i + 1) - Len(p) = i - Len(q)
          BY <2>3, <2>6, <3>1, <4>0, <4>2 DEF z
        <5>2. Tail(c)[i] = z[i - Len(q)]
          BY <3>5, <3>6, <5>1
        <5>3. (Results(t, q) \o z)[i] = z[i - Len(q)]
          BY <3>4, <3>7, <4>2
        <5> QED BY <5>2, <5>3
      <4> QED BY <4>1, <4>2
    <3> QED BY <3>3, <3>4, <3>6, <3>7, <3>8, SeqEqual
  <2>10. CallsOK(m, Answers(m), Scanned(m).pending)
    <3>1. SoundLog(m) /\ LastMessage(m) > LastStepEnd(m)
      BY <1>3, <2>2, <2>6, OpenCalls
    <3> HIDE DEF m
    <3> QED BY <3>1 DEF SoundLog, AnsweredOK
  <2> QED BY <1>1, <1>2, <2>2, <2>6, <2>7, <2>8, <2>9, <2>10
<1>4. CASE p = <<>>
  <2>1. Results(t, p) = <<>>
    BY <1>4 DEF Results
  <2>2. c = Ends(t, n)
    <3> HIDE DEF c, t, n, p
    <3> QED BY <1>2, <2>1, ConcatEmptySeq
  <2> DEFINE e == IF n # 0 THEN Event("step/end", t, n) ELSE Event("turn/end", t, 0)
  <2>3. c[1] = e /\ c # <<>> /\ Tail(c) = IF n # 0 THEN <<Event("turn/end", t, 0)>> ELSE <<>>
    BY <2>2 DEF Ends
  <2>4. e \in EventRecord
    <3> HIDE DEF t, n
    <3> QED BY <1>1, Events DEF Types
  <2>5. e.type \in {"step/end", "turn/end"} /\ e.turn = t
    BY DEF Event
  <2>6. /\ SoundLog(Append(l, e)) /\ LastTurn(Append(l, e)) = LastTurn(l)
        /\ LastMessage(Append(l, e)) = LastMessage(l)
        /\ Scanned(Append(l, e)) = [turn |-> IF n # 0 THEN t ELSE 0, step |-> 0, pending |-> <<>>]
    <3>1. CASE n # 0
      BY <3>1, StepEnds
    <3>2. CASE n = 0
      BY <3>2, TurnEnds
    <3> QED BY <3>1, <3>2
  <2> HIDE DEF e
  <2>7. /\ \A d : SeqOfCall(Append(l, e), d) = SeqOfCall(l, d)
        /\ Answers(Append(l, e)) = Answers(l)
        /\ \A i \in 1..Len(l) : Append(l, e)[i] = l[i]
    <3>1. \A d : SeqOfCall(Append(l, e), d) = SeqOfCall(l, d)
      BY <1>1, <2>4, <2>5, PositionsAppend
    <3>2. Answers(Append(l, e)) = Collected(Answers(l), e)
          /\ \A i \in 1..Len(l) : Append(l, e)[i] = l[i]
      BY <1>1, <2>4, Extended
    <3> QED BY <2>5, <3>1, <3>2 DEF Collected
  <2>8. Closers(Append(l, e)) = Tail(c)
    <3>1. CASE n # 0
      <4> DEFINE k == Append(l, e)
      <4>1. SoundLog(k) /\ Scanned(k).turn = t /\ Scanned(k).step = 0 /\ Scanned(k).pending = <<>>
        BY <2>6, <3>1
      <4> HIDE DEF k
      <4>2. Closers(k) = Results(t, <<>>) \o Ends(t, 0) /\ Ends(t, 0) \in Seq(EventRecord)
        BY <4>1, ClosersParts
      <4>3. Results(t, <<>>) = <<>>
        BY DEF Results
      <4>4. Closers(k) = Ends(t, 0)
        <5> HIDE DEF t
        <5> QED BY <4>2, <4>3, ConcatEmptySeq
      <4> QED BY <2>3, <3>1, <4>4 DEF Ends, k
    <3>2. CASE n = 0
      <4>1. Scanned(Append(l, e)).turn = 0 /\ SoundLog(Append(l, e))
        BY <2>6, <3>2
      <4> QED BY <2>3, <3>2, <4>1, ClosersParts
    <3> QED BY <3>1, <3>2
  <2>9. ASSUME CallsOK(l, Answers(l), p), LastMessage(l) \in 1..Len(l)
        PROVE  CallsOK(Append(l, e), Answers(Append(l, e)), <<>>)
    <3>1. Append(l, e)[LastMessage(Append(l, e))].calls = l[LastMessage(l)].calls
      BY <2>6, <2>7, <2>9
    <3> QED BY <1>4, <2>7, <2>9, <3>1 DEF CallsOK, CitedOK
  <2> QED BY <1>1, <1>2, <2>3, <2>4, <2>5, <2>6, <2>7, <2>8, <2>9
<1> QED BY <1>3, <1>4

\* The first events of a sequence, and the others.
LEMMA Cut ==
  ASSUME NEW S, NEW l \in Seq(S), NEW c \in Seq(S), NEW j \in Nat, j < Len(c)
  PROVE  /\ Append(l \o SubSeq(c, 1, j), c[j + 1]) = l \o SubSeq(c, 1, j + 1)
         /\ SubSeq(c, j + 1, Len(c)) # <<>>
         /\ SubSeq(c, j + 1, Len(c))[1] = c[j + 1]
         /\ Tail(SubSeq(c, j + 1, Len(c))) = SubSeq(c, (j + 1) + 1, Len(c))
<1>1. /\ Len(c) \in Nat /\ Len(l) \in Nat /\ j + 1 \in 1..Len(c) /\ Len(c) \in (j + 1)..Len(c)
      /\ \A i \in 1..Len(c) : c[i] \in S
  BY LenProperties, ElementOfSeq
<1>2. /\ SubSeq(c, 1, j) \in Seq(S) /\ Len(SubSeq(c, 1, j)) = j
      /\ \A i \in 1..j : SubSeq(c, 1, j)[i] = c[i]
  BY <1>1, SubSeqProperties
<1>3. /\ SubSeq(c, 1, j + 1) \in Seq(S) /\ Len(SubSeq(c, 1, j + 1)) = j + 1
      /\ \A i \in 1..(j + 1) : SubSeq(c, 1, j + 1)[i] = c[i]
  BY <1>1, SubSeqProperties
<1>4. Append(l \o SubSeq(c, 1, j), c[j + 1]) = l \o SubSeq(c, 1, j + 1)
  <2> DEFINE u == l \o SubSeq(c, 1, j)
             v == l \o SubSeq(c, 1, j + 1)
             w == Append(u, c[j + 1])
  <2>1. /\ u \in Seq(S) /\ Len(u) = Len(l) + j
        /\ \A i \in 1..(Len(l) + j) : u[i] = IF i <= Len(l) THEN l[i] ELSE SubSeq(c, 1, j)[i - Len(l)]
    BY <1>2, Joined
  <2>2. /\ v \in Seq(S) /\ Len(v) = Len(l) + (j + 1)
        /\ \A i \in 1..(Len(l) + (j + 1)) :
             v[i] = IF i <= Len(l) THEN l[i] ELSE SubSeq(c, 1, j + 1)[i - Len(l)]
    BY <1>3, Joined
  <2> HIDE DEF u, v
  <2>3. /\ w \in Seq(S) /\ Len(w) = Len(u) + 1
        /\ w[Len(u) + 1] = c[j + 1] /\ \A i \in 1..Len(u) : w[i] = u[i]
    BY <1>1, <2>1, AppendProperties
  <2> HIDE DEF w
  <2>4. ASSUME NEW i \in 1..Len(w) PROVE w[i] = v[i]
    <3> DEFINE n == Len(l)
    <3>0. n \in Nat /\ Len(u) = n + j /\ i \in 1..(n + (j + 1))
      BY <1>1, <2>1, <2>3
    <3>1. CASE i <= Len(l)
      <4>1. i \in 1..Len(u) /\ i \in 1..(n + j)
        <5> HIDE DEF n
        <5>1. i <= n
          BY <3>1 DEF n
        <5> QED BY <3>0, <5>1
      <4>2. w[i] = u[i] /\ u[i] = l[i]
        BY <2>1, <2>3, <3>1, <4>1
      <4>3. v[i] = l[i]
        BY <2>2, <3>0, <3>1
      <4> QED BY <4>2, <4>3
    <3>2. CASE ~(i <= Len(l)) /\ i # Len(u) + 1
      <4>1. i \in 1..Len(u) /\ i \in 1..(n + j) /\ i - n \in 1..j /\ i - n \in 1..(j + 1)
        <5> HIDE DEF n
        <5>1. ~(i <= n) /\ i # Len(u) + 1
          BY <3>2 DEF n
        <5> QED BY <3>0, <5>1
      <4>2. w[i] = u[i] /\ u[i] = SubSeq(c, 1, j)[i - n]
        BY <2>1, <2>3, <3>2, <4>1
      <4>3. v[i] = SubSeq(c, 1, j + 1)[i - n]
        BY <2>2, <3>0, <3>2
      <4> QED BY <1>2, <1>3, <4>1, <4>2, <4>3
    <3>3. CASE i = Len(u) + 1
      <4>1. i - Len(l) = j + 1 /\ i \in 1..(Len(l) + (j + 1)) /\ ~(i <= Len(l))
        BY <1>1, <2>1, <3>3
      <4> QED BY <1>1, <1>3, <2>2, <2>3, <3>3, <4>1
    <3> QED BY <3>1, <3>2, <3>3
  <2>5. Len(w) = Len(v)
    BY <1>1, <2>1, <2>2, <2>3
  <2>6. w = v
    BY <2>2, <2>3, <2>4, <2>5, SeqEqual
  <2> QED BY <2>6 DEF u, v, w
<1>5. /\ Head(SubSeq(c, j + 1, Len(c))) = c[j + 1]
      /\ Tail(SubSeq(c, j + 1, Len(c))) = SubSeq(c, (j + 1) + 1, Len(c))
  BY <1>1, HeadTailOfSubSeq
<1>6. SubSeq(c, j + 1, Len(c)) \in Seq(S) /\ Len(SubSeq(c, j + 1, Len(c))) = Len(c) - j
      /\ SubSeq(c, j + 1, Len(c))[1] = c[j + 1]
  BY <1>1, SubSeqProperties
<1>7. SubSeq(c, j + 1, Len(c)) # <<>>
  <2> DEFINE z == SubSeq(c, j + 1, Len(c))
  <2>1. Len(z) = Len(c) - j
    BY <1>6
  <2> HIDE DEF z
  <2>2. Len(z) # 0
    BY <1>1, <2>1
  <2>3. z # <<>>
    BY <2>2
  <2> QED BY <2>3 DEF z
<1> QED BY <1>4, <1>5, <1>6, <1>7

\* A repair that stopped after k of its closers: the log is sound, and what the
\* next load would append are the others.
LEMMA Repaired ==
  ASSUME NEW l, SoundLog(l), NEW k \in 0..Len(Closers(l))
  PROVE  LET c == Closers(l)
             m == l \o SubSeq(c, 1, k)
         IN  /\ SoundLog(m) /\ Closers(m) = SubSeq(c, k + 1, Len(c))
             /\ LastTurn(m) = LastTurn(l) /\ LastMessage(m) = LastMessage(l)
             /\ \A d : SeqOfCall(m, d) = SeqOfCall(l, d)
             /\ \A i \in DOMAIN m :
                  \/ i \in DOMAIN l /\ m[i] = l[i]
                  \/ m[i].turn = LastTurn(l) /\ m[i].type # "tool/call"
             /\ LastMessage(l) \in 1..Len(l) /\ CallsOK(l, Answers(l), Scanned(l).pending)
                  => CallsOK(m, Answers(m), Scanned(m).pending)
<1> DEFINE c == Closers(l)
           Log(j) == l \o SubSeq(c, 1, j)
           Holds(j) ==
             /\ SoundLog(Log(j)) /\ Closers(Log(j)) = SubSeq(c, j + 1, Len(c))
             /\ LastTurn(Log(j)) = LastTurn(l) /\ LastMessage(Log(j)) = LastMessage(l)
             /\ \A d : SeqOfCall(Log(j), d) = SeqOfCall(l, d)
             /\ \A i \in DOMAIN Log(j) :
                  \/ i \in DOMAIN l /\ Log(j)[i] = l[i]
                  \/ Log(j)[i].turn = LastTurn(l) /\ Log(j)[i].type # "tool/call"
             /\ LastMessage(l) \in 1..Len(l) /\ CallsOK(l, Answers(l), Scanned(l).pending)
                  => CallsOK(Log(j), Answers(Log(j)), Scanned(Log(j)).pending)
           Good == {j \in Nat : j <= Len(c) => Holds(j)}
<1>1. l \in Seq(EventRecord) /\ c \in Seq(EventRecord) /\ Len(c) \in Nat
  BY SoundParts, ClosersParts, LenProperties
<1> HIDE DEF c
<1>2. 0 \in Good
  <2>1. SubSeq(c, 1, 0) = <<>> /\ SubSeq(c, 0 + 1, Len(c)) = c
    BY <1>1, SubSeqFull
  <2>2. Log(0) = l
    BY <1>1, <2>1, ConcatEmptySeq
  <2> HIDE DEF Log
  <2> QED BY <2>1, <2>2 DEF c
<1>3. ASSUME NEW j \in Nat, j \in Good PROVE j + 1 \in Good
  <2>1. SUFFICES ASSUME j + 1 <= Len(c) PROVE Holds(j + 1)
    OBVIOUS
  <2> DEFINE m == Log(j)
  <2>2. j < Len(c) /\ Holds(j)
    BY <1>1, <1>3, <2>1
  <2>3. /\ Append(m, c[j + 1]) = Log(j + 1)
        /\ SubSeq(c, j + 1, Len(c)) # <<>>
        /\ SubSeq(c, j + 1, Len(c))[1] = c[j + 1]
        /\ Tail(SubSeq(c, j + 1, Len(c))) = SubSeq(c, (j + 1) + 1, Len(c))
    BY <1>1, <2>2, Cut
  <2> HIDE DEF Log
  <2>4. SoundLog(m) /\ Closers(m) # <<>> /\ Closers(m)[1] = c[j + 1]
    BY <2>2, <2>3
  <2>5. Scanned(m).turn # 0
    BY <2>4, ClosersParts
  <2>6. LET n == Append(m, c[j + 1])
        IN  /\ c[j + 1] \in EventRecord
            /\ c[j + 1].turn = LastTurn(m) /\ c[j + 1].type # "tool/call"
            /\ SoundLog(n) /\ Closers(n) = Tail(Closers(m))
            /\ LastTurn(n) = LastTurn(m) /\ LastMessage(n) = LastMessage(m)
            /\ \A d : SeqOfCall(n, d) = SeqOfCall(m, d)
            /\ LastMessage(m) \in 1..Len(m) /\ CallsOK(m, Answers(m), Scanned(m).pending)
                 => CallsOK(n, Answers(n), Scanned(n).pending)
    <3> HIDE DEF m, Holds
    <3> QED BY <2>4, <2>5, OneCloser
  <2>7. m \in Seq(EventRecord) /\ Len(m) \in Nat
    BY <2>4, SoundParts, LenProperties
  <2>8. Len(m) >= Len(l) /\ Len(l) \in Nat
    <3>1. SubSeq(c, 1, j) \in Seq(EventRecord)
      <4>1. \A i \in 1..j : c[i] \in EventRecord
        BY <1>1, <2>2, ElementOfSeq
      <4> QED BY <4>1, SubSeqProperties
    <3> QED BY <1>1, <3>1, Joined DEF Log
  <2>9. /\ DOMAIN Log(j + 1) = 1..(Len(m) + 1) /\ DOMAIN m = 1..Len(m)
        /\ Log(j + 1)[Len(m) + 1] = c[j + 1] /\ \A i \in 1..Len(m) : Log(j + 1)[i] = m[i]
    <3> HIDE DEF m
    <3>1. c[j + 1] \in EventRecord
      BY <2>6
    <3>2. /\ Append(m, c[j + 1]) \in Seq(EventRecord)
          /\ Len(Append(m, c[j + 1])) = Len(m) + 1
          /\ Append(m, c[j + 1])[Len(m) + 1] = c[j + 1]
          /\ \A i \in 1..Len(m) : Append(m, c[j + 1])[i] = m[i]
      BY <2>7, <3>1, AppendProperties
    <3>3. DOMAIN Append(m, c[j + 1]) = 1..(Len(m) + 1) /\ DOMAIN m = 1..Len(m)
      BY <2>7, <3>2, LenProperties
    <3> QED BY <2>3, <3>2, <3>3
  <2>10. ASSUME NEW i \in DOMAIN Log(j + 1)
         PROVE  \/ i \in DOMAIN l /\ Log(j + 1)[i] = l[i]
                \/ Log(j + 1)[i].turn = LastTurn(l) /\ Log(j + 1)[i].type # "tool/call"
    <3>1. CASE i \in 1..Len(m)
      BY <2>2, <2>9, <3>1
    <3>2. CASE i = Len(m) + 1
      BY <2>2, <2>6, <2>9, <3>2
    <3> QED BY <2>7, <2>9, <3>1, <3>2
  <2>11. ASSUME LastMessage(l) \in 1..Len(l), CallsOK(l, Answers(l), Scanned(l).pending)
         PROVE  CallsOK(Log(j + 1), Answers(Log(j + 1)), Scanned(Log(j + 1)).pending)
    <3>1. LastMessage(m) \in 1..Len(m)
      BY <2>2, <2>7, <2>8, <2>11
    <3> QED BY <2>2, <2>3, <2>6, <2>11, <3>1
  <2>12. /\ SoundLog(Log(j + 1)) /\ Closers(Log(j + 1)) = SubSeq(c, (j + 1) + 1, Len(c))
         /\ LastTurn(Log(j + 1)) = LastTurn(l) /\ LastMessage(Log(j + 1)) = LastMessage(l)
         /\ \A d : SeqOfCall(Log(j + 1), d) = SeqOfCall(l, d)
    BY <2>2, <2>3, <2>6
  <2> QED BY <2>10, <2>11, <2>12
<1>4. Nat \subseteq Good
  <2> HIDE DEF Good
  <2> QED BY <1>2, <1>3, SetInduction
<1>5. k \in Nat /\ k <= Len(c)
  BY <1>1 DEF c
<1> HIDE DEF Holds
<1>6. Holds(k)
  BY <1>4, <1>5
<1> QED BY <1>6 DEF Holds, c

-----------------------------------------------------------------------------
(* The invariant *)

\* One more event of a turn and of a call that are known.
LEMMA BoundsAppend ==
  ASSUME NEW l \in Seq(EventRecord), NEW e \in EventRecord,
         NEW t \in Nat, NEW t2 \in Nat, t <= t2, NEW u \in Nat,
         TurnsUpTo(l, t), CallsUpTo(l, u),
         e.turn \in 0..t2, e.type = "tool/call" => e.call \in 1..u
  PROVE  TurnsUpTo(Append(l, e), t2) /\ CallsUpTo(Append(l, e), u)
<1> DEFINE m == Append(l, e)
<1>1. /\ DOMAIN l = 1..Len(l) /\ Len(l) \in Nat /\ DOMAIN m = 1..(Len(l) + 1)
      /\ m[Len(l) + 1] = e /\ \A i \in 1..Len(l) : m[i] = l[i]
  BY LenProperties, AppendProperties
<1> HIDE DEF m
<1>2. \A i \in DOMAIN m : (i \in DOMAIN l /\ m[i] = l[i]) \/ m[i] = e
  BY <1>1
<1>3. \A i \in DOMAIN l : l[i].turn \in 0..t2
  BY DEF TurnsUpTo
<1> QED BY <1>2, <1>3 DEF TurnsUpTo, CallsUpTo, m

LEMMA InitHolds == Init => IInv
<1> SUFFICES ASSUME Init PROVE IInv
  OBVIOUS
<1>1. /\ log = <<>> /\ stage = "idle" /\ turn = 0 /\ step = 0
      /\ asked = <<>> /\ inFlight = <<>> /\ used = 0
  BY DEF Init
<1>2. /\ Scanned(log) = NoScan /\ Traced(log) = FreshTrace
      /\ LastTurn(log) = 0 /\ LastMessage(log) = 0 /\ LastStepEnd(log) = 0
  BY <1>1, EmptyLog
<1>3. Typed
  BY <1>1 DEF Typed, Stages
<1>4. SoundLog(log)
  <2>1. NoScan \in ScanRecord /\ FreshTrace \in TraceRecord
    BY DEF NoScan, FreshTrace, ScanRecord, TraceRecord
  <2>2. Agree(NoScan, FreshTrace)
    BY <2>1 DEF Agree, NoScan, FreshTrace
  <2>3. Numbered(FreshTrace, 0) /\ AnsweredOK(log, NoScan)
    BY <1>2 DEF Numbered, AnsweredOK, NoScan, FreshTrace
  <2> QED BY <1>2, <1>3, <2>2, <2>3 DEF SoundLog, Typed
<1>5. DriverOK(NoScan, FreshTrace)
  BY <1>1 DEF DriverOK, NoScan
<1>6. TurnsUpTo(log, turn) /\ CallsUpTo(log, used) /\ \A i \in DOMAIN asked : asked[i] \in 1..used
  BY <1>1 DEF TurnsUpTo, CallsUpTo
<1> QED BY <1>1, <1>2, <1>3, <1>4, <1>5, <1>6 DEF IInv

LEMMA TurnStartKeeps == IInv /\ TurnStart => IInv'
<1> SUFFICES ASSUME IInv, TurnStart PROVE IInv'
  OBVIOUS
<1> DEFINE e == Event("turn/start", turn + 1, 0)
           m == Append(log, e)
<1>1. /\ SoundLog(log) /\ LastTurn(log) = turn /\ Typed /\ stage = "idle"
      /\ Scanned(log).turn = 0 /\ asked = <<>> /\ inFlight = <<>>
      /\ TurnsUpTo(log, turn) /\ CallsUpTo(log, used)
  BY DEF IInv, DriverOK, TurnStart
<1>2. /\ log' = m /\ stage' = "turn" /\ turn' = turn + 1 /\ step' = 0
      /\ asked' = asked /\ inFlight' = inFlight /\ used' = used
  BY DEF TurnStart, Emit
<1>3. /\ SoundLog(m) /\ LastTurn(m) = turn + 1
      /\ Scanned(m) = [turn |-> turn + 1, step |-> 0, pending |-> <<>>]
      /\ Traced(m).nextStep = 1
  BY <1>1, TurnStarts
<1>4. TurnsUpTo(m, turn + 1) /\ CallsUpTo(m, used)
  <2>1. e \in EventRecord /\ log \in Seq(EventRecord) /\ turn + 1 \in Nat /\ used \in Nat
        /\ turn \in Nat /\ turn <= turn + 1
    BY <1>1, Events DEF Types, Typed
  <2>2. e.turn = turn + 1 /\ e.type = "turn/start"
    BY DEF Event
  <2>3. e.turn \in 0..(turn + 1)
    BY <2>1, <2>2
  <2> HIDE DEF e
  <2> QED BY <1>1, <2>1, <2>2, <2>3, BoundsAppend
<1> HIDE DEF m
<1>5. Typed' /\ SoundLog(log')
  <2>1. m \in Seq(EventRecord)
    BY <1>3 DEF SoundLog
  <2> QED BY <1>1, <1>2, <1>3, <2>1 DEF Typed, Stages
<1>6. DriverOK(Scanned(log), Traced(log))'
  BY <1>1, <1>2, <1>3 DEF DriverOK, Typed
<1> QED BY <1>1, <1>2, <1>3, <1>4, <1>5, <1>6 DEF IInv

LEMMA StepStartKeeps == IInv /\ StepStart => IInv'
<1> SUFFICES ASSUME IInv, StepStart PROVE IInv'
  OBVIOUS
<1> DEFINE e == Event("step/start", turn, step + 1)
           m == Append(log, e)
<1>1. /\ SoundLog(log) /\ LastTurn(log) = turn /\ Typed /\ stage = "turn"
      /\ Scanned(log).turn = turn /\ turn # 0 /\ Scanned(log).step = 0
      /\ Traced(log).nextStep = step + 1 /\ asked = <<>> /\ inFlight = <<>>
      /\ TurnsUpTo(log, turn) /\ CallsUpTo(log, used)
  BY DEF IInv, DriverOK, StepStart
<1>2. /\ log' = m /\ stage' = "step" /\ turn' = turn /\ step' = step + 1
      /\ asked' = asked /\ inFlight' = inFlight /\ used' = used
  BY DEF StepStart, Emit
<1>3. step + 1 # 0 /\ step + 1 \in Nat
  BY <1>1 DEF Typed
<1>4. /\ SoundLog(m) /\ LastTurn(m) = turn
      /\ LastMessage(m) = LastMessage(log) /\ LastStepEnd(m) = LastStepEnd(log)
      /\ Scanned(m) = [turn |-> turn, step |-> step + 1, pending |-> <<>>]
      /\ Traced(m).nextStep = step + 1
  BY <1>1, <1>3, StepStarts
<1>5. LastMessage(log) <= LastStepEnd(log)
  BY <1>1, SoundParts, Positions, LenProperties
<1>6. TurnsUpTo(m, turn) /\ CallsUpTo(m, used)
  <2>1. e \in EventRecord /\ log \in Seq(EventRecord) /\ used \in Nat
        /\ turn \in Nat /\ turn <= turn
    BY <1>1, <1>3, Events DEF Types, Typed
  <2>2. e.turn = turn /\ e.type = "step/start"
    BY DEF Event
  <2>3. e.turn \in 0..turn
    BY <2>1, <2>2
  <2> HIDE DEF e
  <2> QED BY <1>1, <2>1, <2>2, <2>3, BoundsAppend
<1> HIDE DEF m
<1>7. Typed' /\ SoundLog(log')
  <2>1. m \in Seq(EventRecord)
    BY <1>4 DEF SoundLog
  <2> QED BY <1>1, <1>2, <1>3, <1>4, <2>1 DEF Typed, Stages
<1>8. DriverOK(Scanned(log), Traced(log))'
  BY <1>1, <1>2, <1>3, <1>4, <1>5 DEF DriverOK, Typed
<1> QED BY <1>1, <1>2, <1>4, <1>6, <1>7, <1>8 DEF IInv

LEMMA StepEndKeeps == IInv /\ StepEnd => IInv'
<1> SUFFICES ASSUME IInv, StepEnd PROVE IInv'
  OBVIOUS
<1> DEFINE e == Event("step/end", turn, step)
           m == Append(log, e)
<1>1. /\ SoundLog(log) /\ LastTurn(log) = turn /\ Typed /\ stage \in {"step", "tools"}
      /\ Scanned(log).turn = turn /\ turn # 0 /\ Scanned(log).step = step /\ step # 0
      /\ Traced(log).nextStep = step
      /\ TurnsUpTo(log, turn) /\ CallsUpTo(log, used)
  BY DEF IInv, DriverOK, StepEnd
<1>2. /\ log' = m /\ stage' = "turn" /\ turn' = turn /\ step' = step
      /\ asked' = <<>> /\ inFlight' = <<>> /\ used' = used
  BY DEF StepEnd, Emit
<1>3. /\ SoundLog(m) /\ LastTurn(m) = turn
      /\ Scanned(m) = [turn |-> turn, step |-> 0, pending |-> <<>>]
      /\ Traced(m).nextStep = step + 1
  BY <1>1, StepEnds
<1>4. TurnsUpTo(m, turn) /\ CallsUpTo(m, used)
  <2>1. e \in EventRecord /\ log \in Seq(EventRecord) /\ used \in Nat
        /\ turn \in Nat /\ turn <= turn
    BY <1>1, Events DEF Types, Typed
  <2>2. e.turn = turn /\ e.type = "step/end"
    BY DEF Event
  <2>3. e.turn \in 0..turn
    BY <2>1, <2>2
  <2> HIDE DEF e
  <2> QED BY <1>1, <2>1, <2>2, <2>3, BoundsAppend
<1> HIDE DEF m
<1>5. Typed' /\ SoundLog(log')
  <2>1. m \in Seq(EventRecord)
    BY <1>3 DEF SoundLog
  <2> QED BY <1>1, <1>2, <1>3, <2>1 DEF Typed, Stages
<1>6. DriverOK(Scanned(log), Traced(log))'
  BY <1>1, <1>2, <1>3 DEF DriverOK, Typed
<1>7. \A i \in DOMAIN asked' : asked'[i] \in 1..used'
  BY <1>2
<1> QED BY <1>2, <1>3, <1>4, <1>5, <1>6, <1>7 DEF IInv

LEMMA TurnEndKeeps == IInv /\ TurnEnd => IInv'
<1> SUFFICES ASSUME IInv, TurnEnd PROVE IInv'
  OBVIOUS
<1> DEFINE e == Event("turn/end", turn, 0)
           m == Append(log, e)
<1>1. /\ SoundLog(log) /\ LastTurn(log) = turn /\ Typed /\ stage = "turn"
      /\ Scanned(log).turn = turn /\ turn # 0 /\ Scanned(log).step = 0
      /\ asked = <<>> /\ inFlight = <<>>
      /\ TurnsUpTo(log, turn) /\ CallsUpTo(log, used)
  BY DEF IInv, DriverOK, TurnEnd
<1>2. /\ log' = m /\ stage' = "idle" /\ turn' = turn /\ step' = step
      /\ asked' = asked /\ inFlight' = inFlight /\ used' = used
  BY DEF TurnEnd, Emit
<1>3. /\ SoundLog(m) /\ LastTurn(m) = turn
      /\ Scanned(m) = [turn |-> 0, step |-> 0, pending |-> <<>>]
  BY <1>1, TurnEnds
<1>4. TurnsUpTo(m, turn) /\ CallsUpTo(m, used)
  <2>1. e \in EventRecord /\ log \in Seq(EventRecord) /\ used \in Nat
        /\ turn \in Nat /\ turn <= turn
    BY <1>1, Events DEF Types, Typed
  <2>2. e.turn = turn /\ e.type = "turn/end"
    BY DEF Event
  <2>3. e.turn \in 0..turn
    BY <2>1, <2>2
  <2> HIDE DEF e
  <2> QED BY <1>1, <2>1, <2>2, <2>3, BoundsAppend
<1> HIDE DEF m
<1>5. Typed' /\ SoundLog(log')
  <2>1. m \in Seq(EventRecord)
    BY <1>3 DEF SoundLog
  <2> QED BY <1>1, <1>2, <1>3, <2>1 DEF Typed, Stages
<1>6. DriverOK(Scanned(log), Traced(log))'
  BY <1>1, <1>2, <1>3 DEF DriverOK
<1> QED BY <1>1, <1>2, <1>3, <1>4, <1>5, <1>6 DEF IInv

LEMMA AssistantMessageKeeps ==
  ASSUME IInv, NEW n \in 0..MaxCalls, AssistantMessage(n)
  PROVE  IInv'
<1> DEFINE calls == [i \in 1..n |-> used + i]
           e == Message(turn, step, calls)
           m == Append(log, e)
<1>0. n \in Nat
  BY RepairAssumption
<1>1. /\ SoundLog(log) /\ LastTurn(log) = turn /\ Typed /\ stage = "step"
      /\ Scanned(log).turn = turn /\ turn # 0 /\ Scanned(log).step = step /\ step # 0
      /\ Traced(log).nextStep = step /\ LastMessage(log) <= LastStepEnd(log)
      /\ asked = <<>> /\ inFlight = <<>>
      /\ TurnsUpTo(log, turn) /\ CallsUpTo(log, used)
  BY DEF IInv, DriverOK, AssistantMessage
<1>2. /\ log' = m /\ stage' = "tools" /\ turn' = turn /\ step' = step
      /\ asked' = calls /\ inFlight' = inFlight /\ used' = used + n
  BY DEF AssistantMessage, Emit
<1>3. used \in Nat /\ log \in Seq(EventRecord) /\ turn \in Nat /\ step \in Nat
  BY <1>1 DEF Typed
<1>4. calls \in Seq(Nat) /\ Len(calls) = n /\ DOMAIN calls = 1..n
      /\ \A i \in 1..n : calls[i] = used + i
  BY <1>0, <1>3
<1>5. \A i, j \in DOMAIN calls : calls[i] = calls[j] => i = j
  BY <1>0, <1>3
<1>6. ASSUME NEW i \in DOMAIN calls PROVE SeqOfCall(log, calls[i]) = 0
  <2>1. calls[i] \notin 1..used
    BY <1>0, <1>3
  <2>2. DOMAIN log = 1..Len(log)
    BY <1>3, LenProperties
  <2>3. \A j \in 1..Len(log) : ~(log[j].type = "tool/call" /\ log[j].call = calls[i])
    BY <1>1, <2>1, <2>2 DEF CallsUpTo
  <2> QED BY <1>3, <2>3, Positions
<1> HIDE DEF calls
<1>7. /\ SoundLog(m) /\ LastTurn(m) = turn /\ LastMessage(m) > LastStepEnd(m)
      /\ Scanned(m) = [turn |-> turn, step |-> step,
                       pending |-> [i \in DOMAIN calls |-> Registered(calls[i], step)]]
      /\ Traced(m) = Traced(log)
  <2> DEFINE t == Scanned(log).turn
             k == Scanned(log).step
             l == Append(log, Message(t, k, calls))
  <2>1. SoundLog(log) /\ k # 0 /\ LastMessage(log) <= LastStepEnd(log) /\ calls \in Seq(Nat)
    BY <1>1, <1>4
  <2>2. /\ SoundLog(l) /\ LastTurn(l) = LastTurn(log) /\ LastMessage(l) > LastStepEnd(l)
        /\ Scanned(l) = [turn |-> t, step |-> k,
                         pending |-> [i \in DOMAIN calls |-> Registered(calls[i], k)]]
        /\ Traced(l) = Traced(log)
    BY <1>5, <1>6, <2>1, MessageArrives
  <2>3. t = turn /\ k = step /\ l = m /\ LastTurn(log) = turn
    BY <1>1
  <2> HIDE DEF t, k, l, m
  <2> QED BY <2>2, <2>3
<1>8. LET p == Scanned(m).pending
      IN  Len(p) = n /\ \A i \in 1..n : p[i].call = calls[i] /\ p[i].callSeq = 0
  <2> DEFINE p == [i \in DOMAIN calls |-> Registered(calls[i], step)]
  <2>0. calls \in Seq(Nat) /\ step \in Nat
    BY <1>3, <1>4
  <2>1. Len(p) = Len(calls) /\ \A i \in DOMAIN calls : p[i].call = calls[i] /\ p[i].callSeq = 0
    <3>1. DOMAIN calls = 1..Len(calls) /\ Len(calls) \in Nat
      BY <2>0, LenProperties
    <3>2. \A i \in DOMAIN calls : p[i].call = calls[i] /\ p[i].callSeq = 0
      BY DEF Registered
    <3>3. Len(p) = Len(calls)
      BY <3>1
    <3> QED BY <3>2, <3>3
  <2>2. Scanned(m).pending = p
    BY <1>7
  <2> HIDE DEF p, m
  <2> QED BY <1>4, <2>1, <2>2
<1>9. TurnsUpTo(m, turn) /\ CallsUpTo(m, used + n)
  <2>1. e \in EventRecord
    BY <1>3, <1>4, Events
  <2>2. e.turn = turn /\ e.type = "assistant/message" /\ e.turn \in 0..turn /\ turn <= turn
    BY <1>3 DEF Message, Event
  <2> HIDE DEF e
  <2>3. TurnsUpTo(m, turn) /\ CallsUpTo(m, used)
    BY <1>1, <1>3, <2>1, <2>2, BoundsAppend
  <2> HIDE DEF m
  <2>4. \A c \in 1..used : c \in 1..(used + n)
    BY <1>0, <1>3
  <2> QED BY <2>3, <2>4 DEF CallsUpTo
<1> HIDE DEF m
<1>10. Typed' /\ SoundLog(log')
  <2>1. m \in Seq(EventRecord) /\ used + n \in Nat
    BY <1>0, <1>3, <1>7 DEF SoundLog
  <2> QED BY <1>1, <1>2, <1>4, <1>7, <2>1 DEF Typed, Stages
<1>11. DriverOK(Scanned(log), Traced(log))'
  <2>1. Len(inFlight) = 0 /\ DOMAIN inFlight = {} /\ Len(calls) = n
    BY <1>1, <1>4
  <2>2. \A i \in DOMAIN calls : Len(inFlight) + i = i
    BY <1>0, <1>4, <2>1
  <2>3. Len(Scanned(m).pending) = Len(inFlight) + Len(calls)
    BY <1>0, <1>8, <2>1
  <2>4. \A i \in DOMAIN calls : /\ Scanned(m).pending[Len(inFlight) + i].call = calls[i]
                                /\ Scanned(m).pending[Len(inFlight) + i].callSeq = 0
    BY <1>4, <1>8, <2>2
  <2>5. /\ LastMessage(log') > LastStepEnd(log')
        /\ Len(Scanned(log').pending) = Len(inFlight') + Len(asked')
        /\ \A i \in DOMAIN inFlight' : /\ Scanned(log').pending[i].call = inFlight'[i]
                                       /\ Scanned(log').pending[i].callSeq # 0
        /\ \A i \in DOMAIN asked' : /\ Scanned(log').pending[Len(inFlight') + i].call = asked'[i]
                                    /\ Scanned(log').pending[Len(inFlight') + i].callSeq = 0
    BY <1>2, <1>7, <2>1, <2>3, <2>4
  <2>6. /\ Scanned(log').turn = turn' /\ turn' # 0 /\ Scanned(log').step = step' /\ step' # 0
        /\ Traced(log').nextStep = step' /\ stage' = "tools"
    BY <1>1, <1>2, <1>7
  <2> QED BY <2>5, <2>6 DEF DriverOK
<1>12. \A i \in DOMAIN asked' : asked'[i] \in 1..used'
  BY <1>0, <1>2, <1>3, <1>4
<1> QED BY <1>2, <1>7, <1>9, <1>10, <1>11, <1>12 DEF IInv

LEMMA ToolCallKeeps == IInv /\ ToolCall => IInv'
<1> SUFFICES ASSUME IInv, ToolCall PROVE IInv'
  OBVIOUS
<1> DEFINE k == Len(inFlight) + 1
           c == Head(asked)
           p == Scanned(log).pending
           e == ToolCallOf(turn, step, c)
           m == Append(log, e)
<1>1. /\ SoundLog(log) /\ LastTurn(log) = turn /\ Typed /\ stage = "tools" /\ asked # <<>>
      /\ Scanned(log).turn = turn /\ turn # 0 /\ Scanned(log).step = step /\ step # 0
      /\ Traced(log).nextStep = step /\ LastMessage(log) > LastStepEnd(log)
      /\ Len(p) = Len(inFlight) + Len(asked)
      /\ \A i \in DOMAIN inFlight : p[i].call = inFlight[i] /\ p[i].callSeq # 0
      /\ \A i \in DOMAIN asked : /\ p[Len(inFlight) + i].call = asked[i]
                                 /\ p[Len(inFlight) + i].callSeq = 0
      /\ TurnsUpTo(log, turn) /\ CallsUpTo(log, used)
      /\ \A i \in DOMAIN asked : asked[i] \in 1..used
  BY DEF IInv, DriverOK, ToolCall
<1>2. /\ log' = m /\ stage' = stage /\ turn' = turn /\ step' = step
      /\ asked' = Tail(asked) /\ inFlight' = Append(inFlight, c) /\ used' = used
  BY DEF ToolCall, Emit
<1>3. /\ used \in Nat /\ log \in Seq(EventRecord) /\ turn \in Nat /\ step \in Nat
      /\ asked \in Seq(Nat) /\ inFlight \in Seq(Nat) /\ Len(log) \in Nat
  BY <1>1, LenProperties DEF Typed
<1>4. /\ DOMAIN asked = 1..Len(asked) /\ Len(asked) \in Nat \ {0} /\ c = asked[1] /\ c \in Nat
      /\ DOMAIN inFlight = 1..Len(inFlight) /\ Len(inFlight) \in Nat
  <2>1. /\ DOMAIN asked = 1..Len(asked) /\ Len(asked) \in Nat \ {0}
        /\ DOMAIN inFlight = 1..Len(inFlight) /\ Len(inFlight) \in Nat
    BY <1>1, <1>3, EmptySeq, LenProperties
  <2>2. c = asked[1] /\ c \in Nat
    BY <1>1, <1>3, <2>1, ElementOfSeq
  <2> QED BY <2>1, <2>2
<1>5. /\ Tail(asked) \in Seq(Nat) /\ Len(Tail(asked)) = Len(asked) - 1
      /\ DOMAIN Tail(asked) = 1..(Len(asked) - 1)
      /\ \A i \in 1..(Len(asked) - 1) : Tail(asked)[i] = asked[i + 1]
  BY <1>1, <1>3, <1>4, HeadTailProperties, LenProperties
<1>6. /\ Append(inFlight, c) \in Seq(Nat) /\ Len(Append(inFlight, c)) = k
      /\ DOMAIN Append(inFlight, c) = 1..k
      /\ \A i \in 1..Len(inFlight) : Append(inFlight, c)[i] = inFlight[i]
      /\ Append(inFlight, c)[k] = c
  BY <1>3, <1>4, AppendProperties, LenProperties
<1>7. p # <<>> /\ p \in Seq(PendingRecord) /\ Len(p) \in Nat /\ DOMAIN p = 1..Len(p)
  <2>1. p \in Seq(PendingRecord)
    BY <1>1, SoundParts DEF ScanRecord
  <2> HIDE DEF p
  <2>2. Len(p) # 0
    BY <1>1, <1>4
  <2>3. p # <<>>
    BY <2>2
  <2> QED BY <2>1, <2>3, LenProperties
<1>8. k \in DOMAIN p /\ p[k].call = c /\ p[k].callSeq = 0
  <2>1. 1 \in DOMAIN asked /\ k \in 1..Len(p)
    BY <1>1, <1>4, <1>7
  <2> QED BY <1>1, <1>4, <1>7, <2>1
<1>9. /\ SoundLog(m) /\ LastTurn(m) = turn
      /\ LastMessage(m) = LastMessage(log) /\ LastStepEnd(m) = LastStepEnd(log)
      /\ Scanned(m) = [turn |-> turn, step |-> step,
                       pending |-> Recorded(p, c, Len(log) + 1)]
      /\ Traced(m).nextStep = step
  <2> DEFINE t == Scanned(log).turn
             n == Scanned(log).step
             l == Append(log, ToolCallOf(t, n, p[k].call))
  <2>1. SoundLog(log) /\ k \in DOMAIN p /\ p[k].callSeq = 0 /\ p # <<>>
    BY <1>1, <1>7, <1>8
  <2>2. /\ SoundLog(l) /\ LastTurn(l) = LastTurn(log)
        /\ LastMessage(l) = LastMessage(log) /\ LastStepEnd(l) = LastStepEnd(log)
        /\ Scanned(l) = [turn |-> t, step |-> n,
                         pending |-> Recorded(p, p[k].call, Len(log) + 1)]
        /\ Traced(l).nextStep = Traced(log).nextStep
    <3> HIDE DEF k
    <3> QED BY <2>1, CallStarts
  <2>3. t = turn /\ n = step /\ p[k].call = c /\ l = m
    BY <1>1, <1>8
  <2> HIDE DEF t, n, l, m, c, k, p
  <2> QED BY <1>1, <2>2, <2>3
<1>10. LET r == Scanned(m).pending
       IN  /\ Len(r) = Len(p)
           /\ \A i \in DOMAIN p :
                /\ r[i].call = p[i].call
                /\ r[i].callSeq = IF i = k THEN Len(log) + 1 ELSE p[i].callSeq
  <2>1. \A i, j \in DOMAIN p : p[i].call = p[j].call => i = j
    BY <1>1, <1>7, OpenCalls
  <2>2. Len(log) + 1 \in Nat /\ Scanned(m).pending = Recorded(p, p[k].call, Len(log) + 1)
    BY <1>3, <1>8, <1>9
  <2> HIDE DEF p, k, m
  <2> DEFINE r == Recorded(p, p[k].call, Len(log) + 1)
  <2>3. /\ Len(r) = Len(p)
        /\ \A i \in DOMAIN p :
             /\ r[i].call = p[i].call
             /\ r[i].callSeq = IF i = k THEN Len(log) + 1 ELSE p[i].callSeq
    BY <1>7, <1>8, <2>1, <2>2, RecordedCall
  <2> HIDE DEF r
  <2>4. Scanned(m).pending = r
    BY <2>2 DEF r
  <2> QED BY <2>3, <2>4
<1>11. TurnsUpTo(m, turn) /\ CallsUpTo(m, used)
  <2>1. e \in EventRecord
    BY <1>3, <1>4, Events
  <2>2. e.turn = turn /\ e.turn \in 0..turn /\ turn <= turn /\ e.call = c /\ c \in 1..used
    <3>1. 1 \in DOMAIN asked
      BY <1>4
    <3>2. c \in 1..used
      BY <1>1, <1>4, <3>1
    <3>3. e.turn = turn /\ e.call = c
      BY DEF ToolCallOf, Event
    <3> QED BY <1>3, <3>2, <3>3
  <2> HIDE DEF e
  <2> QED BY <1>1, <1>3, <2>1, <2>2, BoundsAppend
<1> HIDE DEF m
<1>12. Typed' /\ SoundLog(log')
  <2>1. m \in Seq(EventRecord)
    BY <1>9 DEF SoundLog
  <2> QED BY <1>1, <1>2, <1>3, <1>5, <1>6, <1>9, <2>1 DEF Typed, Stages
<1>13. DriverOK(Scanned(log), Traced(log))'
  <2> DEFINE r == Scanned(m).pending
             f == Append(inFlight, c)
             a == Tail(asked)
  <2>1. Len(r) = Len(f) + Len(a)
    BY <1>1, <1>4, <1>5, <1>6, <1>10
  <2>2. ASSUME NEW i \in DOMAIN f PROVE r[i].call = f[i] /\ r[i].callSeq # 0
    <3>1. CASE i \in 1..Len(inFlight)
      <4>1. i \in DOMAIN p /\ i # k
        BY <1>1, <1>4, <1>7, <3>1
      <4> QED BY <1>1, <1>4, <1>6, <1>10, <3>1, <4>1
    <3>2. CASE i = k
      BY <1>3, <1>6, <1>8, <1>10, <3>2
    <3> QED BY <1>4, <1>6, <3>1, <3>2
  <2>3. ASSUME NEW i \in DOMAIN a
        PROVE  r[Len(f) + i].call = a[i] /\ r[Len(f) + i].callSeq = 0
    <3>0. i \in 1..(Len(asked) - 1) /\ Len(f) = Len(inFlight) + 1
      BY <1>5, <1>6
    <3>1. i + 1 \in DOMAIN asked /\ Len(f) + i = Len(inFlight) + (i + 1)
          /\ Len(f) + i \in 1..Len(p) /\ Len(f) + i # k
      <4> HIDE DEF p, f
      <4> QED BY <1>1, <1>4, <3>0
    <3>2. p[Len(f) + i].call = asked[i + 1] /\ p[Len(f) + i].callSeq = 0
      BY <1>1, <3>1
    <3> QED BY <1>5, <1>7, <1>10, <3>1, <3>2
  <2> HIDE DEF r, f, a
  <2>4. asked' = a /\ inFlight' = f
    BY <1>2 DEF a, f
  <2>5. /\ LastMessage(log') > LastStepEnd(log')
        /\ Len(Scanned(log').pending) = Len(inFlight') + Len(asked')
        /\ \A i \in DOMAIN inFlight' : /\ Scanned(log').pending[i].call = inFlight'[i]
                                       /\ Scanned(log').pending[i].callSeq # 0
        /\ \A i \in DOMAIN asked' : /\ Scanned(log').pending[Len(inFlight') + i].call = asked'[i]
                                    /\ Scanned(log').pending[Len(inFlight') + i].callSeq = 0
    BY <1>1, <1>2, <1>9, <2>1, <2>2, <2>3, <2>4 DEF r
  <2>6. /\ Scanned(log').turn = turn' /\ turn' # 0 /\ Scanned(log').step = step' /\ step' # 0
        /\ Traced(log').nextStep = step' /\ stage' = "tools"
    BY <1>1, <1>2, <1>9
  <2> QED BY <2>5, <2>6 DEF DriverOK
<1>14. \A i \in DOMAIN asked' : asked'[i] \in 1..used'
  BY <1>1, <1>2, <1>4, <1>5
<1> QED BY <1>2, <1>9, <1>11, <1>12, <1>13, <1>14 DEF IInv

LEMMA ToolResultKeeps == IInv /\ ToolResult => IInv'
<1> SUFFICES ASSUME IInv, ToolResult PROVE IInv'
  OBVIOUS
<1> DEFINE c == Head(inFlight)
           p == Scanned(log).pending
           e == Result(turn, step, c, "none", SeqOfCall(log, c), "append")
           m == Append(log, e)
<1>1. /\ SoundLog(log) /\ LastTurn(log) = turn /\ Typed /\ stage = "tools" /\ inFlight # <<>>
      /\ Scanned(log).turn = turn /\ turn # 0 /\ Scanned(log).step = step /\ step # 0
      /\ Traced(log).nextStep = step /\ LastMessage(log) > LastStepEnd(log)
      /\ Len(p) = Len(inFlight) + Len(asked)
      /\ \A i \in DOMAIN inFlight : p[i].call = inFlight[i] /\ p[i].callSeq # 0
      /\ \A i \in DOMAIN asked : /\ p[Len(inFlight) + i].call = asked[i]
                                 /\ p[Len(inFlight) + i].callSeq = 0
      /\ TurnsUpTo(log, turn) /\ CallsUpTo(log, used)
      /\ \A i \in DOMAIN asked : asked[i] \in 1..used
  BY DEF IInv, DriverOK, ToolResult
<1>2. /\ log' = m /\ stage' = stage /\ turn' = turn /\ step' = step
      /\ asked' = asked /\ inFlight' = Tail(inFlight) /\ used' = used
  BY DEF ToolResult, Emit
<1>3. /\ used \in Nat /\ log \in Seq(EventRecord) /\ turn \in Nat /\ step \in Nat
      /\ asked \in Seq(Nat) /\ inFlight \in Seq(Nat)
  BY <1>1 DEF Typed
<1>4. /\ DOMAIN inFlight = 1..Len(inFlight) /\ Len(inFlight) \in Nat \ {0} /\ c = inFlight[1]
      /\ DOMAIN asked = 1..Len(asked) /\ Len(asked) \in Nat
  BY <1>1, <1>3, EmptySeq, LenProperties
<1>5. /\ Tail(inFlight) \in Seq(Nat) /\ Len(Tail(inFlight)) = Len(inFlight) - 1
      /\ DOMAIN Tail(inFlight) = 1..(Len(inFlight) - 1)
      /\ \A i \in 1..(Len(inFlight) - 1) : Tail(inFlight)[i] = inFlight[i + 1]
  BY <1>1, <1>3, <1>4, HeadTailProperties, LenProperties
<1>6. p # <<>> /\ p \in Seq(PendingRecord) /\ Len(p) \in Nat
  <2>1. p \in Seq(PendingRecord)
    BY <1>1, SoundParts DEF ScanRecord
  <2> HIDE DEF p
  <2>2. Len(p) # 0
    BY <1>1, <1>4
  <2>3. p # <<>>
    BY <2>2
  <2> QED BY <2>1, <2>3, LenProperties
<1>7. p[1].call = c /\ p[1].callSeq # 0 /\ p[1].callSeq = SeqOfCall(log, c)
  <2>1. p[1].call = c /\ p[1].callSeq # 0
    BY <1>1, <1>4
  <2>2. 1 \in DOMAIN p /\ CallsOK(log, Answers(log), p)
    BY <1>1, <1>6, OpenCalls
  <2> QED BY <2>1, <2>2 DEF CallsOK, CitedOK
<1>8. e = Result(turn, step, p[1].call, "none", p[1].callSeq, "append")
  BY <1>7
<1>9. /\ e \in EventRecord
      /\ SoundLog(m) /\ LastTurn(m) = turn
      /\ LastMessage(m) = LastMessage(log) /\ LastStepEnd(m) = LastStepEnd(log)
      /\ Scanned(m) = [turn |-> turn, step |-> step, pending |-> Tail(p)]
      /\ Traced(m).nextStep = step
  <2> DEFINE t == Scanned(log).turn
             k == Scanned(log).step
             d == Result(t, k, p[1].call, "none", p[1].callSeq, "append")
             l == Append(log, d)
  <2>1. "none" \in {"none", "not-started", "unknown"} /\ ("none" = "not-started" <=> p[1].callSeq = 0)
    BY <1>7
  <2>2. SoundLog(log) /\ p # <<>>
    BY <1>1, <1>6
  <2>3. /\ d \in EventRecord
        /\ SoundLog(l) /\ LastTurn(l) = LastTurn(log)
        /\ LastMessage(l) = LastMessage(log) /\ LastStepEnd(l) = LastStepEnd(log)
        /\ Scanned(l) = [turn |-> t, step |-> k, pending |-> Tail(p)]
        /\ Traced(l).nextStep = Traced(log).nextStep
    <3> HIDE DEF c, e
    <3> QED BY <2>1, <2>2, CallEnds
  <2>4. t = turn /\ k = step /\ d = e /\ l = m
    BY <1>1, <1>8
  <2> HIDE DEF c, e, m, t, k, d, l
  <2> QED BY <1>1, <2>3, <2>4
<1>10. TurnsUpTo(m, turn) /\ CallsUpTo(m, used)
  <2>1. e.turn = turn /\ e.turn \in 0..turn /\ turn <= turn /\ e.type = "tool/result"
    BY <1>3 DEF Result, Event
  <2> HIDE DEF e
  <2> QED BY <1>1, <1>3, <1>9, <2>1, BoundsAppend
<1> HIDE DEF m
<1>11. Typed' /\ SoundLog(log')
  <2>1. m \in Seq(EventRecord)
    BY <1>9 DEF SoundLog
  <2> QED BY <1>1, <1>2, <1>3, <1>5, <1>9, <2>1 DEF Typed, Stages
<1>12. DriverOK(Scanned(log), Traced(log))'
  <2> DEFINE r == Scanned(m).pending
             f == Tail(inFlight)
  <2>1. Len(r) = Len(p) - 1 /\ \A i \in 1..Len(r) : r[i] = p[i + 1]
    <3> HIDE DEF p
    <3> QED BY <1>6, <1>9, HeadTailProperties
  <2>2. Len(r) = Len(f) + Len(asked)
    BY <1>1, <1>4, <1>5, <2>1
  <2>3. ASSUME NEW i \in DOMAIN f PROVE r[i].call = f[i] /\ r[i].callSeq # 0
    <3>1. i + 1 \in DOMAIN inFlight /\ i \in 1..Len(r)
      BY <1>4, <1>5, <2>2
    <3> QED BY <1>1, <1>5, <2>1, <3>1
  <2>4. ASSUME NEW i \in DOMAIN asked
        PROVE  r[Len(f) + i].call = asked[i] /\ r[Len(f) + i].callSeq = 0
    <3>1. Len(f) + i \in 1..Len(r) /\ (Len(f) + i) + 1 = Len(inFlight) + i
      BY <1>4, <1>5, <2>2
    <3> QED BY <1>1, <2>1, <3>1
  <2> HIDE DEF r, f
  <2>5. asked' = asked /\ inFlight' = f
    BY <1>2 DEF f
  <2>6. /\ LastMessage(log') > LastStepEnd(log')
        /\ Len(Scanned(log').pending) = Len(inFlight') + Len(asked')
        /\ \A i \in DOMAIN inFlight' : /\ Scanned(log').pending[i].call = inFlight'[i]
                                       /\ Scanned(log').pending[i].callSeq # 0
        /\ \A i \in DOMAIN asked' : /\ Scanned(log').pending[Len(inFlight') + i].call = asked'[i]
                                    /\ Scanned(log').pending[Len(inFlight') + i].callSeq = 0
    BY <1>1, <1>2, <1>9, <2>2, <2>3, <2>4, <2>5 DEF r
  <2>7. /\ Scanned(log').turn = turn' /\ turn' # 0 /\ Scanned(log').step = step' /\ step' # 0
        /\ Traced(log').nextStep = step' /\ stage' = "tools"
    BY <1>1, <1>2, <1>9
  <2> QED BY <2>6, <2>7 DEF DriverOK
<1>13. \A i \in DOMAIN asked' : asked'[i] \in 1..used'
  BY <1>1, <1>2
<1> QED BY <1>2, <1>9, <1>10, <1>11, <1>12, <1>13 DEF IInv

LEMMA RewriteKeeps ==
  ASSUME IInv, NEW i \in DOMAIN log, Rewrite(i)
  PROVE  IInv'
<1> DEFINE e == [log[i] EXCEPT !.op = "replace", !.source = i]
           m == Append(log, e)
<1>1. /\ SoundLog(log) /\ LastTurn(log) = turn /\ Typed /\ stage = "turn"
      /\ Scanned(log).turn = turn /\ turn # 0 /\ Scanned(log).step = 0
      /\ Traced(log).nextStep = step + 1 /\ asked = <<>> /\ inFlight = <<>>
      /\ TurnsUpTo(log, turn) /\ CallsUpTo(log, used) /\ log[i].type = "tool/result"
  BY DEF IInv, DriverOK, Rewrite
<1>2. /\ log' = m /\ stage' = stage /\ turn' = turn /\ step' = step
      /\ asked' = asked /\ inFlight' = inFlight /\ used' = used
  BY DEF Rewrite, Emit, driverVars
<1>3. used \in Nat /\ log \in Seq(EventRecord) /\ turn \in Nat
  BY <1>1 DEF Typed
<1>4. log[i] \in EventRecord /\ i \in Nat
  BY <1>3, LenProperties, ElementOfSeq
<1>5. e \in EventRecord
  BY <1>4 DEF EventRecord
<1>6. e.type = "tool/result" /\ e.op = "replace" /\ e.turn = log[i].turn
  BY <1>1, <1>4 DEF EventRecord
<1> HIDE DEF e
<1>7. /\ SoundLog(m) /\ LastTurn(m) = turn /\ Scanned(m) = Scanned(log) /\ Traced(m) = Traced(log)
  BY <1>1, <1>5, <1>6, Unnoticed
<1>8. TurnsUpTo(m, turn) /\ CallsUpTo(m, used)
  <2>1. e.turn \in 0..turn /\ turn <= turn
    BY <1>1, <1>3, <1>6 DEF TurnsUpTo
  <2> QED BY <1>1, <1>3, <1>5, <1>6, <2>1, BoundsAppend
<1> HIDE DEF m
<1>9. Typed' /\ SoundLog(log')
  <2>1. m \in Seq(EventRecord)
    BY <1>7 DEF SoundLog
  <2> QED BY <1>1, <1>2, <1>7, <2>1 DEF Typed
<1>10. DriverOK(Scanned(log), Traced(log))'
  BY <1>1, <1>2, <1>7 DEF DriverOK
<1> QED BY <1>1, <1>2, <1>7, <1>8, <1>9, <1>10 DEF IInv

LEMMA CrashKeeps == IInv /\ Crash => IInv'
<1> SUFFICES ASSUME IInv, Crash PROVE IInv'
  OBVIOUS
<1>1. /\ log' = log /\ stage' = "down" /\ turn' = turn /\ step' = step
      /\ asked' = <<>> /\ inFlight' = <<>> /\ used' = used
  BY DEF Crash
<1>2. Typed'
  BY <1>1 DEF IInv, Typed, Stages
<1>3. SoundLog(log') /\ LastTurn(log') = turn' /\ TurnsUpTo(log', turn') /\ CallsUpTo(log', used')
  BY <1>1 DEF IInv
<1>4. DriverOK(Scanned(log), Traced(log))'
  BY <1>1 DEF DriverOK
<1>5. \A i \in DOMAIN asked' : asked'[i] \in 1..used'
  BY <1>1
<1> QED BY <1>2, <1>3, <1>4, <1>5 DEF IInv

LEMMA RepairKeeps ==
  ASSUME IInv, NEW k \in DOMAIN Closers(log), Repair(k)
  PROVE  IInv'
<1> DEFINE c == Closers(log)
           m == log \o SubSeq(c, 1, k)
<1>1. /\ SoundLog(log) /\ LastTurn(log) = turn /\ Typed /\ stage = "down"
      /\ TurnsUpTo(log, turn) /\ CallsUpTo(log, used)
      /\ asked = <<>> /\ inFlight = <<>>
  BY DEF IInv, DriverOK, Repair
<1>2. /\ log' = m /\ stage' = stage /\ turn' = turn /\ step' = step
      /\ asked' = asked /\ inFlight' = inFlight /\ used' = used
  BY DEF Repair, driverVars
<1>3. k \in 0..Len(c)
  <2>1. c \in Seq(EventRecord)
    BY <1>1, ClosersParts
  <2> HIDE DEF c
  <2>2. DOMAIN c = 1..Len(c) /\ Len(c) \in Nat
    BY <2>1, LenProperties
  <2> QED BY <2>2 DEF c
<1>4. /\ SoundLog(m) /\ LastTurn(m) = turn
      /\ \A i \in DOMAIN m :
           \/ i \in DOMAIN log /\ m[i] = log[i]
           \/ m[i].turn = turn /\ m[i].type # "tool/call"
  <2>1. /\ SoundLog(m) /\ LastTurn(m) = LastTurn(log)
        /\ \A i \in DOMAIN m :
             \/ i \in DOMAIN log /\ m[i] = log[i]
             \/ m[i].turn = LastTurn(log) /\ m[i].type # "tool/call"
    BY <1>1, <1>3, Repaired
  <2> HIDE DEF m
  <2> QED BY <1>1, <2>1
<1> HIDE DEF m
<1>5. TurnsUpTo(m, turn) /\ CallsUpTo(m, used)
  <2>1. turn \in 0..turn
    BY <1>1 DEF Typed
  <2> QED BY <1>1, <1>4, <2>1 DEF TurnsUpTo, CallsUpTo
<1>6. Typed' /\ SoundLog(log')
  <2>1. m \in Seq(EventRecord)
    BY <1>4 DEF SoundLog
  <2> QED BY <1>1, <1>2, <1>4, <2>1 DEF Typed
<1>7. DriverOK(Scanned(log), Traced(log))'
  BY <1>1, <1>2 DEF DriverOK
<1>8. \A i \in DOMAIN asked' : asked'[i] \in 1..used'
  BY <1>1, <1>2
<1> QED BY <1>2, <1>4, <1>5, <1>6, <1>7, <1>8 DEF IInv

\* A log without closers has no turn open, and marking the end of a seed
\* changes nothing of it.
LEMMA MarkedIsSound ==
  ASSUME NEW l, SoundLog(l), Closers(l) = <<>>
  PROVE  /\ Scanned(l).turn = 0 /\ SoundLog(Marked(l)) /\ Closers(Marked(l)) = <<>>
         /\ LastTurn(Marked(l)) = LastTurn(l) /\ Scanned(Marked(l)) = Scanned(l)
         /\ Marked(l) # <<>> /\ Marked(Marked(l)) = Marked(l)
         /\ \/ Marked(l) = l
            \/ Marked(l) = Append(l, Event("session/end-seed", 0, 0))
<1> DEFINE e == Event("session/end-seed", 0, 0)
           m == Append(l, e)
<1>1. Scanned(l).turn = 0
  BY OneCloser
<1>2. e \in EventRecord /\ e.type = "session/end-seed"
  BY Events DEF Types, Event
<1>3. l \in Seq(EventRecord)
  BY SoundParts
<1> HIDE DEF e
<1>4. SoundLog(m) /\ LastTurn(m) = LastTurn(l) /\ Scanned(m) = Scanned(l)
  BY <1>2, Unnoticed
<1>5. Closers(m) = <<>>
  BY <1>1, <1>4, ClosersParts
<1>6. m # <<>> /\ Last(m) = e
  <2>1. m # <<>> /\ Len(m) = Len(l) + 1 /\ m[Len(l) + 1] = e
    BY <1>2, <1>3, AppendProperties
  <2> HIDE DEF m
  <2> QED BY <2>1 DEF Last
<1>7. Marked(m) = m
  BY <1>2, <1>6 DEF Marked
<1>8. CASE l # <<>> /\ Last(l).type = "session/end-seed"
  BY <1>1, <1>8 DEF Marked
<1>9. CASE ~(l # <<>> /\ Last(l).type = "session/end-seed")
  <2>1. Marked(l) = m
    BY <1>9 DEF Marked, e
  <2> HIDE DEF m
  <2> QED BY <1>1, <1>4, <1>5, <1>6, <1>7, <2>1 DEF m, e
<1> QED BY <1>8, <1>9

LEMMA ResumeKeeps == IInv /\ Resume => IInv'
<1> SUFFICES ASSUME IInv, Resume PROVE IInv'
  OBVIOUS
<1> DEFINE e == Event("session/end-seed", 0, 0)
           m == Marked(log)
<1>1. /\ SoundLog(log) /\ LastTurn(log) = turn /\ Typed /\ Closers(log) = <<>>
      /\ TurnsUpTo(log, turn) /\ CallsUpTo(log, used) /\ asked = <<>> /\ inFlight = <<>>
  BY DEF IInv, DriverOK, Resume
<1>2. /\ log' = m /\ stage' = "idle" /\ turn' = turn /\ step' = 0
      /\ asked' = asked /\ inFlight' = inFlight /\ used' = used
  BY <1>1 DEF Resume
<1>3. SoundLog(m) /\ LastTurn(m) = turn /\ Scanned(m).turn = 0
      /\ (m = log \/ m = Append(log, e))
  BY <1>1, MarkedIsSound
<1>4. TurnsUpTo(m, turn) /\ CallsUpTo(m, used)
  <2>1. e \in EventRecord /\ log \in Seq(EventRecord) /\ used \in Nat
        /\ turn \in Nat /\ turn <= turn
    BY <1>1, Events DEF Types, Typed
  <2>2. e.turn = 0 /\ e.type = "session/end-seed" /\ 0 \in 0..turn
    BY <2>1 DEF Event
  <2> HIDE DEF e
  <2>3. TurnsUpTo(Append(log, e), turn) /\ CallsUpTo(Append(log, e), used)
    BY <1>1, <2>1, <2>2, BoundsAppend
  <2> HIDE DEF m
  <2> QED BY <1>1, <1>3, <2>3
<1> HIDE DEF m
<1>5. Typed' /\ SoundLog(log')
  <2>1. m \in Seq(EventRecord)
    BY <1>3 DEF SoundLog
  <2> QED BY <1>1, <1>2, <1>3, <2>1 DEF Typed, Stages
<1>6. DriverOK(Scanned(log), Traced(log))'
  BY <1>1, <1>2, <1>3 DEF DriverOK
<1>7. \A i \in DOMAIN asked' : asked'[i] \in 1..used'
  BY <1>1, <1>2
<1> QED BY <1>2, <1>3, <1>4, <1>5, <1>6, <1>7 DEF IInv

\* Wherever the driver, a crash or an interrupted repair has left the log, it
\* is one that the two scans read alike and that can be closed.
THEOREM RecoveryIsInductive == Spec => []IInv
<1>1. Init => IInv
  BY InitHolds
<1>2. IInv /\ [Next]_vars => IInv'
  <2> SUFFICES ASSUME IInv, [Next]_vars PROVE IInv'
    OBVIOUS
  <2>1. CASE TurnStart
    BY <2>1, TurnStartKeeps
  <2>2. CASE StepStart
    BY <2>2, StepStartKeeps
  <2>3. CASE ToolCall
    BY <2>3, ToolCallKeeps
  <2>4. CASE ToolResult
    BY <2>4, ToolResultKeeps
  <2>5. CASE StepEnd
    BY <2>5, StepEndKeeps
  <2>6. CASE TurnEnd
    BY <2>6, TurnEndKeeps
  <2>7. CASE \E n \in 0..MaxCalls : AssistantMessage(n)
    BY <2>7, AssistantMessageKeeps
  <2>8. CASE \E i \in DOMAIN log : Rewrite(i)
    BY <2>8, RewriteKeeps
  <2>9. CASE Crash
    BY <2>9, CrashKeeps
  <2>10. CASE Resume
    BY <2>10, ResumeKeeps
  <2>11. CASE \E k \in DOMAIN Closers(log) : Repair(k)
    BY <2>11, RepairKeeps
  <2>12. CASE UNCHANGED vars
    <3>1. /\ log' = log /\ stage' = stage /\ turn' = turn /\ step' = step
          /\ asked' = asked /\ inFlight' = inFlight /\ used' = used
      BY <2>12 DEF vars
    <3> QED BY <3>1 DEF IInv, Typed, DriverOK
  <2> QED BY <2>1, <2>2, <2>3, <2>4, <2>5, <2>6, <2>7, <2>8, <2>9, <2>10, <2>11, <2>12
           DEF Next, Driver
<1> QED BY <1>1, <1>2, PTL DEF Spec

-----------------------------------------------------------------------------
(* What recovery promises *)

\* A log and all of its closers.
LEMMA Closed ==
  ASSUME NEW l, SoundLog(l)
  PROVE  LET m == l \o Closers(l)
         IN  /\ SoundLog(m) /\ Closers(m) = <<>> /\ Scanned(m).turn = 0
             /\ LastMessage(m) = LastMessage(l)
             /\ \A d : SeqOfCall(m, d) = SeqOfCall(l, d)
             /\ \A i \in DOMAIN l : m[i] = l[i]
             /\ LastMessage(l) \in 1..Len(l) /\ CallsOK(l, Answers(l), Scanned(l).pending)
                  => CallsOK(m, Answers(m), Scanned(m).pending)
<1> DEFINE c == Closers(l)
           k == Len(c)
           m == l \o SubSeq(c, 1, k)
<1>1. c \in Seq(EventRecord) /\ l \in Seq(EventRecord)
  BY ClosersParts, SoundParts
<1>2. k \in Nat /\ k \in 0..Len(c) /\ SubSeq(c, 1, k) = c /\ SubSeq(c, k + 1, Len(c)) = <<>>
  <2> HIDE DEF c
  <2>1. k \in Nat
    BY <1>1, LenProperties
  <2> QED BY <1>1, <2>1, SubSeqFull, SubSeqEmpty
<1>3. /\ SoundLog(m) /\ Closers(m) = SubSeq(c, k + 1, Len(c))
      /\ LastMessage(m) = LastMessage(l)
      /\ \A d : SeqOfCall(m, d) = SeqOfCall(l, d)
      /\ LastMessage(l) \in 1..Len(l) /\ CallsOK(l, Answers(l), Scanned(l).pending)
           => CallsOK(m, Answers(m), Scanned(m).pending)
  <2>1. k \in 0..Len(Closers(l))
    BY <1>2
  <2> HIDE DEF k
  <2> QED BY <2>1, Repaired
<1>4. Scanned(m).turn = 0
  <2> HIDE DEF m
  <2> QED BY <1>2, <1>3, MarkedIsSound
<1>5. m = l \o c
  BY <1>2
<1>6. \A i \in DOMAIN l : (l \o c)[i] = l[i]
  <2> HIDE DEF c
  <2>1. DOMAIN l = 1..Len(l) /\ Len(l) \in Nat /\ Len(c) \in Nat
    BY <1>1, LenProperties
  <2> QED BY <1>1, <2>1, Joined
<1> HIDE DEF m
<1> QED BY <1>2, <1>3, <1>4, <1>5, <1>6

\* Wherever the process dies, what is stored and the closers that
\* interruptedTurnClosers() adds pass validateEvent() event by event, and no
\* turn or step stays open.
THEOREM RepairsAreLegal == Spec => []RepairIsLegal
<1>1. IInv => RepairIsLegal
  <2> SUFFICES ASSUME IInv PROVE RepairIsLegal
    OBVIOUS
  <2> DEFINE m == log \o Closers(log)
  <2>1. TypeOK
    <3>1. /\ log \in Seq(EventRecord) /\ DOMAIN log = 1..Len(log) /\ TurnsUpTo(log, turn)
      BY LenProperties DEF IInv, Typed
    <3>2. \A i \in DOMAIN log : log[i].type \in Types /\ log[i].turn \in 0..turn
      <4>1. \A i \in DOMAIN log : log[i] \in EventRecord
        BY <3>1, ElementOfSeq
      <4>2. \A i \in DOMAIN log : log[i].type \in Types
        BY <4>1 DEF EventRecord
      <4> QED BY <3>1, <4>2 DEF TurnsUpTo
    <3> QED BY <3>2 DEF IInv, Typed, TypeOK
  <2>2. SoundLog(m) /\ Scanned(m).turn = 0
    BY Closed DEF IInv
  <2> HIDE DEF m
  <2>3. Traced(m) \in TraceRecord /\ Traced(m).openTurn = 0 /\ Traced(m).openStep = 0
    BY <2>2, SoundParts
  <2>4. Traced(m).ok
    BY <2>3 DEF TraceRecord
  <2> QED BY <2>1, <2>3, <2>4 DEF RepairIsLegal, m
<1> QED BY <1>1, RecoveryIsInductive, PTL

\* A load that dies after any of its closers is continued by the next one with
\* exactly the closers that are missing, and opening a session again and again
\* adds no event.
THEOREM RepairsResume == Spec => []RepairResumes
<1>1. IInv => RepairResumes
  <2> SUFFICES ASSUME IInv PROVE RepairResumes
    OBVIOUS
  <2> DEFINE c == Closers(log)
             m == log \o c
  <2>1. SoundLog(log)
    BY DEF IInv
  <2>2. ASSUME NEW k \in 0..Len(c)
        PROVE  Closers(log \o SubSeq(c, 1, k)) = SubSeq(c, k + 1, Len(c))
    BY <2>1, <2>2, Repaired
  <2>3. Reopened(Reopened(log)) = Reopened(log)
    <3>1. SoundLog(m) /\ Closers(m) = <<>>
      BY <2>1, Closed
    <3>2. Reopened(log) = Marked(m)
      BY DEF Reopened
    <3> HIDE DEF m
    <3> DEFINE r == Marked(m)
    <3>3. SoundLog(r) /\ Closers(r) = <<>> /\ Marked(r) = r
      BY <3>1, MarkedIsSound
    <3> HIDE DEF r
    <3>4. r \in Seq(EventRecord)
      BY <3>3, SoundParts
    <3>5. Reopened(r) = r
      BY <3>3, <3>4, ConcatEmptySeq DEF Reopened
    <3> QED BY <3>2, <3>5 DEF r
  <2> QED BY <2>2, <2>3 DEF RepairResumes
<1> QED BY <1>1, RecoveryIsInductive, PTL

\* After the repair every tool call of the step that was open at the crash has
\* one result, in the model's order, which cites the recorded tool/call if there
\* is one and says "not-started" only if there is none.
THEOREM InterruptedCallsGetAnswers == Spec => []InterruptedCallsAnswered
<1>1. IInv => InterruptedCallsAnswered
  <2> SUFFICES ASSUME IInv, LastMessage(log) > LastStepEnd(log)
               PROVE  LET results == Answers(log \o Closers(log))
                      IN  /\ [i \in DOMAIN results |-> results[i].call]
                               = log[LastMessage(log)].calls
                          /\ \A i \in DOMAIN results :
                               /\ results[i].source = SeqOfCall(log, results[i].call)
                               /\ results[i].error = "not-started" <=> results[i].source = 0
    BY DEF InterruptedCallsAnswered
  <2> DEFINE m == log \o Closers(log)
             a == Answers(m)
             calls == log[LastMessage(log)].calls
  <2>1. SoundLog(log) /\ log \in Seq(EventRecord) /\ Len(log) \in Nat
        /\ DOMAIN log = 1..Len(log)
    BY LenProperties DEF IInv, Typed
  <2>2. LastMessage(log) \in DOMAIN log /\ CallsOK(log, Answers(log), Scanned(log).pending)
    BY <2>1, Positions DEF SoundLog, AnsweredOK
  <2>3. /\ SoundLog(m) /\ Scanned(m).turn = 0 /\ LastMessage(m) = LastMessage(log)
        /\ \A d : SeqOfCall(m, d) = SeqOfCall(log, d)
        /\ m[LastMessage(log)] = log[LastMessage(log)]
        /\ CallsOK(m, a, Scanned(m).pending)
    BY <2>1, <2>2, Closed
  <2> HIDE DEF m
  <2>4. Scanned(m).pending = <<>> /\ m \in Seq(EventRecord)
    BY <2>3, SoundParts
  <2>5. /\ Len(calls) = Len(a) + Len(<<>>)
        /\ \A i \in DOMAIN a :
             /\ a[i].call = calls[i] /\ a[i].source = SeqOfCall(log, a[i].call)
             /\ a[i].error = "not-started" <=> a[i].source = 0
    BY <2>3, <2>4 DEF CallsOK, CitedOK
  <2>6. a \in Seq(EventRecord) /\ calls \in Seq(Nat)
    <3>1. log[LastMessage(log)] \in EventRecord
      BY <2>1, <2>2, ElementOfSeq
    <3> QED BY <2>4, <3>1, AnswersAreEvents DEF EventRecord
  <2> HIDE DEF a, calls
  <2>7. /\ DOMAIN a = 1..Len(a) /\ Len(a) \in Nat
        /\ DOMAIN calls = 1..Len(calls) /\ calls \in [1..Len(calls) -> Nat]
    BY <2>6, LenProperties
  <2>8. [i \in DOMAIN a |-> a[i].call] = calls
    <3>1. DOMAIN calls = DOMAIN a
      BY <2>5, <2>7
    <3> QED BY <2>5, <2>7, <3>1
  <2> QED BY <2>5, <2>8 DEF a, m, calls
<1> QED BY <1>1, RecoveryIsInductive, PTL

=============================================================================
