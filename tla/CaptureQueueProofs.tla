-------------------------- MODULE CaptureQueueProofs --------------------------
(***************************************************************************)
(* What CaptureQueue guarantees for every value of its constants: first    *)
(* whatever fails (types, messages, recovery), then as long as only        *)
(* ToleratedFaults happen (one active run per target).                     *)
(***************************************************************************)
EXTENDS CaptureQueue, Integers, SequenceTheorems, FiniteSetTheorems, TLAPS

-----------------------------------------------------------------------------
(* The Redis lists, kept as sequences: which messages a list has after     *)
(* RPUSH (Append), LPUSH (Cons), after its tail is popped (Front, Last)    *)
(* and after LREM of one element (RemoveFirst).                            *)

LEMMA MembersOfSeq ==
  ASSUME NEW S, NEW q \in Seq(S)
  PROVE  ToSet(q) \subseteq S
BY ElementOfSeq, LenProperties DEF ToSet

LEMMA AppendMembers ==
  ASSUME NEW S, NEW q \in Seq(S), NEW e \in S
  PROVE  Append(q, e) \in Seq(S) /\ ToSet(Append(q, e)) = ToSet(q) \cup {e}
<1> DEFINE p == Append(q, e)
<1>1. p \in Seq(S) /\ Len(p) = Len(q) + 1
  BY AppendProperties
<1>2. p[Len(q) + 1] = e /\ \A i \in 1 .. Len(q) : p[i] = q[i]
  BY AppendProperties
<1>3. DOMAIN p = 1 .. Len(q) + 1 /\ DOMAIN q = 1 .. Len(q) /\ Len(q) \in Nat
  BY <1>1
<1>4. ToSet(p) \subseteq ToSet(q) \cup {e}
  <2>1. SUFFICES ASSUME NEW x \in ToSet(p) PROVE x \in ToSet(q) \cup {e}
    OBVIOUS
  <2>2. PICK i \in DOMAIN p : x = p[i]
    BY DEF ToSet
  <2>3. CASE i = Len(q) + 1
    BY <1>2, <2>2, <2>3
  <2>4. CASE i \in DOMAIN q
    BY <1>2, <1>3, <2>2, <2>4 DEF ToSet
  <2>5. QED
    BY <1>3, <2>3, <2>4
<1>5. ToSet(q) \cup {e} \subseteq ToSet(p)
  BY <1>2, <1>3 DEF ToSet
<1>6. QED
  BY <1>1, <1>4, <1>5

LEMMA ConsMembers ==
  ASSUME NEW S, NEW q \in Seq(S), NEW e \in S
  PROVE  Cons(e, q) \in Seq(S) /\ ToSet(Cons(e, q)) = ToSet(q) \cup {e}
<1> DEFINE p == <<e>> \o q
<1>1. p \in Seq(S) /\ Len(p) = Len(q) + 1 /\ Len(q) \in Nat
  BY ConcatProperties
<1>2. p[1] = e /\ \A i \in 1 .. Len(q) : p[i + 1] = q[i]
  BY <1>1
<1>3. DOMAIN p = 1 .. Len(q) + 1 /\ DOMAIN q = 1 .. Len(q)
  BY <1>1
<1>4. ToSet(p) \subseteq ToSet(q) \cup {e}
  <2>1. SUFFICES ASSUME NEW x \in ToSet(p) PROVE x \in ToSet(q) \cup {e}
    OBVIOUS
  <2>2. PICK i \in DOMAIN p : x = p[i]
    BY DEF ToSet
  <2>3. CASE i = 1
    BY <1>2, <2>2, <2>3
  <2>4. CASE i # 1
    <3>1. i - 1 \in DOMAIN q /\ (i - 1) + 1 = i
      BY <1>1, <1>3, <2>2, <2>4
    <3>2. x = q[i - 1]
      BY <1>2, <1>3, <2>2, <3>1
    <3>3. QED
      BY <3>1, <3>2 DEF ToSet
  <2>5. QED
    BY <2>3, <2>4
<1>5. ToSet(q) \cup {e} \subseteq ToSet(p)
  <2>1. e \in ToSet(p)
    BY <1>1, <1>2, <1>3 DEF ToSet
  <2>2. ASSUME NEW i \in DOMAIN q PROVE q[i] \in ToSet(p)
    <3>1. i + 1 \in DOMAIN p /\ p[i + 1] = q[i]
      BY <1>1, <1>2, <1>3
    <3>2. QED
      BY <3>1 DEF ToSet
  <2>3. QED
    BY <2>1, <2>2 DEF ToSet
<1>6. QED
  BY <1>1, <1>4, <1>5 DEF Cons

LEMMA FrontLastMembers ==
  ASSUME NEW S, NEW q \in Seq(S), q # <<>>
  PROVE  /\ Front(q) \in Seq(S) /\ Last(q) \in S
         /\ ToSet(q) = ToSet(Front(q)) \cup {Last(q)}
<1> DEFINE n == Len(q)
           p == SubSeq(q, 1, n - 1)
<1>1. n \in Nat /\ n > 0 /\ DOMAIN q = 1 .. n
  BY EmptySeq, LenProperties
<1>2. p \in Seq(S) /\ Len(p) = n - 1 /\ \A i \in 1 .. n - 1 : p[i] = q[i]
  BY <1>1, SubSeqProperties
<1>3. DOMAIN p = 1 .. n - 1
  BY <1>1, <1>2
<1>4. q[n] \in S
  BY <1>1, ElementOfSeq
<1>5. ToSet(q) \subseteq ToSet(p) \cup {q[n]}
  <2>1. SUFFICES ASSUME NEW x \in ToSet(q) PROVE x \in ToSet(p) \cup {q[n]}
    OBVIOUS
  <2>2. PICK i \in 1 .. n : x = q[i]
    BY <1>1 DEF ToSet
  <2>3. CASE i = n
    BY <2>2, <2>3
  <2>4. CASE i \in 1 .. n - 1
    BY <1>2, <1>3, <2>2, <2>4 DEF ToSet
  <2> HIDE DEF n
  <2>5. i = n \/ i \in 1 .. n - 1
    BY <1>1
  <2>6. QED
    BY <2>3, <2>4, <2>5
<1>6. ToSet(p) \cup {q[n]} \subseteq ToSet(q)
  <2>1. q[n] \in ToSet(q)
    BY <1>1 DEF ToSet
  <2>2. ASSUME NEW i \in DOMAIN p PROVE p[i] \in ToSet(q)
    BY <1>1, <1>2, <1>3 DEF ToSet
  <2>3. QED
    BY <2>1, <2>2 DEF ToSet
<1>7. QED
  BY <1>2, <1>4, <1>5, <1>6 DEF Front, Last

(* Removing one position loses at most the element that was there. *)
LEMMA RemoveAtMembers ==
  ASSUME NEW S, NEW q \in Seq(S), NEW k \in 1 .. Len(q)
  PROVE  /\ RemoveAt(q, k) \in Seq(S)
         /\ ToSet(RemoveAt(q, k)) \subseteq ToSet(q)
         /\ ToSet(q) \ {q[k]} \subseteq ToSet(RemoveAt(q, k))
<1> DEFINE n == Len(q)
           a == SubSeq(q, 1, k - 1)
           b == SubSeq(q, k + 1, n)
<1>1. n \in Nat /\ DOMAIN q = 1 .. n /\ \A i \in 1 .. n : q[i] \in S
  BY LenProperties, ElementOfSeq
<1>2. a \in Seq(S) /\ Len(a) = k - 1 /\ \A i \in 1 .. k - 1 : a[i] = q[i]
  <2>1. \A i \in 1 .. k - 1 : q[i] \in S
    BY <1>1
  <2>2. k - 1 \in Int /\ 1 \in Int
    BY <1>1
  <2> HIDE DEF a
  <2>3. /\ a \in Seq(S)
        /\ Len(a) = IF 1 <= k - 1 THEN (k - 1) - 1 + 1 ELSE 0
        /\ \A i \in 1 .. (k - 1) - 1 + 1 : a[i] = q[1 + i - 1]
    BY <2>1, <2>2, SubSeqProperties DEF a
  <2>4. QED
    BY <1>1, <2>3
<1>3. b \in Seq(S) /\ Len(b) = n - k /\ \A i \in 1 .. n - k : b[i] = q[k + i]
  <2>1. \A i \in k + 1 .. n : q[i] \in S
    BY <1>1
  <2>2. k + 1 \in Int /\ n \in Int
    BY <1>1
  <2> HIDE DEF b
  <2>3. /\ b \in Seq(S)
        /\ Len(b) = IF k + 1 <= n THEN n - (k + 1) + 1 ELSE 0
        /\ \A i \in 1 .. n - (k + 1) + 1 : b[i] = q[(k + 1) + i - 1]
    BY <2>1, <2>2, SubSeqProperties DEF b
  <2> HIDE DEF n
  <2>4. n - (k + 1) + 1 = n - k /\ \A i \in 1 .. n - k : (k + 1) + i - 1 = k + i
    BY <1>1
  <2>5. (IF k + 1 <= n THEN n - k ELSE 0) = n - k
    BY <1>1
  <2>6. QED
    BY <2>3, <2>4, <2>5
<1> HIDE DEF a, b
<1>4. DOMAIN a = 1 .. k - 1 /\ DOMAIN b = 1 .. n - k
  BY <1>2, <1>3, LenProperties
<1>5. RemoveAt(q, k) = a \o b
  BY DEF RemoveAt, a, b
<1>6. RemoveAt(q, k) \in Seq(S) /\ ToSet(RemoveAt(q, k)) = ToSet(a) \cup ToSet(b)
  <2>1. a \o b \in Seq(S)
    BY <1>2, <1>3, ConcatProperties
  <2>2. Range(a \o b) = Range(a) \cup Range(b)
    BY <1>2, <1>3, RangeConcatenation
  <2>3. QED
    BY <1>5, <2>1, <2>2 DEF ToSet, Range
<1>7. ToSet(a) \cup ToSet(b) \subseteq ToSet(q)
  <2>1. ASSUME NEW i \in 1 .. k - 1 PROVE a[i] \in ToSet(q)
    BY <1>1, <1>2 DEF ToSet
  <2>2. ASSUME NEW i \in 1 .. n - k PROVE b[i] \in ToSet(q)
    <3>1. k + i \in DOMAIN q /\ b[i] = q[k + i]
      BY <1>1, <1>3
    <3>2. QED
      BY <3>1 DEF ToSet
  <2>3. QED
    BY <1>4, <2>1, <2>2 DEF ToSet
<1>8. ASSUME NEW i \in 1 .. n, i # k PROVE q[i] \in ToSet(a) \cup ToSet(b)
  <2>1. CASE i < k
    <3>1. i \in DOMAIN a /\ a[i] = q[i]
      BY <1>1, <1>2, <1>4, <2>1
    <3>2. QED
      BY <3>1 DEF ToSet
  <2>2. CASE i > k
    <3>1. i - k \in DOMAIN b /\ b[i - k] = q[k + (i - k)] /\ k + (i - k) = i
      BY <1>1, <1>3, <1>4, <2>2
    <3>2. QED
      BY <3>1 DEF ToSet
  <2>3. QED
    BY <1>1, <1>8, <2>1, <2>2
<1>9. QED
  BY <1>1, <1>6, <1>7, <1>8 DEF ToSet

LEMMA RemoveFirstMembers ==
  ASSUME NEW S, NEW q \in Seq(S), NEW e
  PROVE  /\ RemoveFirst(q, e) \in Seq(S)
         /\ ToSet(RemoveFirst(q, e)) \subseteq ToSet(q)
         /\ ToSet(q) \ {e} \subseteq ToSet(RemoveFirst(q, e))
<1> DEFINE I == {i \in 1 .. Len(q) : q[i] = e}
<1>1. CASE I = {}
  BY <1>1 DEF RemoveFirst
<1>2. CASE I # {}
  <2> DEFINE k == Min(I)
  <2>1. k \in I
    <3>1. I \subseteq Nat
      OBVIOUS
    <3> HIDE DEF I
    <3>2. PICK j \in I : \A i \in I : <<i, j>> \notin OpToRel(<, Nat)
      BY <1>2, <3>1, NatLessThanWellFounded, WFMin
    <3>3. \A i \in I : j <= i
      <4>1. SUFFICES ASSUME NEW i \in I PROVE j <= i
        OBVIOUS
      <4>2. i \in Nat /\ j \in Nat
        BY <3>1
      <4>3. ~(i < j)
        BY <3>2, <4>2 DEF OpToRel
      <4>4. QED
        BY <4>2, <4>3
    <3>4. QED
      BY <3>3 DEF Min
  <2>2. RemoveFirst(q, e) = RemoveAt(q, k)
    BY <1>2 DEF RemoveFirst, SelectInSeq
  <2>3. k \in 1 .. Len(q) /\ q[k] = e
    BY <2>1
  <2>4. QED
    BY <2>2, <2>3, RemoveAtMembers
<1>3. QED
  BY <1>1, <1>2

-----------------------------------------------------------------------------
(* What each step on the Redis lists does to Messages.                     *)

LEMMA MessagesAreMessages ==
  ASSUME queue \in Seq(Message), processing \in Seq(Message)
  PROVE  Messages \subseteq Message
BY MembersOfSeq DEF Messages

(* RPUSH by the API or by the starting worker. *)
LEMMA PushAddsMessage ==
  ASSUME queue \in Seq(Message), processing \in Seq(Message),
         NEW m \in Message, queue' = Append(queue, m), processing' = processing
  PROVE  queue' \in Seq(Message) /\ Messages' = Messages \cup {m}
BY AppendMembers DEF Messages

(* RPOPLPUSH of recover_processing. *)
LEMMA RecoverKeepsMessages ==
  ASSUME queue \in Seq(Message), processing \in Seq(Message), RecoverOne
  PROVE  /\ queue' \in Seq(Message) /\ processing' \in Seq(Message)
         /\ Messages' = Messages
<1>1. /\ Front(processing) \in Seq(Message) /\ Last(processing) \in Message
      /\ ToSet(processing) = ToSet(Front(processing)) \cup {Last(processing)}
  BY FrontLastMembers DEF RecoverOne
<1>2. /\ queue' \in Seq(Message)
      /\ ToSet(queue') = ToSet(queue) \cup {Last(processing)}
  <2>1. queue' = Cons(Last(processing), queue)
    BY DEF RecoverOne
  <2>2. QED
    BY <1>1, <2>1, ConsMembers
<1>3. QED
  BY <1>1, <1>2 DEF RecoverOne, Messages

(* BRPOPLPUSH of dequeue. *)
LEMMA PopKeepsMessages ==
  ASSUME queue \in Seq(Message), processing \in Seq(Message), PopToProcessing
  PROVE  /\ queue' \in Seq(Message) /\ processing' \in Seq(Message)
         /\ Messages' = Messages
         /\ Last(queue) \in Message /\ Last(queue) \in ToSet(processing')
         /\ Last(queue) \in Messages
<1>1. /\ Front(queue) \in Seq(Message) /\ Last(queue) \in Message
      /\ ToSet(queue) = ToSet(Front(queue)) \cup {Last(queue)}
  BY FrontLastMembers DEF PopToProcessing
<1>2. /\ processing' \in Seq(Message)
      /\ ToSet(processing') = ToSet(processing) \cup {Last(queue)}
  <2>1. processing' = Cons(Last(queue), processing)
    BY DEF PopToProcessing
  <2>2. QED
    BY <1>1, <2>1, ConsMembers
<1>3. QED
  BY <1>1, <1>2 DEF PopToProcessing, Messages

(* LREM of acknowledge. *)
LEMMA AcknowledgeRemovesHeld ==
  ASSUME queue \in Seq(Message), processing \in Seq(Message), Acknowledge
  PROVE  /\ queue' \in Seq(Message) /\ processing' \in Seq(Message)
         /\ Messages' \subseteq Messages
         /\ Messages \ {held} \subseteq Messages'
BY RemoveFirstMembers DEF Acknowledge, Messages

-----------------------------------------------------------------------------
(* What each step of a coroutine does to call.                             *)

LEMMA GotoKeepsCalls ==
  ASSUME call \in [Callers -> Call], NEW c \in Callers, NEW step \in CallSteps,
         Goto(c, step)
  PROVE  /\ call' \in [Callers -> Call]
         /\ call'[c].step = step /\ call'[c].run = call[c].run
         /\ call'[c].target = call[c].target
         /\ \A d \in Callers \ {c} : call'[d] = call[d]
BY DEF Goto, Call

LEMMA LeaveKeepsCalls ==
  ASSUME call \in [Callers -> Call], NEW c \in Callers, Leave(c)
  PROVE  /\ call' \in [Callers -> Call]
         /\ call'[c].step = "idle" /\ call'[c].run = "none"
         /\ \A d \in Callers \ {c} : call'[d] = call[d]
BY DEF Leave, Call, NoCall, CallSteps

LEMMA CreateKeepsCalls ==
  ASSUME call \in [Callers -> Call], NEW c \in Callers, NEW r \in RunIds,
         Create(c, r)
  PROVE  /\ call' \in [Callers -> Call]
         /\ call'[c].step = "enqueue" /\ call'[c].run = r
         /\ call'[c].target = call[c].target
         /\ \A d \in Callers \ {c} : call'[d] = call[d]
BY DEF Create, Call, CallSteps

-----------------------------------------------------------------------------
(* Whatever fails.                                                         *)

LEMMA FaultInit == Init => FaultInvariant
BY NameAssumption, FaultAssumption
DEF Init, FaultInvariant, TypeOK, RunsHaveTargets, RunningRunsAreFound, RunStatus,
    LiveStatus, SettledStatus, Call, CallSteps, NoCall, WorkerSteps, Messages, ToSet, At

LEMMA FaultStep == FaultInvariant /\ [Next]_vars => FaultInvariant'
<1> SUFFICES ASSUME FaultInvariant, [Next]_vars PROVE FaultInvariant'
  OBVIOUS
<1> USE NameAssumption, FaultAssumption DEF FaultInvariant
<1>1. ASSUME NEW c \in Callers, NEW t \in Targets, NEW force \in BOOLEAN, Trigger(c, t, force) PROVE FaultInvariant'
  <2>1. queue' \in Seq(Message) /\ processing' \in Seq(Message) /\ Messages' = Messages
    BY <1>1 DEF Trigger, redisVars, TypeOK, Messages
  <2>2. TypeOK'
    BY <1>1 DEF TypeOK, Trigger, Call, CallSteps, dbVars, redisVars, workerVars
  <2>3. RunsHaveTargets'
    BY <1>1, <2>1 DEF RunsHaveTargets, Trigger, At, dbVars, workerVars, Known
  <2>4. RunningRunsAreFound'
    BY <1>1, <2>1 DEF RunningRunsAreFound, HasMessage, Trigger, dbVars, workerVars
  <2>5. QED
    BY <2>2, <2>3, <2>4
<1>2. ASSUME NEW c \in Callers, Reserve(c) PROVE FaultInvariant'
  <2>1. queue' \in Seq(Message) /\ processing' \in Seq(Message) /\ Messages' = Messages
    BY <1>2 DEF Reserve, TypeOK, Messages
  <2>2. TypeOK'
    <3>1. call' \in [Callers -> Call]
      BY <1>2, GotoKeepsCalls, LeaveKeepsCalls DEF Reserve, TypeOK, CallSteps
    <3>2. QED
      BY <1>2, <3>1 DEF TypeOK, Reserve, dbVars, workerVars
  <2>3. RunsHaveTargets'
    BY <1>2, <2>1
    DEF TypeOK, RunsHaveTargets, Reserve, At, Goto, Leave, NoCall, Call, dbVars,
        workerVars, Known, NoMessage, Message
  <2>4. RunningRunsAreFound'
    BY <1>2, <2>1 DEF RunningRunsAreFound, HasMessage, Reserve, dbVars, workerVars
  <2>5. QED
    BY <2>2, <2>3, <2>4
<1>3. ASSUME NEW c \in Callers, NEW r \in RunIds, Create(c, r) PROVE FaultInvariant'
  <2>1. queue' \in Seq(Message) /\ processing' \in Seq(Message) /\ Messages' = Messages
    BY <1>3 DEF Create, redisVars, TypeOK, Messages
  <2>2. TypeOK'
    <3>1. call' \in [Callers -> Call] /\ call[c].target \in Targets
      BY <1>3, CreateKeepsCalls DEF TypeOK, Create
    <3>2. QED
      BY <1>3, <3>1 DEF TypeOK, Create, redisVars, workerVars, RunStatus, LiveStatus
  <2>3. RunsHaveTargets'
    BY <1>3, <2>1 DEF TypeOK, RunsHaveTargets, Create, At, workerVars, Known
  <2>4. RunningRunsAreFound'
    BY <1>3, <2>1 DEF RunningRunsAreFound, HasMessage, Create, workerVars
  <2>5. QED
    BY <2>2, <2>3, <2>4
<1>4. ASSUME NEW c \in Callers, CreateFails(c) PROVE FaultInvariant'
  <2>1. queue' \in Seq(Message) /\ processing' \in Seq(Message) /\ Messages' = Messages
    BY <1>4 DEF CreateFails, redisVars, TypeOK, Messages
  <2>2. TypeOK'
    BY <1>4
    DEF TypeOK, CreateFails, Fault, NoFault, Leave, NoCall, Call, CallSteps, dbVars,
        redisVars, workerVars
  <2>3. RunsHaveTargets'
    BY <1>4, <2>1
    DEF RunsHaveTargets, CreateFails, At, Leave, NoCall, dbVars, workerVars, Known
  <2>4. RunningRunsAreFound'
    BY <1>4, <2>1 DEF RunningRunsAreFound, HasMessage, CreateFails, dbVars, workerVars
  <2>5. QED
    BY <2>2, <2>3, <2>4
<1>5. ASSUME NEW c \in Callers, Enqueue(c) PROVE FaultInvariant'
  <2> DEFINE m == [run |-> call[c].run, target |-> call[c].target, force |-> call[c].force]
  <2>0. m \in Message
    BY <1>5 DEF Enqueue, At, Call, RunsHaveTargets, TypeOK, Message
  <2>1. queue' \in Seq(Message) /\ processing' \in Seq(Message) /\ Messages' = Messages \cup {m}
    BY <1>5, <2>0, PushAddsMessage DEF Enqueue, PushedBy, TypeOK
  <2>2. TypeOK'
    <3>1. call' \in [Callers -> Call]
      BY <1>5, GotoKeepsCalls, LeaveKeepsCalls DEF Enqueue, TypeOK, CallSteps
    <3>2. QED
      BY <1>5, <2>1, <3>1 DEF TypeOK, Enqueue, PushedBy, Message, dbVars, workerVars
  <2>3. RunsHaveTargets'
    <3>1. \A d \in Callers :
            \/ call'[d].step = "idle"
            \/ /\ call[d].step = "enqueue" \/ call'[d].step = call[d].step
               /\ call'[d].target = call[d].target /\ call'[d].run = call[d].run
      BY <1>5, GotoKeepsCalls, LeaveKeepsCalls DEF Enqueue, At, TypeOK, CallSteps
    <3>2. Known(m.run) /\ owner' = owner
      BY <1>5 DEF RunsHaveTargets, Enqueue, At, dbVars
    <3> HIDE DEF m
    <3>3. \A x \in Messages' : Known(x.run)'
      BY <2>1, <3>2 DEF RunsHaveTargets, Known
    <3>4. QED
      BY <1>5, <3>1, <3>3 DEF RunsHaveTargets, Enqueue, At, dbVars, workerVars, Known
  <2>4. RunningRunsAreFound'
    BY <1>5, <2>1 DEF RunningRunsAreFound, HasMessage, Enqueue, dbVars, workerVars
  <2>5. QED
    BY <2>2, <2>3, <2>4
<1>6. ASSUME NEW c \in Callers, ReleaseReservation(c) PROVE FaultInvariant'
  <2>1. queue' \in Seq(Message) /\ processing' \in Seq(Message) /\ Messages' = Messages
    BY <1>6 DEF ReleaseReservation, TypeOK, Messages
  <2>2. TypeOK'
    BY <1>6
    DEF TypeOK, RunsHaveTargets, ReleaseReservation, At, Goto, Call, CallSteps, dbVars,
        workerVars, Message
  <2>3. RunsHaveTargets'
    BY <1>6, <2>1
    DEF RunsHaveTargets, ReleaseReservation, At, Goto, dbVars, workerVars, Known
  <2>4. RunningRunsAreFound'
    BY <1>6, <2>1
    DEF RunningRunsAreFound, HasMessage, ReleaseReservation, dbVars, workerVars
  <2>5. QED
    BY <2>2, <2>3, <2>4
<1>7. ASSUME NEW c \in Callers, MarkFailed(c) PROVE FaultInvariant'
  <2>1. queue' \in Seq(Message) /\ processing' \in Seq(Message) /\ Messages' = Messages
    BY <1>7 DEF MarkFailed, redisVars, TypeOK, Messages
  <2>2. TypeOK'
    BY <1>7
    DEF TypeOK, MarkFailed, Leave, NoCall, Call, CallSteps, redisVars, workerVars,
        RunStatus, SettledStatus
  <2>3. RunsHaveTargets'
    BY <1>7, <2>1 DEF RunsHaveTargets, MarkFailed, At, Leave, NoCall, workerVars, Known
  <2>4. RunningRunsAreFound'
    BY <1>7, <2>1 DEF RunningRunsAreFound, HasMessage, MarkFailed, workerVars
  <2>5. QED
    BY <2>2, <2>3, <2>4
<1>8. ASSUME NEW c \in Callers, ReserveLost(c) PROVE FaultInvariant'
  <2>1. queue' \in Seq(Message) /\ processing' \in Seq(Message) /\ Messages' = Messages
    BY <1>8 DEF ReserveLost, TypeOK, Messages
  <2>2. TypeOK'
    BY <1>8
    DEF TypeOK, RunsHaveTargets, ReserveLost, Fault, At, Leave, NoCall, Call, CallSteps,
        dbVars, workerVars
  <2>3. RunsHaveTargets'
    BY <1>8, <2>1
    DEF RunsHaveTargets, ReserveLost, At, Leave, NoCall, dbVars, workerVars, Known
  <2>4. RunningRunsAreFound'
    BY <1>8, <2>1 DEF RunningRunsAreFound, HasMessage, ReserveLost, dbVars, workerVars
  <2>5. QED
    BY <2>2, <2>3, <2>4
<1>9. ASSUME NEW c \in Callers, EnqueueLost(c) PROVE FaultInvariant'
  <2> DEFINE m == [run |-> call[c].run, target |-> call[c].target, force |-> call[c].force]
  <2>0. m \in Message
    BY <1>9 DEF EnqueueLost, At, Call, RunsHaveTargets, TypeOK, Message
  <2>1. queue' \in Seq(Message) /\ processing' \in Seq(Message) /\ Messages' = Messages \cup {m}
    BY <1>9, <2>0, PushAddsMessage DEF EnqueueLost, PushedBy, TypeOK
  <2>2. TypeOK'
    BY <1>9
    DEF TypeOK, RunsHaveTargets, EnqueueLost, Fault, At, Goto, Call, CallSteps,
        PushedBy, dbVars, workerVars, Message
  <2>3. RunsHaveTargets'
    BY <1>9, <2>1 DEF RunsHaveTargets, EnqueueLost, At, Goto, dbVars, workerVars, Known
  <2>4. RunningRunsAreFound'
    BY <1>9, <2>1 DEF RunningRunsAreFound, HasMessage, EnqueueLost, dbVars, workerVars
  <2>5. QED
    BY <2>2, <2>3, <2>4
<1>10. ASSUME NEW c \in Callers, EnqueueRefused(c) PROVE FaultInvariant'
  <2>1. queue' \in Seq(Message) /\ processing' \in Seq(Message) /\ Messages' = Messages
    BY <1>10 DEF EnqueueRefused, redisVars, TypeOK, Messages
  <2>2. TypeOK'
    BY <1>10
    DEF TypeOK, EnqueueRefused, Fault, Goto, Call, CallSteps, dbVars, redisVars,
        workerVars, WorkerSteps, NoMessage
  <2>3. RunsHaveTargets'
    BY <1>10, <2>1
    DEF RunsHaveTargets, EnqueueRefused, At, Goto, dbVars, workerVars, Known
  <2>4. RunningRunsAreFound'
    BY <1>10, <2>1
    DEF RunningRunsAreFound, HasMessage, EnqueueRefused, dbVars, workerVars
  <2>5. QED
    BY <2>2, <2>3, <2>4
<1>11. ASSUME NEW c \in Callers, ReleaseRefused(c) PROVE FaultInvariant'
  <2>1. queue' \in Seq(Message) /\ processing' \in Seq(Message) /\ Messages' = Messages
    BY <1>11 DEF ReleaseRefused, redisVars, TypeOK, Messages
  <2>2. TypeOK'
    BY <1>11
    DEF TypeOK, ReleaseRefused, Fault, Leave, NoCall, Call, CallSteps, dbVars,
        redisVars, workerVars
  <2>3. RunsHaveTargets'
    BY <1>11, <2>1
    DEF RunsHaveTargets, ReleaseRefused, At, Leave, NoCall, dbVars, workerVars, Known
  <2>4. RunningRunsAreFound'
    BY <1>11, <2>1
    DEF RunningRunsAreFound, HasMessage, ReleaseRefused, dbVars, workerVars
  <2>5. QED
    BY <2>2, <2>3, <2>4
<1>12. ASSUME NEW c \in Callers, MarkFailedLost(c) PROVE FaultInvariant'
  <2>1. queue' \in Seq(Message) /\ processing' \in Seq(Message) /\ Messages' = Messages
    BY <1>12 DEF MarkFailedLost, redisVars, TypeOK, Messages
  <2>2. TypeOK'
    BY <1>12
    DEF TypeOK, MarkFailedLost, Fault, Leave, NoCall, Call, CallSteps, dbVars,
        redisVars, workerVars
  <2>3. RunsHaveTargets'
    BY <1>12, <2>1
    DEF RunsHaveTargets, MarkFailedLost, At, Leave, NoCall, dbVars, workerVars, Known
  <2>4. RunningRunsAreFound'
    BY <1>12, <2>1
    DEF RunningRunsAreFound, HasMessage, MarkFailedLost, dbVars, workerVars
  <2>5. QED
    BY <2>2, <2>3, <2>4
<1>13. ASSUME ApiCrash PROVE FaultInvariant'
  <2>1. queue' \in Seq(Message) /\ processing' \in Seq(Message) /\ Messages' = Messages
    BY <1>13 DEF ApiCrash, redisVars, TypeOK, Messages
  <2>2. TypeOK'
    BY <1>13
    DEF TypeOK, ApiCrash, Fault, NoCall, Call, CallSteps, dbVars, redisVars, workerVars
  <2>3. RunsHaveTargets'
    BY <1>13, <2>1 DEF RunsHaveTargets, ApiCrash, At, NoCall, dbVars, workerVars, Known
  <2>4. RunningRunsAreFound'
    BY <1>13, <2>1 DEF RunningRunsAreFound, HasMessage, ApiCrash, dbVars, workerVars
  <2>5. QED
    BY <2>2, <2>3, <2>4
<1>14. ASSUME NEW t \in Targets, DeleteTarget(t) PROVE FaultInvariant'
  <2>1. queue' \in Seq(Message) /\ processing' \in Seq(Message) /\ Messages' = Messages
    BY <1>14 DEF DeleteTarget, redisVars, TypeOK, Messages
  <2>2. TypeOK'
    BY <1>14 DEF TypeOK, DeleteTarget, redisVars, workerVars, RunStatus
  <2>3. RunsHaveTargets'
    BY <1>14, <2>1 DEF RunsHaveTargets, DeleteTarget, workerVars, Known, At
  <2>4. RunningRunsAreFound'
    BY <1>14, <2>1 DEF RunningRunsAreFound, HasMessage, DeleteTarget, workerVars
  <2>5. QED
    BY <2>2, <2>3, <2>4
<1>15. ASSUME NEW t \in Targets, LockExpires(t) PROVE FaultInvariant'
  <2>1. queue' \in Seq(Message) /\ processing' \in Seq(Message) /\ Messages' = Messages
    BY <1>15 DEF LockExpires, TypeOK, Messages
  <2>2. TypeOK'
    BY <1>15 DEF TypeOK, LockExpires, Fault, dbVars, workerVars
  <2>3. RunsHaveTargets'
    BY <1>15, <2>1 DEF RunsHaveTargets, LockExpires, dbVars, workerVars, Known, At
  <2>4. RunningRunsAreFound'
    BY <1>15, <2>1 DEF RunningRunsAreFound, HasMessage, LockExpires, dbVars, workerVars
  <2>5. QED
    BY <2>2, <2>3, <2>4
<1>16. ASSUME WorkerStarts PROVE FaultInvariant'
  <2>1. queue' \in Seq(Message) /\ processing' \in Seq(Message) /\ Messages' = Messages
    BY <1>16 DEF WorkerStarts, redisVars, TypeOK, Messages
  <2>2. TypeOK'
    BY <1>16 DEF TypeOK, WorkerStarts, dbVars, redisVars, WorkerSteps
  <2>3. RunsHaveTargets'
    BY <1>16, <2>1 DEF RunsHaveTargets, WorkerStarts, dbVars, Known, At
  <2>4. RunningRunsAreFound'
    BY <1>16 DEF RunningRunsAreFound, WorkerStarts
  <2>5. QED
    BY <2>2, <2>3, <2>4
<1>17. ASSUME RecoverOne PROVE FaultInvariant'
  <2>1. queue' \in Seq(Message) /\ processing' \in Seq(Message) /\ Messages' = Messages
    BY <1>17, RecoverKeepsMessages DEF TypeOK
  <2>2. TypeOK'
    BY <1>17, <2>1 DEF TypeOK, RecoverOne, dbVars, workerVars
  <2>3. RunsHaveTargets'
    BY <1>17, <2>1 DEF RunsHaveTargets, RecoverOne, dbVars, workerVars, Known, At
  <2>4. RunningRunsAreFound'
    BY <1>17 DEF RunningRunsAreFound, RecoverOne, workerVars
  <2>5. QED
    BY <2>2, <2>3, <2>4
<1>18. ASSUME TakeSnapshot PROVE FaultInvariant'
  <2>1. queue' \in Seq(Message) /\ processing' \in Seq(Message) /\ Messages' = Messages
    BY <1>18 DEF TakeSnapshot, redisVars, TypeOK, Messages
  <2>2. TypeOK'
    <3>1. {m.run : m \in Messages} \subseteq RunIds
      BY MessagesAreMessages DEF TypeOK, Message
    <3>2. QED
      BY <1>18, <3>1 DEF TypeOK, TakeSnapshot, dbVars, redisVars, WorkerSteps
  <2>3. RunsHaveTargets'
    BY <1>18, <2>1 DEF RunsHaveTargets, TakeSnapshot, dbVars, Known, At
  <2>4. RunningRunsAreFound'
    BY <1>18, <2>1 DEF RunningRunsAreFound, HasMessage, TakeSnapshot
  <2>5. QED
    BY <2>2, <2>3, <2>4
<1>19. ASSUME SelectOrphans PROVE FaultInvariant'
  <2>1. queue' \in Seq(Message) /\ processing' \in Seq(Message) /\ Messages' = Messages
    BY <1>19 DEF SelectOrphans, redisVars, TypeOK, Messages
  <2>2. TypeOK'
    BY <1>19 DEF TypeOK, SelectOrphans, dbVars, redisVars, WorkerSteps
  <2>3. RunsHaveTargets'
    BY <1>19, <2>1
    DEF RunsHaveTargets, SelectOrphans, dbVars, Known, IsLive, LiveStatus, At
  <2>4. RunningRunsAreFound'
    BY <1>19, <2>1
    DEF RunningRunsAreFound, HasMessage, SelectOrphans, dbVars, IsLive, LiveStatus
  <2>5. QED
    BY <2>2, <2>3, <2>4
<1>20. ASSUME NEW r \in RunIds, SkipQueuedOrphan(r) PROVE FaultInvariant'
  <2>1. queue' \in Seq(Message) /\ processing' \in Seq(Message) /\ Messages' = Messages
    BY <1>20 DEF SkipQueuedOrphan, redisVars, TypeOK, Messages
  <2>2. TypeOK'
    BY <1>20 DEF TypeOK, SkipQueuedOrphan, dbVars, redisVars
  <2>3. RunsHaveTargets'
    BY <1>20, <2>1 DEF RunsHaveTargets, SkipQueuedOrphan, dbVars, Known, At
  <2>4. RunningRunsAreFound'
    BY <1>20, <2>1 DEF RunningRunsAreFound, HasMessage, SkipQueuedOrphan, dbVars
  <2>5. QED
    BY <2>2, <2>3, <2>4
<1>21. ASSUME NEW r \in RunIds, ReadmitOrphan(r) PROVE FaultInvariant'
  <2>1. queue' \in Seq(Message) /\ processing' \in Seq(Message) /\ Messages' = Messages
    BY <1>21 DEF ReadmitOrphan, redisVars, TypeOK, Messages
  <2>2. TypeOK'
    BY <1>21
    DEF TypeOK, RunsHaveTargets, ReadmitOrphan, dbVars, redisVars, WorkerSteps, Message,
        Known
  <2>3. RunsHaveTargets'
    BY <1>21, <2>1 DEF RunsHaveTargets, ReadmitOrphan, dbVars, Known, At, Message
  <2>4. RunningRunsAreFound'
    BY <1>21, <2>1 DEF RunningRunsAreFound, HasMessage, ReadmitOrphan, dbVars
  <2>5. QED
    BY <2>2, <2>3, <2>4
<1>22. ASSUME RelockOrphan PROVE FaultInvariant'
  <2>1. queue' \in Seq(Message) /\ processing' \in Seq(Message) /\ Messages' = Messages
    BY <1>22 DEF RelockOrphan, TypeOK, Messages
  <2>2. TypeOK'
    BY <1>22 DEF TypeOK, RunsHaveTargets, RelockOrphan, dbVars, WorkerSteps, Message
  <2>3. RunsHaveTargets'
    BY <1>22, <2>1 DEF RunsHaveTargets, RelockOrphan, dbVars, Known, At
  <2>4. RunningRunsAreFound'
    BY <1>22, <2>1 DEF RunningRunsAreFound, HasMessage, RelockOrphan, dbVars
  <2>5. QED
    BY <2>2, <2>3, <2>4
<1>23. ASSUME PushOrphan PROVE FaultInvariant'
  <2>1. queue' \in Seq(Message) /\ processing' \in Seq(Message) /\ Messages' = Messages \cup {held}
    BY <1>23, PushAddsMessage DEF PushOrphan, RunsHaveTargets, TypeOK
  <2>2. TypeOK'
    BY <1>23 DEF TypeOK, RunsHaveTargets, PushOrphan, dbVars, WorkerSteps
  <2>3. RunsHaveTargets'
    BY <1>23, <2>1 DEF RunsHaveTargets, PushOrphan, dbVars, Known, At
  <2>4. RunningRunsAreFound'
    BY <1>23, <2>1 DEF RunningRunsAreFound, HasMessage, PushOrphan, dbVars
  <2>5. QED
    BY <2>2, <2>3, <2>4
<1>24. ASSUME CommitOrphans PROVE FaultInvariant'
  <2>1. queue' \in Seq(Message) /\ processing' \in Seq(Message) /\ Messages' = Messages
    BY <1>24 DEF CommitOrphans, redisVars, TypeOK, Messages
  <2>2. TypeOK'
    BY <1>24 DEF TypeOK, CommitOrphans, redisVars, WorkerSteps, RunStatus, LiveStatus
  <2>3. RunsHaveTargets'
    BY <1>24, <2>1 DEF RunsHaveTargets, CommitOrphans, Known, At
  <2>4. RunningRunsAreFound'
    BY <1>24 DEF RunningRunsAreFound, CommitOrphans
  <2>5. QED
    BY <2>2, <2>3, <2>4
<1>25. ASSUME Dequeue PROVE FaultInvariant'
  <2>1. /\ queue' \in Seq(Message) /\ processing' \in Seq(Message) /\ Messages' = Messages
        /\ Last(queue) \in Message /\ Last(queue) \in Messages
    BY <1>25, PopKeepsMessages DEF Dequeue, TypeOK
  <2>2. TypeOK'
    BY <1>25, <2>1 DEF TypeOK, Dequeue, PopToProcessing, dbVars, WorkerSteps
  <2>3. RunsHaveTargets'
    BY <1>25, <2>1 DEF RunsHaveTargets, Dequeue, dbVars, Known, At
  <2>4. RunningRunsAreFound'
    BY <1>25 DEF RunningRunsAreFound, Dequeue
  <2>5. QED
    BY <2>2, <2>3, <2>4
<1>26. ASSUME CheckStatus PROVE FaultInvariant'
  <2>1. queue' \in Seq(Message) /\ processing' \in Seq(Message) /\ Messages' = Messages
    BY <1>26 DEF CheckStatus, redisVars, TypeOK, Messages
  <2>2. TypeOK'
    BY <1>26 DEF TypeOK, CheckStatus, dbVars, redisVars, WorkerSteps
  <2>3. RunsHaveTargets'
    BY <1>26, <2>1 DEF RunsHaveTargets, CheckStatus, dbVars, Known, At
  <2>4. RunningRunsAreFound'
    BY <1>26 DEF RunningRunsAreFound, CheckStatus
  <2>5. QED
    BY <2>2, <2>3, <2>4
<1>27. ASSUME StartRun PROVE FaultInvariant'
  <2>1. queue' \in Seq(Message) /\ processing' \in Seq(Message) /\ Messages' = Messages
    BY <1>27 DEF StartRun, redisVars, TypeOK, Messages
  <2>2. TypeOK'
    BY <1>27 DEF TypeOK, StartRun, redisVars, WorkerSteps, RunStatus, LiveStatus
  <2>3. RunsHaveTargets'
    BY <1>27, <2>1 DEF TypeOK, RunsHaveTargets, StartRun, Known, At
  <2>4. RunningRunsAreFound'
    BY <1>27 DEF RunningRunsAreFound, StartRun
  <2>5. QED
    BY <2>2, <2>3, <2>4
<1>28. ASSUME NEW outcome \in SettledStatus, FinishRun(outcome) PROVE FaultInvariant'
  <2>1. queue' \in Seq(Message) /\ processing' \in Seq(Message) /\ Messages' = Messages
    BY <1>28 DEF FinishRun, redisVars, TypeOK, Messages
  <2>2. TypeOK'
    BY <1>28 DEF TypeOK, FinishRun, redisVars, WorkerSteps, RunStatus
  <2>3. RunsHaveTargets'
    BY <1>28, <2>1 DEF RunsHaveTargets, FinishRun, Known, At
  <2>4. RunningRunsAreFound'
    BY <1>28 DEF RunningRunsAreFound, FinishRun
  <2>5. QED
    BY <2>2, <2>3, <2>4
<1>29. ASSUME EscapeRun PROVE FaultInvariant'
  <2>1. queue' \in Seq(Message) /\ processing' \in Seq(Message) /\ Messages' = Messages
    BY <1>29 DEF EscapeRun, redisVars, TypeOK, Messages
  <2>2. TypeOK'
    BY <1>29 DEF TypeOK, EscapeRun, Fault, NoFault, dbVars, redisVars, WorkerSteps
  <2>3. RunsHaveTargets'
    BY <1>29, <2>1 DEF RunsHaveTargets, EscapeRun, dbVars, Known, At
  <2>4. RunningRunsAreFound'
    BY <1>29 DEF RunningRunsAreFound, EscapeRun
  <2>5. QED
    BY <2>2, <2>3, <2>4
<1>30. ASSUME Acknowledge PROVE FaultInvariant'
  <2>1. queue' \in Seq(Message) /\ processing' \in Seq(Message) /\ Messages' \subseteq Messages
        /\ Messages \ {held} \subseteq Messages'
    BY <1>30, AcknowledgeRemovesHeld DEF TypeOK
  <2>2. TypeOK'
    BY <1>30, <2>1 DEF TypeOK, Acknowledge, dbVars, WorkerSteps
  <2>3. RunsHaveTargets'
    BY <1>30, <2>1 DEF RunsHaveTargets, Acknowledge, dbVars, Known, At
  <2>4. RunningRunsAreFound'
    BY <1>30 DEF RunningRunsAreFound, Acknowledge
  <2>5. QED
    BY <2>2, <2>3, <2>4
<1>31. ASSUME ReleaseRun PROVE FaultInvariant'
  <2>1. queue' \in Seq(Message) /\ processing' \in Seq(Message) /\ Messages' = Messages
    BY <1>31 DEF ReleaseRun, TypeOK, Messages
  <2>2. TypeOK'
    BY <1>31 DEF TypeOK, ReleaseRun, dbVars, WorkerSteps
  <2>3. RunsHaveTargets'
    BY <1>31, <2>1 DEF RunsHaveTargets, ReleaseRun, dbVars, Known, At
  <2>4. RunningRunsAreFound'
    BY <1>31 DEF RunningRunsAreFound, ReleaseRun
  <2>5. QED
    BY <2>2, <2>3, <2>4
<1>32. ASSUME DequeueLost PROVE FaultInvariant'
  <2>1. /\ queue' \in Seq(Message) /\ processing' \in Seq(Message) /\ Messages' = Messages
        /\ Last(queue) \in Message /\ Last(queue) \in Messages
    BY <1>32, PopKeepsMessages DEF DequeueLost, TypeOK
  <2>2. TypeOK'
    BY <1>32, <2>1 DEF TypeOK, DequeueLost, Fault, PopToProcessing, dbVars, workerVars
  <2>3. RunsHaveTargets'
    BY <1>32, <2>1 DEF RunsHaveTargets, DequeueLost, dbVars, workerVars, Known, At
  <2>4. RunningRunsAreFound'
    BY <1>32 DEF RunningRunsAreFound, DequeueLost, PopToProcessing, workerVars
  <2>5. QED
    BY <2>2, <2>3, <2>4
<1>33. ASSUME WorkerCrash PROVE FaultInvariant'
  <2>1. queue' \in Seq(Message) /\ processing' \in Seq(Message) /\ Messages' = Messages
    BY <1>33 DEF WorkerCrash, redisVars, TypeOK, Messages
  <2>2. TypeOK'
    BY <1>33 DEF TypeOK, WorkerCrash, Fault, dbVars, redisVars, WorkerSteps
  <2>3. RunsHaveTargets'
    BY <1>33, <2>1 DEF RunsHaveTargets, WorkerCrash, dbVars, Known, At
  <2>4. RunningRunsAreFound'
    BY <1>33 DEF RunningRunsAreFound, WorkerCrash
  <2>5. QED
    BY <2>2, <2>3, <2>4
<1>34. CASE UNCHANGED vars
  BY <1>34
  DEF vars, dbVars, redisVars, workerVars, TypeOK, RunsHaveTargets, RunningRunsAreFound,
      HasMessage, Messages, Known, At
<1>35. QED
  BY <1>1, <1>2, <1>3, <1>4, <1>5, <1>6, <1>7, <1>8, <1>9, <1>10, <1>11, <1>12, <1>13,
      <1>14, <1>15, <1>16, <1>17, <1>18, <1>19, <1>20, <1>21, <1>22, <1>23, <1>24,
      <1>25, <1>26, <1>27, <1>28, <1>29, <1>30, <1>31, <1>32, <1>33, <1>34
  DEF Next, ApiStep, ApiFault, StartupStep, LoopStep

(* Types, for every number of targets, runs and callers, every fault.      *)
THEOREM FaultInvariantHolds == Spec => []FaultInvariant
BY FaultInit, FaultStep, PTL DEF Spec

THEOREM TypeCorrect == Spec => []TypeOK
<1>1. FaultInvariant => TypeOK
  BY DEF FaultInvariant
<1>2. QED
  BY <1>1, FaultInvariantHolds, PTL

-----------------------------------------------------------------------------
(* MessagesSurvive.                                                        *)

LEMMA MessagesOnlyLeaveAcknowledged ==
  ASSUME FaultInvariant, [Next]_vars
  PROVE  \/ Messages \subseteq Messages'
         \/ worker = "ack" /\ Messages \ {held} \subseteq Messages'
<1>0. queue \in Seq(Message) /\ processing \in Seq(Message)
  BY DEF FaultInvariant, TypeOK
<1>1. CASE UNCHANGED <<queue, processing>>
  BY <1>1 DEF Messages
<1>2. ASSUME NEW c \in Callers, Enqueue(c) \/ EnqueueLost(c)
      PROVE  Messages \subseteq Messages'
  <2> DEFINE m == [run |-> call[c].run, target |-> call[c].target, force |-> call[c].force]
  <2>1. m \in Message
    BY <1>2 DEF FaultInvariant, RunsHaveTargets, TypeOK, Call, Message, Enqueue, EnqueueLost, At
  <2>2. queue' = Append(queue, m) /\ processing' = processing
    BY <1>2 DEF Enqueue, EnqueueLost, PushedBy
  <2>3. QED
    BY <1>0, <2>1, <2>2, PushAddsMessage
<1>3. CASE RecoverOne
  BY <1>0, <1>3, RecoverKeepsMessages
<1>4. CASE PushOrphan
  BY <1>0, <1>4, PushAddsMessage DEF PushOrphan, FaultInvariant, RunsHaveTargets
<1>5. CASE PopToProcessing
  BY <1>0, <1>5, PopKeepsMessages
<1>6. CASE Acknowledge
  BY <1>0, <1>6, AcknowledgeRemovesHeld DEF Acknowledge
<1>7. QED
  <2>1. CASE Next
    BY <1>1, <1>2, <1>3, <1>4, <1>5, <1>6, <2>1
    DEF Next, ApiStep, ApiFault, StartupStep, LoopStep, redisVars,
        Trigger, Reserve, ReserveLost, Create, CreateFails, EnqueueRefused,
        ReleaseReservation, ReleaseRefused, MarkFailed, MarkFailedLost, ApiCrash,
        DeleteTarget, LockExpires, WorkerStarts, TakeSnapshot, SelectOrphans,
        SkipQueuedOrphan, ReadmitOrphan, RelockOrphan, CommitOrphans, Dequeue,
        DequeueLost, CheckStatus, StartRun, FinishRun, EscapeRun, ReleaseRun,
        WorkerCrash
  <2>2. CASE UNCHANGED vars
    BY <1>1, <2>2 DEF vars, redisVars
  <2>3. QED
    BY <2>1, <2>2

(* Whatever fails, a message leaves Redis only when it is acknowledged.    *)
THEOREM NoMessageIsLost == Spec => MessagesSurvive
<1>1. ASSUME FaultInvariant, [Next]_vars
      PROVE  [\A r \in RunIds :
                HasMessage(r) /\ ~HasMessage(r)' => worker = "ack" /\ held.run = r]_vars
  BY <1>1, MessagesOnlyLeaveAcknowledged DEF HasMessage
<1>2. QED
  BY <1>1, FaultInvariantHolds, PTL DEF Spec, MessagesSurvive

-----------------------------------------------------------------------------
(* RecoveryIsComplete.                                                     *)

(* Whatever fails, the worker enters its loop with a message for each run  *)
(* in state running.                                                       *)
THEOREM RecoveryFindsEveryRun == Spec => RecoveryIsComplete
<1>1. ASSUME FaultInvariant, [Next]_vars
      PROVE  [worker = "readmit" /\ worker' = "idle" =>
                \A r \in RunIds : status[r] = "running" => HasMessage(r)]_vars
  <2>1. SUFFICES ASSUME worker = "readmit", worker' = "idle"
                 PROVE  \A r \in RunIds : status[r] = "running" => HasMessage(r)
    OBVIOUS
  <2>2. CommitOrphans
    BY <1>1, <2>1
    DEF vars, workerVars, Next, ApiStep, ApiFault, StartupStep, LoopStep,
        Trigger, Reserve, ReserveLost, Create, CreateFails, Enqueue, EnqueueLost,
        EnqueueRefused, ReleaseReservation, ReleaseRefused, MarkFailed,
        MarkFailedLost, ApiCrash, DeleteTarget, LockExpires, WorkerStarts,
        RecoverOne, TakeSnapshot, SelectOrphans, SkipQueuedOrphan, ReadmitOrphan,
        RelockOrphan, PushOrphan, Dequeue, PopToProcessing, DequeueLost,
        CheckStatus, StartRun, FinishRun, EscapeRun, Acknowledge, ReleaseRun,
        WorkerCrash
  <2>3. QED
    BY <1>1, <2>1, <2>2 DEF CommitOrphans, FaultInvariant, RunningRunsAreFound
<1>2. QED
  BY <1>1, FaultInvariantHolds, PTL DEF Spec, RecoveryIsComplete

-----------------------------------------------------------------------------
(* As long as only ToleratedFaults happen, the lock of a target protects   *)
(* its active run, for every number of targets, runs, callers and failures.*)

Tolerated == FaultKinds \subseteq ToleratedFaults

LEMMA NoBreakingFault ==
  ASSUME Tolerated
  PROVE  \A kind \in BreakingFaults : kind \notin FaultKinds
BY DEF Tolerated, ToleratedFaults, BreakingFaults

(* A run is active when it is live and no coroutine is about to fail it.   *)
LEMMA ActiveRunsMembers ==
  /\ \A r : r \in ActiveRuns <=>
       /\ r \in RunIds /\ status[r] \in LiveStatus
       /\ \A c \in Callers : call[c].step = "fail" => call[c].run # r
  /\ \A r : r \in ActiveRuns' <=>
       /\ r \in RunIds /\ status'[r] \in LiveStatus
       /\ \A c \in Callers : call'[c].step = "fail" => call'[c].run # r
BY DEF ActiveRuns, Failing, At, IsLive

LEMMA MessageFields ==
  ASSUME TypeOK
  PROVE  \A m \in Messages : m.run \in RunIds /\ m.target \in Targets
BY MessagesAreMessages DEF TypeOK, Message

LEMMA HeldFields ==
  ASSUME TypeOK, RunsHaveTargets,
         worker \notin {"down", "recover", "select", "readmit", "idle"}
  PROVE  /\ held \in Message /\ held # NoMessage
         /\ held.run \in RunIds /\ held.target \in Targets
BY NameAssumption DEF RunsHaveTargets, Message, NoMessage

(* A coroutine past create_run whose target still exists has an active run *)
(* there, and the lock is still its reservation.                           *)
LEMMA EngagedRunIsActive ==
  ASSUME QueueInvariant, NEW c \in Callers,
         call[c].step \in {"enqueue", "release"}, call[c].target \in targets
  PROVE  /\ call[c].run \in ActiveRuns /\ owner[call[c].run] = call[c].target
         /\ status[call[c].run] = "pending" /\ lock[call[c].target] = "reserved"
         /\ \A s \in ActiveRuns : owner[s] = call[c].target => s = call[c].run
<1>1. /\ call[c].run \in RunIds /\ owner[call[c].run] = call[c].target
      /\ status[call[c].run] = "pending"
  BY DEF QueueInvariant, CallsOwnTheirRuns, DeletedRunsHaveNoTarget
<1>2. \A d \in Callers : call[d].run = call[c].run => d = c
  BY <1>1, NameAssumption DEF QueueInvariant, CallsOwnTheirRuns
<1>3. call[c].run \in ActiveRuns
  BY <1>1, <1>2, ActiveRunsMembers DEF LiveStatus
<1>4. QED
  BY <1>1, <1>3 DEF QueueInvariant, OneActiveRunPerTarget, ReservationsAreExclusive, Engaged

(* A coroutine without a run disturbs nobody's run.                        *)
LEMMA CallsWithoutARun ==
  ASSUME CallsOwnTheirRuns, NEW c \in Callers,
         call'[c].step \in {"idle", "reserve", "create"}, call'[c].run = "none",
         \A d \in Callers \ {c} : call'[d] = call[d],
         UNCHANGED <<status, owner, orphans, interrupted, held>>, Messages' = Messages
  PROVE  CallsOwnTheirRuns'
<1>1. \A r : HasMessage(r)' <=> HasMessage(r)
  BY DEF HasMessage
<1>2. \A d \in Callers : call'[d].run # "none" => d # c
  OBVIOUS
<1>3. \A d \in Callers : call'[d].step \in {"enqueue", "release", "fail"} => d # c
  OBVIOUS
<1>4. QED
  BY <1>1, <1>2, <1>3 DEF CallsOwnTheirRuns, At

(* A coroutine that is not engaged leaves the reservations alone.          *)
LEMMA ReservationsOfOthers ==
  ASSUME ReservationsAreExclusive, NEW c \in Callers, call'[c].step \notin Engaged,
         \A d \in Callers \ {c} : call'[d] = call[d],
         UNCHANGED <<owner, targets>>, ActiveRuns' \subseteq ActiveRuns,
         \A d \in Callers \ {c} :
           call[d].step \in Engaged /\ call[d].target \in targets =>
             lock'[call[d].target] = "reserved"
  PROVE  ReservationsAreExclusive'
BY DEF ReservationsAreExclusive, Engaged, At

(* The parts of the invariant that a step cannot disturb.                  *)
LEMMA SameActiveRuns ==
  ASSUME UNCHANGED <<status, call>>
  PROVE  ActiveRuns' = ActiveRuns
BY DEF ActiveRuns, Failing, IsLive, At

LEMMA Undisturbed ==
  ASSUME QueueInvariant, \A s : s \in ActiveRuns' <=> s \in ActiveRuns
  PROVE  /\ UNCHANGED owner => OneActiveRunPerTarget'
         /\ UNCHANGED <<owner, targets, lock>> /\ Messages' = Messages
              => ActiveRunsHoldTheLock'
         /\ UNCHANGED <<call, owner, targets, lock>> => ReservationsAreExclusive'
         /\ UNCHANGED <<status, owner, targets>> => DeletedRunsHaveNoTarget'
         /\ UNCHANGED <<call, owner, status, orphans, interrupted, held>>
              /\ Messages' = Messages => CallsOwnTheirRuns'
         /\ UNCHANGED <<owner, status>> /\ Messages' = Messages => MessagesMatchRuns'
         /\ UNCHANGED <<worker, held, processing, status, orphans, owner, targets, lock>>
              => WorkerKnowsItsRun'
         /\ UNCHANGED <<orphans, interrupted, status, worker>> => OrphansAreAbandoned'
<1> USE DEF QueueInvariant
<1>1. ActiveRuns' = ActiveRuns
  OBVIOUS
<1>2. Messages' = Messages => \A r : HasMessage(r)' <=> HasMessage(r)
  BY DEF HasMessage
<1>3. UNCHANGED owner => OneActiveRunPerTarget'
  BY <1>1 DEF OneActiveRunPerTarget
<1>4. UNCHANGED <<owner, targets, lock>> /\ Messages' = Messages => ActiveRunsHoldTheLock'
  BY <1>1, <1>2 DEF ActiveRunsHoldTheLock
<1>5. UNCHANGED <<call, owner, targets, lock>> => ReservationsAreExclusive'
  BY <1>1 DEF ReservationsAreExclusive, At
<1>6. UNCHANGED <<status, owner, targets>> => DeletedRunsHaveNoTarget'
  BY DEF DeletedRunsHaveNoTarget
<1>7. UNCHANGED <<call, owner, status, orphans, interrupted, held>>
        /\ Messages' = Messages => CallsOwnTheirRuns'
  BY <1>2 DEF CallsOwnTheirRuns
<1>8. UNCHANGED <<owner, status>> /\ Messages' = Messages => MessagesMatchRuns'
  BY DEF MessagesMatchRuns
<1>9. UNCHANGED <<worker, held, processing, status, orphans, owner, targets, lock>>
        => WorkerKnowsItsRun'
  BY DEF WorkerKnowsItsRun
<1>10. UNCHANGED <<orphans, interrupted, status, worker>> => OrphansAreAbandoned'
  BY DEF OrphansAreAbandoned
<1>11. QED
  BY <1>3, <1>4, <1>5, <1>6, <1>7, <1>8, <1>9, <1>10

LEMMA QueueInit == Init => QueueInvariant
BY NameAssumption, FaultInit
DEF Init, QueueInvariant, FaultInvariant, OneActiveRunPerTarget, ActiveRunsHoldTheLock,
    ReservationsAreExclusive, DeletedRunsHaveNoTarget, CallsOwnTheirRuns,
    MessagesMatchRuns, WorkerKnowsItsRun, OrphansAreAbandoned, ActiveRuns, IsLive,
    LiveStatus, NoCall, Engaged, Messages, ToSet, At

LEMMA QueueStep ==
  ASSUME Tolerated, FaultInvariant, FaultInvariant', QueueInvariant, [Next]_vars
  PROVE  QueueInvariant'
<1> USE NameAssumption DEF FaultInvariant, QueueInvariant
<1>1. ASSUME NEW c \in Callers, NEW t \in Targets, NEW force \in BOOLEAN, Trigger(c, t, force) PROVE QueueInvariant'
  <2>1. Messages' = Messages
    BY <1>1 DEF Trigger, redisVars, Messages
  <2>2. /\ call'[c].step = "reserve" /\ call'[c].run = "none"
        /\ \A d \in Callers \ {c} : call'[d] = call[d]
    BY <1>1 DEF Trigger, TypeOK
  <2>3. \A s : s \in ActiveRuns' <=> s \in ActiveRuns
    <3>1. /\ status' = status /\ call[c].step \notin {"fail"} /\ call'[c].step \notin {"fail"}
          /\ \A d \in Callers \ {c} : call'[d] = call[d]
      BY <1>1 DEF Trigger, At, dbVars
    <3>2. QED
      BY <3>1, ActiveRunsMembers
  <2>4. /\ OneActiveRunPerTarget'
        /\ ActiveRunsHoldTheLock'
        /\ DeletedRunsHaveNoTarget'
        /\ MessagesMatchRuns'
        /\ WorkerKnowsItsRun'
        /\ OrphansAreAbandoned'
    BY <1>1, <2>1, <2>3, Undisturbed DEF Trigger, dbVars, redisVars, workerVars
  <2>7. ReservationsAreExclusive'
    BY <1>1, <2>2, <2>3, ReservationsOfOthers
    DEF Trigger, dbVars, redisVars, Engaged, ReservationsAreExclusive
  <2>9. CallsOwnTheirRuns'
    BY <1>1, <2>1, CallsWithoutARun
    DEF Trigger, At, dbVars, workerVars, CallsOwnTheirRuns
  <2>13. QED
    BY <2>4, <2>7, <2>9
<1>2. ASSUME NEW c \in Callers, Reserve(c) PROVE QueueInvariant'
  <2>1. Messages' = Messages
    BY <1>2 DEF Reserve, Messages
  <2>2. /\ \/ call'[c].step = "idle" /\ call'[c].run = "none"
           \/ call'[c].step = "create" /\ call'[c].run = call[c].run /\ call'[c].target = call[c].target
        /\ \A d \in Callers \ {c} : call'[d] = call[d]
    BY <1>2, GotoKeepsCalls, LeaveKeepsCalls DEF Reserve, TypeOK, CallSteps
  <2>3. \A s : s \in ActiveRuns' <=> s \in ActiveRuns
    BY <1>2, ActiveRunsMembers, <2>2 DEF Reserve, At, Leave, dbVars
  <2>4. /\ OneActiveRunPerTarget'
        /\ DeletedRunsHaveNoTarget'
        /\ MessagesMatchRuns'
        /\ OrphansAreAbandoned'
    BY <1>2, <2>1, <2>3, Undisturbed DEF Reserve, dbVars, workerVars
  <2>6. ActiveRunsHoldTheLock'
    BY <1>2, <2>1, ActiveRunsMembers
    DEF Reserve, At, Goto, Leave, ActiveRunsHoldTheLock, HasMessage, CallsOwnTheirRuns,
        DeletedRunsHaveNoTarget, TypeOK, RunsHaveTargets, dbVars, workerVars
  <2>7. ReservationsAreExclusive'
    <3>1. CASE lock[call[c].target] # "free"
      <4>1. call'[c].step = "idle" /\ lock' = lock
        BY <1>2, <3>1, LeaveKeepsCalls DEF Reserve, TypeOK
      <4>2. QED
        BY <1>2, <2>2, <2>3, <4>1, ReservationsOfOthers
        DEF Reserve, dbVars, Engaged, ReservationsAreExclusive
    <3>2. CASE lock[call[c].target] = "free"
      <4> DEFINE t == call[c].target
      <4>1. /\ call'[c].step = "create" /\ call'[c].target = t
            /\ t \in Targets /\ lock' = [lock EXCEPT ![t] = "reserved"]
        BY <1>2, <3>2, GotoKeepsCalls
        DEF Reserve, TypeOK, CallSteps, RunsHaveTargets, At
      <4>2. \A r \in ActiveRuns : owner[r] # t
        BY <3>2 DEF ActiveRunsHoldTheLock, ActiveRuns
      <4>3. \A d \in Callers \ {c} :
              call[d].step \in Engaged /\ call[d].target \in targets => call[d].target # t
        BY <3>2 DEF ReservationsAreExclusive
      <4>4. lock'[t] = "reserved" /\ \A u \in Targets \ {t} : lock'[u] = lock[u]
        BY <4>1 DEF TypeOK
      <4>5. UNCHANGED <<owner, targets>> /\ targets \subseteq Targets
        BY <1>2 DEF Reserve, dbVars, TypeOK
      <4> HIDE DEF t
      <4>6. QED
        BY <2>2, <2>3, <4>1, <4>2, <4>3, <4>4, <4>5 DEF ReservationsAreExclusive, At
    <3>3. QED
      BY <3>1, <3>2
  <2>9. CallsOwnTheirRuns'
    BY <1>2, <2>1, <2>2, CallsWithoutARun
    DEF Reserve, At, dbVars, workerVars, CallsOwnTheirRuns
  <2>11. WorkerKnowsItsRun'
    BY <1>2 DEF Reserve, WorkerKnowsItsRun, TypeOK, dbVars, workerVars
  <2>13. QED
    BY <2>4, <2>6, <2>7, <2>9, <2>11
<1>3. ASSUME NEW c \in Callers, NEW r \in RunIds, Create(c, r) PROVE QueueInvariant'
  <2>1. Messages' = Messages
    BY <1>3 DEF Create, redisVars, Messages
  <2>2. /\ call'[c].step = "enqueue" /\ call'[c].run = r /\ call'[c].target = call[c].target
        /\ \A d \in Callers \ {c} : call'[d] = call[d]
    BY <1>3, CreateKeepsCalls DEF TypeOK
  <2>3. \A s : s \in ActiveRuns' <=> s \in ActiveRuns \/ s = r
    <3>1. \A d \in Callers : /\ call'[d].step = "fail" <=> call[d].step = "fail"
                             /\ call[d].step = "fail" => call'[d].run = call[d].run
      BY <1>3, <2>2 DEF Create, At
    <3>2. \A d \in Callers : call[d].step = "fail" => call[d].run # r
      BY <1>3 DEF Create, CallsOwnTheirRuns
    <3>3. status'[r] = "pending" /\ \A s \in RunIds \ {r} : status'[s] = status[s]
      BY <1>3 DEF Create, TypeOK
    <3>4. QED
      BY <3>1, <3>2, <3>3, ActiveRunsMembers DEF LiveStatus
  <2>5. OneActiveRunPerTarget'
    BY <1>3, <2>3 DEF Create, OneActiveRunPerTarget, ReservationsAreExclusive, TypeOK
  <2>6. ActiveRunsHoldTheLock'
    <3>1. /\ status[r] = "none" /\ r \notin ActiveRuns
          /\ UNCHANGED <<targets, lock>> /\ call[c].target \in targets
          /\ owner' = [owner EXCEPT ![r] = call[c].target]
      BY <1>3, ActiveRunsMembers DEF Create, redisVars, LiveStatus
    <3>2. ~HasMessage(r) /\ \A s : HasMessage(s)' <=> HasMessage(s)
      BY <2>1, <3>1 DEF HasMessage, MessagesMatchRuns
    <3>3. lock[call[c].target] = "reserved"
      BY <1>3 DEF Create, At, ReservationsAreExclusive, Engaged
    <3>4. owner'[r] = call[c].target /\ \A s \in ActiveRuns : owner'[s] = owner[s]
      BY <3>1 DEF TypeOK
    <3>5. QED
      BY <2>3, <3>1, <3>2, <3>3, <3>4 DEF ActiveRunsHoldTheLock
  <2>7. ReservationsAreExclusive'
    BY <1>3, <2>3 DEF Create, At, ReservationsAreExclusive, Engaged, TypeOK, redisVars
  <2>8. DeletedRunsHaveNoTarget'
    BY <1>3 DEF Create, DeletedRunsHaveNoTarget
  <2>9. CallsOwnTheirRuns'
    <3>1. /\ status[r] = "none" /\ status' = [status EXCEPT ![r] = "pending"]
          /\ owner' = [owner EXCEPT ![r] = call[c].target]
          /\ UNCHANGED <<orphans, interrupted, held>> /\ call[c].step = "create"
      BY <1>3 DEF Create, workerVars, At
    <3>2. ~HasMessage(r) /\ \A s : HasMessage(s)' <=> HasMessage(s)
      BY <2>1, <3>1 DEF HasMessage, MessagesMatchRuns
    <3>3. r \notin orphans \cup interrupted
      BY <3>1 DEF OrphansAreAbandoned, LiveStatus
    <3>4. held.run # r
      <4>1. CASE held = NoMessage
        BY <4>1 DEF NoMessage
      <4>2. CASE held \in Messages
        BY <3>2, <4>2 DEF HasMessage
      <4>3. CASE worker \in {"relock", "repush"}
        BY <3>3, <4>3 DEF WorkerKnowsItsRun
      <4>4. CASE worker = "release"
        BY <3>1, <4>4 DEF WorkerKnowsItsRun, SettledStatus
      <4>5. QED
        BY <4>1, <4>2, <4>3, <4>4 DEF WorkerKnowsItsRun, Messages, TypeOK, WorkerSteps
    <3>5. status'[r] = "pending" /\ \A s \in RunIds \ {r} : status'[s] = status[s]
      BY <3>1 DEF TypeOK
    <3>6. owner'[r] = call[c].target /\ \A s \in RunIds \ {r} : owner'[s] = owner[s]
      BY <3>1 DEF TypeOK
    <3>7. \A d \in Callers \ {c} : call[d].run # r
      BY <3>1 DEF CallsOwnTheirRuns, TypeOK, Call, CallSteps
    <3>8. QED
      BY <2>2, <3>1, <3>2, <3>3, <3>4, <3>5, <3>6, <3>7 DEF CallsOwnTheirRuns
  <2>10. MessagesMatchRuns'
    BY <1>3, <2>1 DEF Create, MessagesMatchRuns
  <2>11. WorkerKnowsItsRun'
    BY <1>3
    DEF Create, WorkerKnowsItsRun, OrphansAreAbandoned, LiveStatus, SettledStatus,
        redisVars, workerVars
  <2>12. OrphansAreAbandoned'
    BY <1>3 DEF Create, OrphansAreAbandoned, LiveStatus, workerVars
  <2>13. QED
    BY <2>5, <2>6, <2>7, <2>8, <2>9, <2>10, <2>11, <2>12
<1>4. ASSUME NEW c \in Callers, CreateFails(c) PROVE QueueInvariant'
  <2>1. Messages' = Messages
    BY <1>4 DEF CreateFails, redisVars, Messages
  <2>2. /\ call'[c].step = "idle" /\ call'[c].run = "none"
        /\ \A d \in Callers \ {c} : call'[d] = call[d]
    BY <1>4, LeaveKeepsCalls DEF CreateFails, TypeOK
  <2>3. \A s : s \in ActiveRuns' <=> s \in ActiveRuns
    <3>1. /\ status' = status /\ call[c].step \notin {"fail"} /\ call'[c].step \notin {"fail"}
          /\ \A d \in Callers \ {c} : call'[d] = call[d]
      BY <1>4, <2>2 DEF CreateFails, At, dbVars
    <3>2. QED
      BY <3>1, ActiveRunsMembers
  <2>4. /\ OneActiveRunPerTarget'
        /\ ActiveRunsHoldTheLock'
        /\ DeletedRunsHaveNoTarget'
        /\ MessagesMatchRuns'
        /\ WorkerKnowsItsRun'
        /\ OrphansAreAbandoned'
    BY <1>4, <2>1, <2>3, Undisturbed DEF CreateFails, dbVars, redisVars, workerVars
  <2>7. ReservationsAreExclusive'
    BY <1>4, <2>2, <2>3, ReservationsOfOthers
    DEF CreateFails, dbVars, redisVars, Engaged, ReservationsAreExclusive
  <2>9. CallsOwnTheirRuns'
    BY <1>4, <2>1, <2>2, CallsWithoutARun DEF CreateFails, dbVars, workerVars
  <2>13. QED
    BY <2>4, <2>7, <2>9
<1>5. ASSUME NEW c \in Callers, Enqueue(c) PROVE QueueInvariant'
  <2> DEFINE m == [run |-> call[c].run, target |-> call[c].target, force |-> call[c].force]
  <2>0. m \in Message
    BY <1>5 DEF Enqueue, RunsHaveTargets, TypeOK, Message, At, Call
  <2>1. Messages' = Messages \cup {m}
    BY <1>5, PushAddsMessage DEF Enqueue, PushedBy, TypeOK
  <2>2. /\ \/ call'[c].step = "idle" /\ call'[c].run = "none"
           \/ call'[c].step = "release" /\ call'[c].run = call[c].run /\ call'[c].target = call[c].target
        /\ \A d \in Callers \ {c} : call'[d] = call[d]
    BY <1>5, GotoKeepsCalls, LeaveKeepsCalls DEF Enqueue, TypeOK, CallSteps
  <2>3. \A s : s \in ActiveRuns' <=> s \in ActiveRuns
    <3>1. \A d \in Callers : /\ call'[d].step = "fail" <=> call[d].step = "fail"
                             /\ call[d].step = "fail" => call'[d].run = call[d].run
      BY <1>5, <2>2 DEF Enqueue, At
    <3>2. status' = status
      BY <1>5 DEF Enqueue, dbVars
    <3>3. QED
      BY <3>1, <3>2, ActiveRunsMembers
  <2> DEFINE t == call[c].target
             r == call[c].run
  <2>a. /\ call[c].step = "enqueue" /\ t \in Targets /\ r \in RunIds /\ owner[r] = t
        /\ UNCHANGED <<status, owner, targets, worker, held, orphans, interrupted>>
    BY <1>5 DEF Enqueue, At, RunsHaveTargets, CallsOwnTheirRuns, dbVars, workerVars
  <2>b. /\ t \in targets => lock[t] = "reserved" /\ call'[c].step = "idle"
        /\ t \notin targets => r \notin ActiveRuns /\ status[r] = "deleted"
    <3>1. CASE t \in targets
      <4>1. lock[t] = "reserved"
        BY <2>a, <3>1 DEF ReservationsAreExclusive, Engaged
      <4>2. Leave(c)
        BY <1>5, <4>1 DEF Enqueue
      <4>3. QED
        BY <3>1, <4>1, <4>2, LeaveKeepsCalls DEF TypeOK
    <3>2. CASE t \notin targets
      <4>1. r \notin ActiveRuns
        BY <2>a, <3>2 DEF ActiveRunsHoldTheLock
      <4>2. \A d \in Callers : call[d].run = r => d = c
        BY <2>a DEF CallsOwnTheirRuns
      <4>3. status[r] # "pending"
        BY <2>a, <4>1, <4>2, ActiveRunsMembers DEF LiveStatus
      <4>4. QED
        BY <2>a, <3>2, <4>1, <4>3 DEF CallsOwnTheirRuns
    <3>3. QED
      BY <3>1, <3>2
  <2>c. /\ \A u \in Targets \ {t} : lock'[u] = lock[u]
        /\ t \in targets => lock'[t] = r
    BY <1>5, <2>b DEF Enqueue, PushedBy, TypeOK
  <2>d. /\ \A s : HasMessage(s)' => HasMessage(s) \/ s = r
        /\ \A x \in Messages' : x \in Messages \/ (x.run = r /\ x.target = t)
    BY <2>1 DEF HasMessage
  <2>e. ActiveRuns' = ActiveRuns
    BY <2>3
  <2>f. \A s \in ActiveRuns : owner[s] = t => s = r
    BY <2>a, EngagedRunIsActive DEF ActiveRunsHoldTheLock
  <2>g. \A s \in ActiveRuns : owner[s] \in targets /\ owner[s] \in Targets
    BY DEF ActiveRunsHoldTheLock, TypeOK
  <2> HIDE DEF m, t, r
  <2>4. /\ OneActiveRunPerTarget'
        /\ DeletedRunsHaveNoTarget'
        /\ OrphansAreAbandoned'
    BY <1>5, <2>3, Undisturbed DEF Enqueue, dbVars, workerVars
  <2>6. ActiveRunsHoldTheLock'
    BY <2>a, <2>c, <2>d, <2>e, <2>f, <2>g DEF ActiveRunsHoldTheLock
  <2>7. ReservationsAreExclusive'
    <3>1. \A d \in Callers \ {c} :
            call[d].step \in Engaged /\ call[d].target \in targets => call[d].target # t
      BY <2>a DEF ReservationsAreExclusive, Engaged, t
    <3>2. /\ call'[c].target \in targets => call'[c].step \notin Engaged
          /\ call'[c].step # "create"
      BY <2>b, <2>2 DEF Engaged, t
    <3>3. targets \subseteq Targets
      BY DEF TypeOK
    <3>4. QED
      BY <2>a, <2>c, <2>e, <2>2, <3>1, <3>2, <3>3 DEF ReservationsAreExclusive, At
  <2>9. CallsOwnTheirRuns'
    <3>1. \A d \in Callers \ {c} : call[d].run # r
      BY <2>a DEF CallsOwnTheirRuns, r
    <3>2. CASE call'[c].step = "idle" /\ call'[c].run = "none"
      BY <2>a, <2>d, <2>2, <3>1, <3>2 DEF CallsOwnTheirRuns
    <3>3. CASE call'[c].step = "release" /\ call'[c].run = r /\ call'[c].target = t
      <4>1. status[r] = "deleted"
        BY <2>b, <3>3
      <4>2. r \notin orphans \cup interrupted
        BY <2>a DEF CallsOwnTheirRuns, r
      <4>3. QED
        BY <2>a, <2>d, <2>2, <4>1 DEF CallsOwnTheirRuns
    <3>4. QED
      BY <2>2, <3>2, <3>3 DEF r, t
  <2>10. MessagesMatchRuns'
    <3>1. status[r] # "none"
      BY <2>a DEF CallsOwnTheirRuns, r
    <3>2. QED
      BY <2>a, <2>d, <3>1 DEF MessagesMatchRuns
  <2>11. WorkerKnowsItsRun'
    <3>1. processing' = processing
      BY <1>5 DEF Enqueue, PushedBy
    <3>2. ASSUME worker = "repush", held.target \in targets
          PROVE  lock'[held.target] = held.run
      <4>1. /\ held.run \in RunIds /\ held.target \in Targets
            /\ lock[held.target] = held.run
        BY <3>2, HeldFields DEF WorkerKnowsItsRun
      <4>2. held.target # t
        BY <2>b, <3>2, <4>1
      <4>3. QED
        BY <2>c, <4>1, <4>2
    <3>3. QED
      BY <2>a, <3>1, <3>2 DEF WorkerKnowsItsRun
  <2>13. QED
    BY <2>4, <2>6, <2>7, <2>9, <2>10, <2>11
<1>6. ASSUME NEW c \in Callers, ReleaseReservation(c) PROVE QueueInvariant'
  <2>1. Messages' = Messages
    BY <1>6 DEF ReleaseReservation, Messages
  <2>2. /\ call'[c].step = "fail" /\ call'[c].run = call[c].run /\ call'[c].target = call[c].target
        /\ \A d \in Callers \ {c} : call'[d] = call[d]
    BY <1>6, GotoKeepsCalls DEF ReleaseReservation, TypeOK, CallSteps
  <2>3. \A s : s \in ActiveRuns' <=> s \in ActiveRuns /\ s # call[c].run
    BY <1>6, ActiveRunsMembers, <2>2 DEF ReleaseReservation, At, dbVars
  <2>5. OneActiveRunPerTarget'
    BY <1>6, <2>3 DEF ReleaseReservation, OneActiveRunPerTarget, dbVars
  <2>6. ActiveRunsHoldTheLock'
    BY <1>6, <2>1, ActiveRunsMembers, <2>3
    DEF ReleaseReservation, At, ActiveRunsHoldTheLock, OneActiveRunPerTarget,
        HasMessage, CallsOwnTheirRuns, DeletedRunsHaveNoTarget, OrphansAreAbandoned,
        MessagesMatchRuns, LiveStatus, dbVars
  <2>7. ReservationsAreExclusive'
    <3> DEFINE t == call[c].target
    <3>1. /\ call[c].step = "release" /\ t \in Targets
          /\ lock' = [lock EXCEPT ![t] = "free"] /\ UNCHANGED <<owner, targets>>
      BY <1>6 DEF ReleaseReservation, At, RunsHaveTargets, dbVars
    <3>2. \A d \in Callers \ {c} :
            call[d].step \in Engaged /\ call[d].target \in targets => call[d].target # t
      BY <3>1 DEF ReservationsAreExclusive, Engaged
    <3>3. \A u \in Targets \ {t} : lock'[u] = lock[u]
      BY <3>1
    <3> HIDE DEF t
    <3>4. \A d \in Callers \ {c} :
            call[d].step \in Engaged /\ call[d].target \in targets =>
              lock'[call[d].target] = "reserved"
      BY <3>2, <3>3 DEF ReservationsAreExclusive, TypeOK
    <3>5. QED
      BY <2>2, <2>3, <3>1, <3>4, ReservationsOfOthers DEF Engaged
  <2>8. DeletedRunsHaveNoTarget'
    BY <1>6 DEF ReleaseReservation, DeletedRunsHaveNoTarget, dbVars
  <2>9. CallsOwnTheirRuns'
    <3>1. UNCHANGED <<owner, status, orphans, interrupted, held>>
      BY <1>6 DEF ReleaseReservation, dbVars, workerVars
    <3>2. \A r : HasMessage(r)' <=> HasMessage(r)
      BY <2>1 DEF HasMessage
    <3>3. /\ call[c].step = "release" /\ call'[c].step = "fail"
          /\ \A d \in Callers : /\ call'[d].run = call[d].run
                                /\ call'[d].target = call[d].target
          /\ \A d \in Callers \ {c} : call'[d].step = call[d].step
      BY <1>6, <2>2 DEF ReleaseReservation, At
    <3>4. QED
      BY <3>1, <3>2, <3>3 DEF CallsOwnTheirRuns
  <2>10. MessagesMatchRuns'
    BY <1>6, <2>1 DEF ReleaseReservation, MessagesMatchRuns, dbVars
  <2>11. WorkerKnowsItsRun'
    <3>1. /\ UNCHANGED <<processing, status, owner, targets, worker, held, orphans>>
          /\ call[c].step = "release"
          /\ lock' = [lock EXCEPT ![call[c].target] = "free"]
      BY <1>6 DEF ReleaseReservation, At, dbVars, workerVars
    <3>2. ASSUME worker = "repush", held.target \in targets
          PROVE  lock'[held.target] = held.run
      <4>1. /\ held.run \in RunIds /\ held.target \in Targets
            /\ lock[held.target] = held.run
        BY <3>2, HeldFields DEF WorkerKnowsItsRun
      <4>2. held.target # call[c].target
        BY <3>1, <3>2, <4>1 DEF ReservationsAreExclusive, Engaged
      <4>3. QED
        BY <3>1, <4>1, <4>2
    <3>3. QED
      BY <3>1, <3>2 DEF WorkerKnowsItsRun
  <2>12. OrphansAreAbandoned'
    BY <1>6 DEF ReleaseReservation, OrphansAreAbandoned, dbVars, workerVars
  <2>13. QED
    BY <2>5, <2>6, <2>7, <2>8, <2>9, <2>10, <2>11, <2>12
<1>7. ASSUME NEW c \in Callers, MarkFailed(c) PROVE QueueInvariant'
  <2>1. Messages' = Messages
    BY <1>7 DEF MarkFailed, redisVars, Messages
  <2>2. /\ call'[c].step = "idle" /\ call'[c].run = "none"
        /\ \A d \in Callers \ {c} : call'[d] = call[d]
    BY <1>7, LeaveKeepsCalls DEF MarkFailed, TypeOK
  <2>3. \A s : s \in ActiveRuns' <=> s \in ActiveRuns
    <3> DEFINE r == call[c].run
    <3>1. /\ call[c].step = "fail" /\ r \in RunIds /\ call'[c].step = "idle"
          /\ status[r] \in {"pending", "deleted"}
          /\ status' = IF status[r] = "deleted" THEN status ELSE [status EXCEPT ![r] = "failed"]
      BY <1>7, <2>2 DEF MarkFailed, At, CallsOwnTheirRuns
    <3>2. r \notin ActiveRuns /\ r \notin ActiveRuns'
      BY <3>1, ActiveRunsMembers DEF LiveStatus, TypeOK
    <3>3. \A s \in RunIds \ {r} : status'[s] = status[s]
      BY <3>1
    <3> HIDE DEF r
    <3>4. \A s \in RunIds \ {r} :
            (\A d \in Callers : call'[d].step = "fail" => call'[d].run # s)
              <=> (\A d \in Callers : call[d].step = "fail" => call[d].run # s)
      BY <2>2 DEF r
    <3>5. ASSUME NEW s PROVE s \in ActiveRuns' <=> s \in ActiveRuns
      <4>1. CASE s \in RunIds \ {r}
        BY <3>3, <3>4, <4>1, ActiveRunsMembers
      <4>2. CASE s = r
        BY <3>2, <4>2
      <4>3. QED
        BY <4>1, <4>2, ActiveRunsMembers
    <3>6. QED
      BY <3>5
  <2>4. /\ OneActiveRunPerTarget'
        /\ ActiveRunsHoldTheLock'
    BY <1>7, <2>1, <2>3, Undisturbed DEF MarkFailed, redisVars
  <2>7. ReservationsAreExclusive'
    BY <1>7, <2>2, <2>3, ReservationsOfOthers
    DEF MarkFailed, redisVars, Engaged, ReservationsAreExclusive
  <2>8. DeletedRunsHaveNoTarget'
    BY <1>7 DEF MarkFailed, DeletedRunsHaveNoTarget
  <2>9. CallsOwnTheirRuns'
    BY <1>7, <2>1, <2>2, <2>3
    DEF MarkFailed, CallsOwnTheirRuns, HasMessage, WorkerKnowsItsRun, workerVars
  <2>10. MessagesMatchRuns'
    BY <1>7, <2>1 DEF MarkFailed, MessagesMatchRuns
  <2>11. WorkerKnowsItsRun'
    BY <1>7
    DEF MarkFailed, At, WorkerKnowsItsRun, CallsOwnTheirRuns, redisVars, workerVars
  <2>12. OrphansAreAbandoned'
    BY <1>7 DEF MarkFailed, At, OrphansAreAbandoned, CallsOwnTheirRuns, workerVars
  <2>13. QED
    BY <2>4, <2>7, <2>8, <2>9, <2>10, <2>11, <2>12
<1>8. ASSUME NEW c \in Callers, ReserveLost(c) PROVE QueueInvariant'
  <2>1. Messages' = Messages
    BY <1>8 DEF ReserveLost, Messages
  <2>2. /\ call'[c].step = "idle" /\ call'[c].run = "none"
        /\ \A d \in Callers \ {c} : call'[d] = call[d]
    BY <1>8, LeaveKeepsCalls DEF ReserveLost, TypeOK
  <2>3. \A s : s \in ActiveRuns' <=> s \in ActiveRuns
    BY <1>8, ActiveRunsMembers, NoBreakingFault, <2>2 DEF ReserveLost, Fault, At, dbVars
  <2>4. /\ OneActiveRunPerTarget'
        /\ DeletedRunsHaveNoTarget'
        /\ MessagesMatchRuns'
        /\ OrphansAreAbandoned'
    BY <1>8, <2>1, <2>3, Undisturbed DEF ReserveLost, dbVars, workerVars
  <2>6. ActiveRunsHoldTheLock'
    BY <1>8, <2>1, ActiveRunsMembers, <2>3
    DEF ReserveLost, ActiveRunsHoldTheLock, HasMessage, dbVars
  <2>7. ReservationsAreExclusive'
    <3>1. /\ lock[call[c].target] = "free" /\ UNCHANGED <<owner, targets>>
          /\ lock' = [lock EXCEPT ![call[c].target] = "reserved"]
      BY <1>8 DEF ReserveLost, dbVars
    <3>2. \A d \in Callers \ {c} :
            call[d].step \in Engaged /\ call[d].target \in targets =>
              lock'[call[d].target] = "reserved"
      BY <3>1 DEF ReservationsAreExclusive
    <3>3. QED
      BY <2>2, <2>3, <3>1, <3>2, ReservationsOfOthers DEF Engaged
  <2>9. CallsOwnTheirRuns'
    BY <1>8, <2>1, <2>2, CallsWithoutARun DEF ReserveLost, dbVars, workerVars
  <2>11. WorkerKnowsItsRun'
    BY <1>8 DEF ReserveLost, WorkerKnowsItsRun, TypeOK, dbVars, workerVars
  <2>13. QED
    BY <2>4, <2>6, <2>7, <2>9, <2>11
<1>9. ASSUME NEW c \in Callers, EnqueueLost(c) PROVE QueueInvariant'
  BY <1>9, NoBreakingFault DEF EnqueueLost, Fault, BreakingFaults
<1>10. ASSUME NEW c \in Callers, EnqueueRefused(c) PROVE QueueInvariant'
  <2>1. Messages' = Messages
    BY <1>10 DEF EnqueueRefused, redisVars, Messages
  <2>2. /\ call'[c].step = "release" /\ call'[c].run = call[c].run /\ call'[c].target = call[c].target
        /\ \A d \in Callers \ {c} : call'[d] = call[d]
    BY <1>10, GotoKeepsCalls DEF EnqueueRefused, TypeOK, CallSteps
  <2>3. \A s : s \in ActiveRuns' <=> s \in ActiveRuns
    BY <1>10, ActiveRunsMembers, NoBreakingFault, <2>2
    DEF EnqueueRefused, Fault, BreakingFaults, At, dbVars
  <2>4. /\ OneActiveRunPerTarget'
        /\ ActiveRunsHoldTheLock'
        /\ DeletedRunsHaveNoTarget'
        /\ MessagesMatchRuns'
        /\ WorkerKnowsItsRun'
        /\ OrphansAreAbandoned'
    BY <1>10, <2>1, <2>3, Undisturbed DEF EnqueueRefused, dbVars, redisVars, workerVars
  <2>7. ReservationsAreExclusive'
    <3>1. /\ UNCHANGED <<lock, owner, targets>> /\ call[c].step = "enqueue"
      BY <1>10 DEF EnqueueRefused, At, dbVars, redisVars
    <3>2. \A d \in Callers :
            /\ call'[d].target = call[d].target
            /\ call'[d].step \in Engaged <=> call[d].step \in Engaged
            /\ call'[d].step = "create" <=> call[d].step = "create"
      BY <2>2, <3>1 DEF Engaged
    <3>3. ActiveRuns' = ActiveRuns
      BY <2>3
    <3>4. QED
      BY <3>1, <3>2, <3>3 DEF ReservationsAreExclusive, At
  <2>9. CallsOwnTheirRuns'
    BY <1>10, <2>1, ActiveRunsMembers, <2>2
    DEF EnqueueRefused, At, CallsOwnTheirRuns, HasMessage, MessagesMatchRuns, dbVars,
        workerVars
  <2>13. QED
    BY <2>4, <2>7, <2>9
<1>11. ASSUME NEW c \in Callers, ReleaseRefused(c) PROVE QueueInvariant'
  <2>1. Messages' = Messages
    BY <1>11 DEF ReleaseRefused, redisVars, Messages
  <2>2. /\ call'[c].step = "idle" /\ call'[c].run = "none"
        /\ \A d \in Callers \ {c} : call'[d] = call[d]
    BY <1>11, LeaveKeepsCalls DEF ReleaseRefused, TypeOK
  <2>3. \A s : s \in ActiveRuns' <=> s \in ActiveRuns
    BY <1>11, ActiveRunsMembers, <2>2 DEF ReleaseRefused, At, dbVars
  <2>4. /\ OneActiveRunPerTarget'
        /\ ActiveRunsHoldTheLock'
        /\ DeletedRunsHaveNoTarget'
        /\ MessagesMatchRuns'
        /\ WorkerKnowsItsRun'
        /\ OrphansAreAbandoned'
    BY <1>11, <2>1, <2>3, Undisturbed DEF ReleaseRefused, dbVars, redisVars, workerVars
  <2>7. ReservationsAreExclusive'
    BY <1>11, <2>2, <2>3, ReservationsOfOthers
    DEF ReleaseRefused, dbVars, redisVars, Engaged, ReservationsAreExclusive
  <2>9. CallsOwnTheirRuns'
    BY <1>11, <2>1, <2>2, CallsWithoutARun DEF ReleaseRefused, dbVars, workerVars
  <2>13. QED
    BY <2>4, <2>7, <2>9
<1>12. ASSUME NEW c \in Callers, MarkFailedLost(c) PROVE QueueInvariant'
  BY <1>12, NoBreakingFault DEF MarkFailedLost, Fault, BreakingFaults
<1>13. ASSUME ApiCrash PROVE QueueInvariant'
  <2>1. Messages' = Messages
    BY <1>13 DEF ApiCrash, redisVars, Messages
  <2>2. \A d \in Callers : call'[d].step = "idle" /\ call'[d].run = "none"
    BY <1>13 DEF ApiCrash, NoCall
  <2>3. \A s : s \in ActiveRuns' <=> s \in ActiveRuns
    BY <1>13, ActiveRunsMembers, NoBreakingFault, <2>2
    DEF ApiCrash, BreakingFaults, At, dbVars
  <2>4. /\ OneActiveRunPerTarget'
        /\ ActiveRunsHoldTheLock'
        /\ DeletedRunsHaveNoTarget'
        /\ MessagesMatchRuns'
        /\ WorkerKnowsItsRun'
        /\ OrphansAreAbandoned'
    BY <1>13, <2>1, <2>3, Undisturbed DEF ApiCrash, dbVars, redisVars, workerVars
  <2>7. ReservationsAreExclusive'
    BY <2>2 DEF At, ReservationsAreExclusive, Engaged
  <2>9. CallsOwnTheirRuns'
    BY <2>2 DEF CallsOwnTheirRuns
  <2>13. QED
    BY <2>4, <2>7, <2>9
<1>14. ASSUME NEW t \in Targets, DeleteTarget(t) PROVE QueueInvariant'
  <2>1. Messages' = Messages
    BY <1>14 DEF DeleteTarget, redisVars, Messages
  <2>3. \A s : s \in ActiveRuns' <=> s \in ActiveRuns /\ owner[s] # t
    <3>1. /\ call' = call
          /\ \A s \in RunIds : status'[s] = IF owner[s] = t THEN "deleted" ELSE status[s]
      BY <1>14 DEF DeleteTarget
    <3>2. QED
      BY <3>1, ActiveRunsMembers DEF LiveStatus
  <2>5. OneActiveRunPerTarget'
    BY <1>14, <2>3 DEF DeleteTarget, OneActiveRunPerTarget
  <2>6. ActiveRunsHoldTheLock'
    BY <1>14, <2>1, <2>3 DEF DeleteTarget, ActiveRunsHoldTheLock, HasMessage, redisVars
  <2>7. ReservationsAreExclusive'
    BY <1>14, <2>3 DEF DeleteTarget, At, ReservationsAreExclusive, redisVars
  <2>8. DeletedRunsHaveNoTarget'
    BY <1>14 DEF DeleteTarget, DeletedRunsHaveNoTarget
  <2>9. CallsOwnTheirRuns'
    BY <1>14, <2>1 DEF DeleteTarget, CallsOwnTheirRuns, HasMessage, workerVars
  <2>10. MessagesMatchRuns'
    BY <1>14, <2>1, MessageFields DEF DeleteTarget, MessagesMatchRuns
  <2>11. WorkerKnowsItsRun'
    BY <1>14, HeldFields DEF DeleteTarget, WorkerKnowsItsRun, redisVars, workerVars
  <2>12. OrphansAreAbandoned'
    BY <1>14 DEF DeleteTarget, OrphansAreAbandoned, TypeOK, workerVars
  <2>13. QED
    BY <2>5, <2>6, <2>7, <2>8, <2>9, <2>10, <2>11, <2>12
<1>15. ASSUME NEW t \in Targets, LockExpires(t) PROVE QueueInvariant'
  BY <1>15, NoBreakingFault DEF LockExpires, Fault, BreakingFaults
<1>16. ASSUME WorkerStarts PROVE QueueInvariant'
  <2>1. Messages' = Messages
    BY <1>16 DEF WorkerStarts, redisVars, Messages
  <2>3. ActiveRuns' = ActiveRuns
    BY <1>16, SameActiveRuns DEF WorkerStarts, dbVars
  <2>4. /\ OneActiveRunPerTarget'
        /\ ActiveRunsHoldTheLock'
        /\ ReservationsAreExclusive'
        /\ DeletedRunsHaveNoTarget'
        /\ CallsOwnTheirRuns'
        /\ MessagesMatchRuns'
    BY <1>16, <2>1, <2>3, Undisturbed DEF WorkerStarts, dbVars, redisVars
  <2>11. WorkerKnowsItsRun'
    BY <1>16 DEF WorkerStarts, WorkerKnowsItsRun
  <2>12. OrphansAreAbandoned'
    BY <1>16 DEF WorkerStarts, OrphansAreAbandoned
  <2>13. QED
    BY <2>4, <2>11, <2>12
<1>17. ASSUME RecoverOne PROVE QueueInvariant'
  <2>1. Messages' = Messages
    BY <1>17, RecoverKeepsMessages DEF TypeOK
  <2>3. ActiveRuns' = ActiveRuns
    BY <1>17, SameActiveRuns DEF RecoverOne, dbVars
  <2>4. /\ OneActiveRunPerTarget'
        /\ ActiveRunsHoldTheLock'
        /\ ReservationsAreExclusive'
        /\ DeletedRunsHaveNoTarget'
        /\ CallsOwnTheirRuns'
        /\ MessagesMatchRuns'
        /\ OrphansAreAbandoned'
    BY <1>17, <2>1, <2>3, Undisturbed DEF RecoverOne, dbVars, workerVars
  <2>11. WorkerKnowsItsRun'
    BY <1>17 DEF RecoverOne, WorkerKnowsItsRun, workerVars
  <2>13. QED
    BY <2>4, <2>11
<1>18. ASSUME TakeSnapshot PROVE QueueInvariant'
  <2>1. Messages' = Messages
    BY <1>18 DEF TakeSnapshot, redisVars, Messages
  <2>3. ActiveRuns' = ActiveRuns
    BY <1>18, SameActiveRuns DEF TakeSnapshot, dbVars
  <2>4. /\ OneActiveRunPerTarget'
        /\ ActiveRunsHoldTheLock'
        /\ ReservationsAreExclusive'
        /\ DeletedRunsHaveNoTarget'
        /\ CallsOwnTheirRuns'
        /\ MessagesMatchRuns'
    BY <1>18, <2>1, <2>3, Undisturbed DEF TakeSnapshot, dbVars, redisVars
  <2>11. WorkerKnowsItsRun'
    BY <1>18 DEF TakeSnapshot, WorkerKnowsItsRun
  <2>12. OrphansAreAbandoned'
    BY <1>18 DEF TakeSnapshot, OrphansAreAbandoned
  <2>13. QED
    BY <2>4, <2>11, <2>12
<1>19. ASSUME SelectOrphans PROVE QueueInvariant'
  <2>1. Messages' = Messages
    BY <1>19 DEF SelectOrphans, redisVars, Messages
  <2>3. ActiveRuns' = ActiveRuns
    BY <1>19, SameActiveRuns DEF SelectOrphans, dbVars
  <2>4. /\ OneActiveRunPerTarget'
        /\ ActiveRunsHoldTheLock'
        /\ ReservationsAreExclusive'
        /\ DeletedRunsHaveNoTarget'
        /\ MessagesMatchRuns'
    BY <1>19, <2>1, <2>3, Undisturbed DEF SelectOrphans, dbVars, redisVars
  <2>9. CallsOwnTheirRuns'
    BY <1>19, NoBreakingFault
    DEF SelectOrphans, BreakingFaults, CallsOwnTheirRuns, NoTriggerUnderway
  <2>11. WorkerKnowsItsRun'
    BY <1>19 DEF SelectOrphans, WorkerKnowsItsRun
  <2>12. OrphansAreAbandoned'
    BY <1>19 DEF SelectOrphans, OrphansAreAbandoned, IsLive, dbVars
  <2>13. QED
    BY <2>4, <2>9, <2>11, <2>12
<1>20. ASSUME NEW r \in RunIds, SkipQueuedOrphan(r) PROVE QueueInvariant'
  <2>1. Messages' = Messages
    BY <1>20 DEF SkipQueuedOrphan, redisVars, Messages
  <2>3. ActiveRuns' = ActiveRuns
    BY <1>20, SameActiveRuns DEF SkipQueuedOrphan, dbVars
  <2>4. /\ OneActiveRunPerTarget'
        /\ ActiveRunsHoldTheLock'
        /\ ReservationsAreExclusive'
        /\ DeletedRunsHaveNoTarget'
        /\ MessagesMatchRuns'
    BY <1>20, <2>1, <2>3, Undisturbed DEF SkipQueuedOrphan, dbVars, redisVars
  <2>9. CallsOwnTheirRuns'
    BY <1>20, <2>1 DEF SkipQueuedOrphan, CallsOwnTheirRuns, HasMessage, dbVars
  <2>11. WorkerKnowsItsRun'
    BY <1>20 DEF SkipQueuedOrphan, WorkerKnowsItsRun
  <2>12. OrphansAreAbandoned'
    BY <1>20 DEF SkipQueuedOrphan, OrphansAreAbandoned, dbVars
  <2>13. QED
    BY <2>4, <2>9, <2>11, <2>12
<1>21. ASSUME NEW r \in RunIds, ReadmitOrphan(r) PROVE QueueInvariant'
  <2>1. Messages' = Messages
    BY <1>21 DEF ReadmitOrphan, redisVars, Messages
  <2>3. ActiveRuns' = ActiveRuns
    BY <1>21, SameActiveRuns DEF ReadmitOrphan, dbVars
  <2>4. /\ OneActiveRunPerTarget'
        /\ ActiveRunsHoldTheLock'
        /\ ReservationsAreExclusive'
        /\ DeletedRunsHaveNoTarget'
        /\ MessagesMatchRuns'
    BY <1>21, <2>1, <2>3, Undisturbed DEF ReadmitOrphan, dbVars, redisVars
  <2>9. CallsOwnTheirRuns'
    BY <1>21, <2>1 DEF ReadmitOrphan, CallsOwnTheirRuns, HasMessage, dbVars
  <2>11. WorkerKnowsItsRun'
    BY <1>21 DEF ReadmitOrphan, WorkerKnowsItsRun, dbVars
  <2>12. OrphansAreAbandoned'
    BY <1>21 DEF ReadmitOrphan, OrphansAreAbandoned, dbVars
  <2>13. QED
    BY <2>4, <2>9, <2>11, <2>12
<1>22. ASSUME RelockOrphan PROVE QueueInvariant'
  <2>1. Messages' = Messages
    BY <1>22 DEF RelockOrphan, Messages
  <2>3. ActiveRuns' = ActiveRuns
    BY <1>22, SameActiveRuns DEF RelockOrphan, dbVars
  <2>4. /\ OneActiveRunPerTarget'
        /\ DeletedRunsHaveNoTarget'
        /\ CallsOwnTheirRuns'
        /\ MessagesMatchRuns'
    BY <1>22, <2>1, <2>3, Undisturbed DEF RelockOrphan, dbVars
  <2>6. ActiveRunsHoldTheLock'
    BY <1>22, <2>1, ActiveRunsMembers
    DEF RelockOrphan, ActiveRunsHoldTheLock, OneActiveRunPerTarget, HasMessage,
        CallsOwnTheirRuns, DeletedRunsHaveNoTarget, WorkerKnowsItsRun,
        OrphansAreAbandoned, MessagesMatchRuns, TypeOK, NoMessage, dbVars
  <2>7. ReservationsAreExclusive'
    <3> DEFINE t == held.target
               r == held.run
    <3>1. /\ UNCHANGED <<owner, targets, call>> /\ lock' = [lock EXCEPT ![t] = r]
          /\ t \in Targets /\ r \in RunIds /\ r \in orphans /\ owner[r] = t
      BY <1>22, HeldFields DEF RelockOrphan, dbVars, WorkerKnowsItsRun
    <3>2. t \in targets => r \in ActiveRuns
      <4>1. \A d \in Callers : call[d].step = "fail" => call[d].run # r
        BY <3>1 DEF CallsOwnTheirRuns
      <4>2. status[r] \in LiveStatus \cup {"deleted"}
        BY <3>1 DEF OrphansAreAbandoned
      <4>3. t \in targets => status[r] # "deleted"
        BY <3>1 DEF DeletedRunsHaveNoTarget
      <4>4. QED
        BY <3>1, <4>1, <4>2, <4>3, ActiveRunsMembers
    <3>3. ASSUME NEW d \in Callers, call[d].step \in Engaged, call[d].target \in targets
          PROVE  call[d].target # t
      <4>1. CASE call[d].step = "create"
        BY <3>1, <3>2, <3>3, <4>1 DEF ReservationsAreExclusive, At
      <4>2. CASE call[d].step \in {"enqueue", "release"}
        <5>1. call[d].run \notin orphans
          BY <4>2 DEF CallsOwnTheirRuns
        <5>2. \A s \in ActiveRuns : owner[s] = call[d].target => s = call[d].run
          BY <3>3, <4>2, EngagedRunIsActive
        <5>3. QED
          BY <3>1, <3>2, <3>3, <5>1, <5>2
      <4>3. QED
        BY <3>3, <4>1, <4>2 DEF Engaged
    <3>4. \A u \in Targets \ {t} : lock'[u] = lock[u]
      BY <3>1
    <3> HIDE DEF t, r
    <3>5. ActiveRuns' = ActiveRuns
      BY <2>3
    <3>6. QED
      BY <3>1, <3>3, <3>5 DEF ReservationsAreExclusive, At
  <2>11. WorkerKnowsItsRun'
    BY <1>22 DEF RelockOrphan, WorkerKnowsItsRun, TypeOK, dbVars
  <2>12. OrphansAreAbandoned'
    BY <1>22 DEF RelockOrphan, OrphansAreAbandoned, dbVars
  <2>13. QED
    BY <2>4, <2>6, <2>7, <2>11, <2>12
<1>23. ASSUME PushOrphan PROVE QueueInvariant'
  <2>1. Messages' = Messages \cup {held} /\ held \in Message
    BY <1>23, PushAddsMessage DEF PushOrphan, TypeOK
  <2>3. ActiveRuns' = ActiveRuns
    BY <1>23, SameActiveRuns DEF PushOrphan, dbVars
  <2>4. /\ OneActiveRunPerTarget'
        /\ ReservationsAreExclusive'
        /\ DeletedRunsHaveNoTarget'
    BY <1>23, <2>3, Undisturbed DEF PushOrphan, dbVars
  <2>6. ActiveRunsHoldTheLock'
    BY <1>23, <2>1, <2>3
    DEF PushOrphan, ActiveRunsHoldTheLock, HasMessage, WorkerKnowsItsRun, dbVars
  <2>9. CallsOwnTheirRuns'
    BY <1>23, <2>1 DEF PushOrphan, CallsOwnTheirRuns, HasMessage, NoMessage, dbVars
  <2>10. MessagesMatchRuns'
    BY <1>23, <2>1
    DEF PushOrphan, MessagesMatchRuns, WorkerKnowsItsRun, OrphansAreAbandoned,
        LiveStatus, dbVars
  <2>11. WorkerKnowsItsRun'
    BY <1>23 DEF PushOrphan, WorkerKnowsItsRun
  <2>12. OrphansAreAbandoned'
    BY <1>23 DEF PushOrphan, OrphansAreAbandoned, dbVars
  <2>13. QED
    BY <2>4, <2>6, <2>9, <2>10, <2>11, <2>12
<1>24. ASSUME CommitOrphans PROVE QueueInvariant'
  <2>1. Messages' = Messages
    BY <1>24 DEF CommitOrphans, redisVars, Messages
  <2>3. \A s : s \in ActiveRuns' <=> s \in ActiveRuns
    BY <1>24, ActiveRunsMembers DEF CommitOrphans, OrphansAreAbandoned, LiveStatus
  <2>4. /\ OneActiveRunPerTarget'
        /\ ActiveRunsHoldTheLock'
        /\ ReservationsAreExclusive'
    BY <1>24, <2>1, <2>3, Undisturbed DEF CommitOrphans, redisVars
  <2>8. DeletedRunsHaveNoTarget'
    BY <1>24 DEF CommitOrphans, DeletedRunsHaveNoTarget
  <2>9. CallsOwnTheirRuns'
    BY <1>24, <2>1 DEF CommitOrphans, CallsOwnTheirRuns, HasMessage
  <2>10. MessagesMatchRuns'
    BY <1>24, <2>1, MessageFields DEF CommitOrphans, MessagesMatchRuns
  <2>11. WorkerKnowsItsRun'
    BY <1>24 DEF CommitOrphans, WorkerKnowsItsRun
  <2>12. OrphansAreAbandoned'
    BY <1>24 DEF CommitOrphans, OrphansAreAbandoned
  <2>13. QED
    BY <2>4, <2>8, <2>9, <2>10, <2>11, <2>12
<1>25. ASSUME Dequeue PROVE QueueInvariant'
  <2>1. /\ Messages' = Messages /\ Last(queue) \in Message
        /\ Last(queue) \in ToSet(processing') /\ Last(queue) \in Messages
    BY <1>25, PopKeepsMessages DEF Dequeue, TypeOK
  <2>3. ActiveRuns' = ActiveRuns
    BY <1>25, SameActiveRuns DEF Dequeue, dbVars
  <2>4. /\ OneActiveRunPerTarget'
        /\ ActiveRunsHoldTheLock'
        /\ ReservationsAreExclusive'
        /\ DeletedRunsHaveNoTarget'
        /\ MessagesMatchRuns'
    BY <1>25, <2>1, <2>3, Undisturbed DEF Dequeue, PopToProcessing, dbVars
  <2>9. CallsOwnTheirRuns'
    BY <1>25, <2>1 DEF Dequeue, CallsOwnTheirRuns, HasMessage, dbVars
  <2>11. WorkerKnowsItsRun'
    BY <1>25, <2>1 DEF Dequeue, WorkerKnowsItsRun
  <2>12. OrphansAreAbandoned'
    BY <1>25 DEF Dequeue, PopToProcessing, OrphansAreAbandoned
  <2>13. QED
    BY <2>4, <2>9, <2>11, <2>12
<1>26. ASSUME CheckStatus PROVE QueueInvariant'
  <2>1. Messages' = Messages
    BY <1>26 DEF CheckStatus, redisVars, Messages
  <2>3. ActiveRuns' = ActiveRuns
    BY <1>26, SameActiveRuns DEF CheckStatus, dbVars
  <2>4. /\ OneActiveRunPerTarget'
        /\ ActiveRunsHoldTheLock'
        /\ ReservationsAreExclusive'
        /\ DeletedRunsHaveNoTarget'
        /\ CallsOwnTheirRuns'
        /\ MessagesMatchRuns'
    BY <1>26, <2>1, <2>3, Undisturbed DEF CheckStatus, dbVars, redisVars
  <2>11. WorkerKnowsItsRun'
    <3>1. /\ worker = "check" /\ UNCHANGED <<status, owner, lock, processing, held, targets>>
          /\ worker' = IF IsLive(held.run) THEN "start" ELSE "ack"
      BY <1>26 DEF CheckStatus, dbVars, redisVars
    <3>2. held \in ToSet(processing) /\ held # NoMessage /\ held.run \in RunIds
      BY <3>1, HeldFields DEF WorkerKnowsItsRun
    <3>3. status[held.run] \in RunStatus \ {"none"}
      BY <3>2 DEF Messages, MessagesMatchRuns, TypeOK
    <3>4. QED
      BY <3>1, <3>2, <3>3 DEF WorkerKnowsItsRun, IsLive, RunStatus
  <2>12. OrphansAreAbandoned'
    BY <1>26 DEF CheckStatus, OrphansAreAbandoned
  <2>13. QED
    BY <2>4, <2>11, <2>12
<1>27. ASSUME StartRun PROVE QueueInvariant'
  <2>1. Messages' = Messages
    BY <1>27 DEF StartRun, redisVars, Messages
  <2>3. \A s : s \in ActiveRuns' <=> s \in ActiveRuns
    BY <1>27, ActiveRunsMembers DEF StartRun, WorkerKnowsItsRun, TypeOK, LiveStatus
  <2>4. /\ OneActiveRunPerTarget'
        /\ ActiveRunsHoldTheLock'
        /\ ReservationsAreExclusive'
    BY <1>27, <2>1, <2>3, Undisturbed DEF StartRun, redisVars
  <2>8. DeletedRunsHaveNoTarget'
    BY <1>27 DEF StartRun, DeletedRunsHaveNoTarget, TypeOK
  <2>9. CallsOwnTheirRuns'
    BY <1>27, <2>1 DEF StartRun, CallsOwnTheirRuns, HasMessage, TypeOK
  <2>10. MessagesMatchRuns'
    BY <1>27, <2>1, MessageFields DEF StartRun, MessagesMatchRuns, TypeOK
  <2>11. WorkerKnowsItsRun'
    BY <1>27, HeldFields DEF StartRun, WorkerKnowsItsRun, TypeOK, redisVars
  <2>12. OrphansAreAbandoned'
    BY <1>27 DEF StartRun, OrphansAreAbandoned
  <2>13. QED
    BY <2>4, <2>8, <2>9, <2>10, <2>11, <2>12
<1>28. ASSUME NEW outcome \in SettledStatus, FinishRun(outcome) PROVE QueueInvariant'
  <2>1. Messages' = Messages
    BY <1>28 DEF FinishRun, redisVars, Messages
  <2>3. \A s : s \in ActiveRuns' <=> s \in ActiveRuns /\ s # held.run
    BY <1>28, ActiveRunsMembers DEF FinishRun, TypeOK, LiveStatus, SettledStatus
  <2>5. OneActiveRunPerTarget'
    BY <1>28, <2>3 DEF FinishRun, OneActiveRunPerTarget
  <2>6. ActiveRunsHoldTheLock'
    BY <1>28, <2>1, <2>3 DEF FinishRun, ActiveRunsHoldTheLock, HasMessage, redisVars
  <2>7. ReservationsAreExclusive'
    BY <1>28, <2>3 DEF FinishRun, At, ReservationsAreExclusive, redisVars
  <2>8. DeletedRunsHaveNoTarget'
    BY <1>28 DEF FinishRun, DeletedRunsHaveNoTarget, SettledStatus
  <2>9. CallsOwnTheirRuns'
    BY <1>28, <2>1 DEF FinishRun, CallsOwnTheirRuns, HasMessage
  <2>10. MessagesMatchRuns'
    BY <1>28, <2>1 DEF FinishRun, MessagesMatchRuns, SettledStatus
  <2>11. WorkerKnowsItsRun'
    BY <1>28 DEF FinishRun, WorkerKnowsItsRun, TypeOK, NoMessage, redisVars
  <2>12. OrphansAreAbandoned'
    BY <1>28 DEF FinishRun, OrphansAreAbandoned
  <2>13. QED
    BY <2>5, <2>6, <2>7, <2>8, <2>9, <2>10, <2>11, <2>12
<1>29. ASSUME EscapeRun PROVE QueueInvariant'
  <2>1. Messages' = Messages
    BY <1>29 DEF EscapeRun, redisVars, Messages
  <2>3. ActiveRuns' = ActiveRuns
    BY <1>29, SameActiveRuns DEF EscapeRun, dbVars
  <2>4. /\ OneActiveRunPerTarget'
        /\ ActiveRunsHoldTheLock'
        /\ ReservationsAreExclusive'
        /\ DeletedRunsHaveNoTarget'
        /\ CallsOwnTheirRuns'
        /\ MessagesMatchRuns'
    BY <1>29, <2>1, <2>3, Undisturbed DEF EscapeRun, dbVars, redisVars
  <2>11. WorkerKnowsItsRun'
    BY <1>29, NoBreakingFault, HeldFields
    DEF EscapeRun, Fault, BreakingFaults, WorkerKnowsItsRun, dbVars, redisVars
  <2>12. OrphansAreAbandoned'
    BY <1>29 DEF EscapeRun, OrphansAreAbandoned
  <2>13. QED
    BY <2>4, <2>11, <2>12
<1>30. ASSUME Acknowledge PROVE QueueInvariant'
  <2>1. /\ Messages' \subseteq Messages /\ Messages \ {held} \subseteq Messages'
    BY <1>30, AcknowledgeRemovesHeld DEF TypeOK
  <2>3. ActiveRuns' = ActiveRuns
    BY <1>30, SameActiveRuns DEF Acknowledge, dbVars
  <2>4. /\ OneActiveRunPerTarget'
        /\ ReservationsAreExclusive'
        /\ DeletedRunsHaveNoTarget'
    BY <1>30, <2>3, Undisturbed DEF Acknowledge, dbVars
  <2>6. ActiveRunsHoldTheLock'
    BY <1>30, <2>1, <2>3 DEF Acknowledge, ActiveRunsHoldTheLock, HasMessage, dbVars
  <2>9. CallsOwnTheirRuns'
    BY <1>30, <2>1 DEF Acknowledge, CallsOwnTheirRuns, HasMessage, dbVars
  <2>10. MessagesMatchRuns'
    BY <1>30, <2>1 DEF Acknowledge, MessagesMatchRuns, dbVars
  <2>11. WorkerKnowsItsRun'
    BY <1>30 DEF Acknowledge, WorkerKnowsItsRun, dbVars
  <2>12. OrphansAreAbandoned'
    BY <1>30 DEF Acknowledge, OrphansAreAbandoned
  <2>13. QED
    BY <2>4, <2>6, <2>9, <2>10, <2>11, <2>12
<1>31. ASSUME ReleaseRun PROVE QueueInvariant'
  <2>1. Messages' = Messages
    BY <1>31 DEF ReleaseRun, Messages
  <2>3. ActiveRuns' = ActiveRuns
    BY <1>31, SameActiveRuns DEF ReleaseRun, dbVars
  <2>4. /\ OneActiveRunPerTarget'
        /\ DeletedRunsHaveNoTarget'
        /\ MessagesMatchRuns'
    BY <1>31, <2>1, <2>3, Undisturbed DEF ReleaseRun, dbVars
  <2>6. ActiveRunsHoldTheLock'
    BY <1>31, <2>1, ActiveRunsMembers, HeldFields
    DEF ReleaseRun, ActiveRunsHoldTheLock, HasMessage, WorkerKnowsItsRun, LiveStatus,
        SettledStatus, dbVars
  <2>7. ReservationsAreExclusive'
    BY <1>31, <2>3, HeldFields DEF ReleaseRun, At, ReservationsAreExclusive, dbVars
  <2>9. CallsOwnTheirRuns'
    BY <1>31, <2>1 DEF ReleaseRun, CallsOwnTheirRuns, HasMessage, NoMessage, dbVars
  <2>11. WorkerKnowsItsRun'
    BY <1>31 DEF ReleaseRun, WorkerKnowsItsRun
  <2>12. OrphansAreAbandoned'
    BY <1>31 DEF ReleaseRun, OrphansAreAbandoned
  <2>13. QED
    BY <2>4, <2>6, <2>7, <2>9, <2>11, <2>12
<1>32. ASSUME DequeueLost PROVE QueueInvariant'
  <2>1. /\ Messages' = Messages /\ Last(queue) \in Message
        /\ Last(queue) \in ToSet(processing') /\ Last(queue) \in Messages
    BY <1>32, PopKeepsMessages DEF DequeueLost, TypeOK
  <2>3. ActiveRuns' = ActiveRuns
    BY <1>32, SameActiveRuns DEF DequeueLost, dbVars
  <2>4. /\ OneActiveRunPerTarget'
        /\ ActiveRunsHoldTheLock'
        /\ ReservationsAreExclusive'
        /\ DeletedRunsHaveNoTarget'
        /\ CallsOwnTheirRuns'
        /\ MessagesMatchRuns'
        /\ OrphansAreAbandoned'
    BY <1>32, <2>1, <2>3, Undisturbed
    DEF DequeueLost, PopToProcessing, dbVars, workerVars
  <2>11. WorkerKnowsItsRun'
    BY <1>32 DEF DequeueLost, PopToProcessing, WorkerKnowsItsRun, workerVars
  <2>13. QED
    BY <2>4, <2>11
<1>33. ASSUME WorkerCrash PROVE QueueInvariant'
  <2>1. Messages' = Messages
    BY <1>33 DEF WorkerCrash, redisVars, Messages
  <2>3. ActiveRuns' = ActiveRuns
    BY <1>33, SameActiveRuns DEF WorkerCrash, dbVars
  <2>4. /\ OneActiveRunPerTarget'
        /\ ActiveRunsHoldTheLock'
        /\ ReservationsAreExclusive'
        /\ DeletedRunsHaveNoTarget'
        /\ MessagesMatchRuns'
    BY <1>33, <2>1, <2>3, Undisturbed DEF WorkerCrash, dbVars, redisVars
  <2>9. CallsOwnTheirRuns'
    BY <1>33, <2>1 DEF WorkerCrash, CallsOwnTheirRuns, HasMessage, NoMessage, dbVars
  <2>11. WorkerKnowsItsRun'
    BY <1>33 DEF WorkerCrash, WorkerKnowsItsRun
  <2>12. OrphansAreAbandoned'
    BY <1>33 DEF WorkerCrash, OrphansAreAbandoned
  <2>13. QED
    BY <2>4, <2>9, <2>11, <2>12
<1>34. CASE UNCHANGED vars
  <2>1. Messages' = Messages /\ ActiveRuns' = ActiveRuns
    BY <1>34 DEF vars, dbVars, redisVars, Messages, ActiveRuns, Failing, IsLive, At
  <2>2. QED
    BY <1>34, <2>1
    DEF vars, dbVars, redisVars, workerVars, OneActiveRunPerTarget,
        ActiveRunsHoldTheLock, ReservationsAreExclusive, DeletedRunsHaveNoTarget,
        CallsOwnTheirRuns, MessagesMatchRuns, WorkerKnowsItsRun, OrphansAreAbandoned,
        HasMessage, At
<1>35. QED
  BY <1>1, <1>2, <1>3, <1>4, <1>5, <1>6, <1>7, <1>8, <1>9, <1>10, <1>11, <1>12, <1>13,
      <1>14, <1>15, <1>16, <1>17, <1>18, <1>19, <1>20, <1>21, <1>22, <1>23, <1>24,
      <1>25, <1>26, <1>27, <1>28, <1>29, <1>30, <1>31, <1>32, <1>33, <1>34
  DEF Next, ApiStep, ApiFault, StartupStep, LoopStep

(* The lock protects the active run of a target: the inductive invariant.  *)
THEOREM QueueInvariantHolds ==
  ASSUME Tolerated PROVE Spec => []QueueInvariant
<1>1. FaultInvariant /\ QueueInvariant /\ [Next]_vars => FaultInvariant' /\ QueueInvariant'
  BY FaultStep, QueueStep
<1>2. QED
  BY <1>1, FaultInit, QueueInit, PTL DEF Spec

(* trigger_target never lets a second live run exist on a target.          *)
THEOREM OneRunPerTarget ==
  ASSUME Tolerated PROVE Spec => []OneActiveRunPerTarget
<1>1. QueueInvariant => OneActiveRunPerTarget
  BY DEF QueueInvariant
<1>2. QED
  BY <1>1, QueueInvariantHolds, PTL

-----------------------------------------------------------------------------
(* CaptureQueue implements RunLedger as long as only ToleratedFaults       *)
(* happen: each step of the API or of the worker is one step of the table  *)
(* of runs, or none.                                                       *)

(* The table of runs, before and after a step.                             *)

LEMMA LedgerRows ==
  /\ \A r \in RunIds : ledgerStatus[r] =
       IF status[r] \in LiveStatus /\ r \notin ActiveRuns THEN "failed" ELSE status[r]
  /\ \A r \in RunIds : ledgerStatus'[r] =
       IF status'[r] \in LiveStatus /\ r \notin ActiveRuns' THEN "failed" ELSE status'[r]
BY DEF ledgerStatus, ActiveRuns, IsLive

LEMMA LedgerLive ==
  \A r \in RunIds : Ledger!IsLive(r) <=> r \in ActiveRuns
BY LedgerRows, ActiveRunsMembers DEF Ledger!IsLive, Ledger!LiveStatus, LiveStatus

(* Two views with the same rows are the same function.                     *)
LEMMA LedgerExtensionality ==
  ASSUME NEW f, NEW g, f = [r \in RunIds |-> f[r]], g = [r \in RunIds |-> g[r]],
         \A r \in RunIds : f[r] = g[r]
  PROVE  f = g
OBVIOUS

LEMMA LedgerIsAFunction ==
  /\ ledgerStatus = [r \in RunIds |-> ledgerStatus[r]]
  /\ ledgerStatus' = [r \in RunIds |-> ledgerStatus'[r]]
BY DEF ledgerStatus

(* A step that neither settles, starts nor creates a run is invisible.     *)
LEMMA LedgerStutter ==
  ASSUME UNCHANGED owner, ActiveRuns' = ActiveRuns,
         \A r \in RunIds : status'[r] = status[r]
  PROVE  UNCHANGED Ledger!ledgerVars
<1>1. \A r \in RunIds : ledgerStatus'[r] = ledgerStatus[r]
  BY LedgerRows
<1>2. ledgerStatus' = ledgerStatus
  BY <1>1, LedgerIsAFunction, LedgerExtensionality
<1>3. QED
  BY <1>2 DEF Ledger!ledgerVars

(* A run in a coroutine is pending: neither running nor held.              *)
LEMMA FailingRunsArePending ==
  ASSUME QueueInvariant, NEW r \in RunIds, r \notin ActiveRuns, status[r] \in LiveStatus
  PROVE  status[r] = "pending" /\ held.run # r /\ r \notin interrupted
<1>1. PICK c \in Callers : call[c].step = "fail" /\ call[c].run = r
  BY ActiveRunsMembers
<1>2. QED
  BY <1>1 DEF QueueInvariant, CallsOwnTheirRuns, LiveStatus

-----------------------------------------------------------------------------
(* The steps the ledger sees.                                              *)

LEMMA CreateSubmits ==
  ASSUME TypeOK, QueueInvariant, NEW c \in Callers, NEW r \in RunIds, Create(c, r)
  PROVE  Ledger!Submit(r, call[c].target)
<1> DEFINE t == call[c].target
<1>1. /\ status[r] = "none" /\ status' = [status EXCEPT ![r] = "pending"]
      /\ owner' = [owner EXCEPT ![r] = t] /\ t \in targets /\ call[c].step = "create"
  BY DEF Create, At
<1>2. /\ call'[c].step = "enqueue"
      /\ \A d \in Callers \ {c} : call'[d] = call[d]
  BY CreateKeepsCalls DEF TypeOK
<1>3. \A d \in Callers : call[d].step = "fail" => call[d].run # r
  BY <1>1 DEF QueueInvariant, CallsOwnTheirRuns
<1>4. status'[r] = "pending" /\ \A s \in RunIds \ {r} : status'[s] = status[s]
  BY <1>1 DEF TypeOK
<1>5. \A s : s \in ActiveRuns' <=> s \in ActiveRuns \/ s = r
  BY <1>1, <1>2, <1>3, <1>4, ActiveRunsMembers DEF LiveStatus
<1>6. \A s \in ActiveRuns : owner[s] # t
  BY <1>1 DEF QueueInvariant, ReservationsAreExclusive, At
<1>7. Ledger!LiveOn(t) = {}
  BY <1>6, LedgerLive DEF Ledger!LiveOn
<1>8. ledgerStatus[r] = "none"
  BY <1>1, LedgerRows DEF LiveStatus
<1>9. ledgerStatus' = [ledgerStatus EXCEPT ![r] = "pending"]
  <2>1. ledgerStatus'[r] = "pending"
    BY <1>4, <1>5, LedgerRows
  <2>2. \A s \in RunIds \ {r} : ledgerStatus'[s] = ledgerStatus[s]
    BY <1>4, <1>5, LedgerRows
  <2>3. QED
    BY <2>1, <2>2, LedgerIsAFunction
<1>10. QED
  BY <1>1, <1>7, <1>8, <1>9 DEF Ledger!Submit

LEMMA ReleaseSettles ==
  ASSUME TypeOK, QueueInvariant, NEW c \in Callers, ReleaseReservation(c)
  PROVE  Ledger!Settle(call[c].run, "failed") \/ UNCHANGED Ledger!ledgerVars
<1> DEFINE r == call[c].run
<1>1. /\ call[c].step = "release" /\ r \in RunIds
      /\ status' = status /\ owner' = owner
  BY DEF ReleaseReservation, At, dbVars, QueueInvariant, CallsOwnTheirRuns
<1>2. /\ call'[c].step = "fail" /\ call'[c].run = r
      /\ \A d \in Callers \ {c} : call'[d] = call[d]
  BY GotoKeepsCalls DEF ReleaseReservation, TypeOK, CallSteps
<1>3. \A s : s \in ActiveRuns' <=> s \in ActiveRuns /\ s # r
  BY <1>1, <1>2, ActiveRunsMembers
<1>4. CASE r \in ActiveRuns
  <2>1. ledgerStatus'[r] = "failed"
    BY <1>1, <1>3, <1>4, LedgerRows, ActiveRunsMembers
  <2>2. \A s \in RunIds \ {r} : ledgerStatus'[s] = ledgerStatus[s]
    BY <1>1, <1>3, LedgerRows
  <2>3. ledgerStatus' = [ledgerStatus EXCEPT ![r] = "failed"]
    BY <2>1, <2>2, LedgerIsAFunction
  <2>4. Ledger!IsLive(r)
    BY <1>1, <1>4, LedgerLive
  <2>5. QED
    BY <1>1, <2>3, <2>4 DEF Ledger!Settle
<1>5. CASE r \notin ActiveRuns
  <2>1. ActiveRuns' = ActiveRuns
    BY <1>3, <1>5
  <2>2. QED
    BY <1>1, <2>1, LedgerStutter
<1>6. QED
  BY <1>4, <1>5

(* The failure was visible as soon as the lock was given back.             *)
LEMMA MarkFailedIsInvisible ==
  ASSUME TypeOK, QueueInvariant, NEW c \in Callers, MarkFailed(c)
  PROVE  UNCHANGED Ledger!ledgerVars
<1> DEFINE r == call[c].run
<1>1. /\ call[c].step = "fail" /\ r \in RunIds /\ owner' = owner
      /\ status[r] \in {"pending", "deleted"}
      /\ status' = IF status[r] = "deleted" THEN status ELSE [status EXCEPT ![r] = "failed"]
  BY DEF MarkFailed, At, QueueInvariant, CallsOwnTheirRuns
<1>2. /\ call'[c].step = "idle"
      /\ \A d \in Callers \ {c} : call'[d] = call[d]
  BY LeaveKeepsCalls DEF MarkFailed, TypeOK
<1>3. r \notin ActiveRuns
  BY <1>1, ActiveRunsMembers
<1>4. /\ status'[r] = IF status[r] = "deleted" THEN "deleted" ELSE "failed"
      /\ \A s \in RunIds \ {r} : status'[s] = status[s]
  BY <1>1 DEF TypeOK
<1> HIDE DEF r
<1>5. \A s \in RunIds \ {r} : s \in ActiveRuns' <=> s \in ActiveRuns
  <2>1. SUFFICES ASSUME NEW s \in RunIds \ {r}
                 PROVE  s \in ActiveRuns' <=> s \in ActiveRuns
    OBVIOUS
  <2>2. (\A d \in Callers : call'[d].step = "fail" => call'[d].run # s)
          <=> (\A d \in Callers : call[d].step = "fail" => call[d].run # s)
    BY <1>1, <1>2 DEF r
  <2>3. QED
    BY <1>4, <2>2, ActiveRunsMembers
<1>6. ledgerStatus'[r] = ledgerStatus[r]
  BY <1>1, <1>3, <1>4, LedgerRows DEF LiveStatus
<1>7. \A s \in RunIds \ {r} : ledgerStatus'[s] = ledgerStatus[s]
  BY <1>4, <1>5, LedgerRows
<1>8. ledgerStatus' = ledgerStatus
  BY <1>6, <1>7, LedgerIsAFunction, LedgerExtensionality
<1>9. QED
  BY <1>1, <1>8 DEF Ledger!ledgerVars

LEMMA DeleteForgets ==
  ASSUME NEW t \in Targets, DeleteTarget(t)
  PROVE  Ledger!Forget(t)
<1>1. /\ call' = call /\ owner' = owner
      /\ \A r \in RunIds : status'[r] = IF owner[r] = t THEN "deleted" ELSE status[r]
  BY DEF DeleteTarget
<1>2. \A r : r \in ActiveRuns' <=> r \in ActiveRuns /\ owner[r] # t
  BY <1>1, ActiveRunsMembers DEF LiveStatus
<1>3. \A r \in RunIds : ledgerStatus'[r] = IF owner[r] = t THEN "deleted" ELSE ledgerStatus[r]
  BY <1>1, <1>2, LedgerRows DEF LiveStatus
<1>4. ledgerStatus' = [r \in RunIds |-> IF owner[r] = t THEN "deleted" ELSE ledgerStatus[r]]
  BY <1>3, LedgerIsAFunction
<1>5. QED
  BY <1>1, <1>4 DEF Ledger!Forget

LEMMA CommitRequeues ==
  ASSUME TypeOK, QueueInvariant, CommitOrphans
  PROVE  Ledger!Requeue(interrupted) \/ UNCHANGED Ledger!ledgerVars
<1>1. call' = call /\ owner' = owner /\ interrupted \subseteq RunIds
  BY DEF CommitOrphans, TypeOK
<1>2. CASE \E r \in interrupted : status[r] = "deleted"
  <2>1. status' = status
    BY <1>2 DEF CommitOrphans
  <2>2. QED
    BY <1>1, <2>1, SameActiveRuns, LedgerStutter
<1>3. CASE ~\E r \in interrupted : status[r] = "deleted"
  <2>1. \A r \in RunIds : status'[r] = IF r \in interrupted THEN "pending" ELSE status[r]
    BY <1>3 DEF CommitOrphans
  <2>2. \A r \in interrupted : status[r] = "running" /\ r \in ActiveRuns
    <3>1. \A r \in interrupted : status[r] = "running"
      BY <1>3 DEF QueueInvariant, OrphansAreAbandoned
    <3>2. QED
      BY <1>1, <3>1, FailingRunsArePending DEF LiveStatus
  <2>3. \A r : r \in ActiveRuns' <=> r \in ActiveRuns
    BY <1>1, <2>1, <2>2, ActiveRunsMembers DEF LiveStatus
  <2>4. \A r \in RunIds :
          ledgerStatus'[r] = IF r \in interrupted THEN "pending" ELSE ledgerStatus[r]
    BY <2>1, <2>2, <2>3, LedgerRows
  <2>5. ledgerStatus' =
          [r \in RunIds |-> IF r \in interrupted THEN "pending" ELSE ledgerStatus[r]]
    BY <2>4, LedgerIsAFunction
  <2>6. \A r \in interrupted : Ledger!IsLive(r)
    BY <1>1, <2>2, LedgerLive
  <2>7. QED
    BY <1>1, <2>5, <2>6 DEF Ledger!Requeue
<1>4. QED
  BY <1>2, <1>3

(* The worker changes the status of an active run only.                    *)
LEMMA HeldRunChanges ==
  ASSUME TypeOK, QueueInvariant, NEW s, s \in SettledStatus \cup {"running"},
         held.run \in RunIds, status[held.run] \in LiveStatus,
         call' = call, status' = [status EXCEPT ![held.run] = s]
  PROVE  /\ held.run \in ActiveRuns
         /\ ledgerStatus' = [ledgerStatus EXCEPT ![held.run] = s]
<1> DEFINE r == held.run
<1>1. r \in ActiveRuns
  BY FailingRunsArePending
<1>2. status'[r] = s /\ \A q \in RunIds \ {r} : status'[q] = status[q]
  BY DEF TypeOK
<1> HIDE DEF r
<1>3. \A q \in RunIds \ {r} : q \in ActiveRuns' <=> q \in ActiveRuns
  BY <1>2, ActiveRunsMembers
<1>4. status'[r] \in LiveStatus => r \in ActiveRuns'
  BY <1>1, ActiveRunsMembers
<1>5. ledgerStatus'[r] = s
  BY <1>2, <1>4, LedgerRows DEF r
<1>6. \A q \in RunIds \ {r} : ledgerStatus'[q] = ledgerStatus[q]
  BY <1>2, <1>3, LedgerRows
<1>7. ledgerStatus' = [ledgerStatus EXCEPT ![r] = s]
  BY <1>5, <1>6, LedgerIsAFunction
<1>8. QED
  BY <1>1, <1>7 DEF r

LEMMA StartBegins ==
  ASSUME TypeOK, RunsHaveTargets, QueueInvariant, StartRun
  PROVE  Ledger!Begin(held.run) \/ UNCHANGED Ledger!ledgerVars
<1>1. worker = "start" /\ call' = call /\ owner' = owner
  BY DEF StartRun
<1>2. held.run \in RunIds /\ status[held.run] \in LiveStatus \cup {"deleted"}
  BY <1>1, HeldFields DEF QueueInvariant, WorkerKnowsItsRun
<1>3. CASE status[held.run] = "deleted"
  <2>1. status' = status
    BY <1>3 DEF StartRun
  <2>2. QED
    BY <1>1, <2>1, SameActiveRuns, LedgerStutter
<1>4. CASE status[held.run] \in LiveStatus
  <2>1. status' = [status EXCEPT ![held.run] = "running"]
    BY <1>4 DEF StartRun, LiveStatus
  <2>2. /\ held.run \in ActiveRuns
        /\ ledgerStatus' = [ledgerStatus EXCEPT ![held.run] = "running"]
    BY <1>1, <1>2, <1>4, <2>1, HeldRunChanges
  <2>3. QED
    BY <1>1, <1>2, <2>2, LedgerLive DEF Ledger!Begin
<1>5. QED
  BY <1>2, <1>3, <1>4

LEMMA FinishSettles ==
  ASSUME TypeOK, RunsHaveTargets, QueueInvariant,
         NEW outcome \in SettledStatus, FinishRun(outcome)
  PROVE  Ledger!Settle(held.run, outcome)
<1>1. /\ worker = "running" /\ call' = call /\ owner' = owner
      /\ status[held.run] # "deleted"
      /\ status' = [status EXCEPT ![held.run] = outcome]
  BY DEF FinishRun
<1>2. held.run \in RunIds /\ status[held.run] \in LiveStatus
  BY <1>1, HeldFields DEF QueueInvariant, WorkerKnowsItsRun, LiveStatus
<1>3. /\ held.run \in ActiveRuns
      /\ ledgerStatus' = [ledgerStatus EXCEPT ![held.run] = outcome]
  BY <1>1, <1>2, HeldRunChanges
<1>4. QED
  BY <1>1, <1>2, <1>3, LedgerLive DEF Ledger!Settle

-----------------------------------------------------------------------------
(* All the steps together.                                                 *)

LEMMA LedgerStep ==
  ASSUME Tolerated, FaultInvariant, QueueInvariant, [Next]_vars
  PROVE  [Ledger!LedgerNext]_(Ledger!ledgerVars)
<1> USE DEF FaultInvariant
<1>1. ASSUME NEW c \in Callers, NEW r \in RunIds, Create(c, r)
      PROVE  Ledger!LedgerNext
  <2>1. call[c].target \in Targets
    BY <1>1 DEF Create, TypeOK
  <2>2. QED
    BY <1>1, <2>1, CreateSubmits DEF Ledger!LedgerNext
<1>2. ASSUME NEW c \in Callers, ReleaseReservation(c)
      PROVE  Ledger!LedgerNext \/ UNCHANGED Ledger!ledgerVars
  <2>1. call[c].run \in RunIds
    BY <1>2 DEF ReleaseReservation, At, RunsHaveTargets
  <2>2. QED
    BY <1>2, <2>1, ReleaseSettles DEF Ledger!LedgerNext, Ledger!SettledStatus
<1>3. ASSUME NEW c \in Callers, MarkFailed(c)
      PROVE  UNCHANGED Ledger!ledgerVars
  BY <1>3, MarkFailedIsInvisible
<1>4. ASSUME NEW t \in Targets, DeleteTarget(t)
      PROVE  Ledger!LedgerNext
  BY <1>4, DeleteForgets DEF Ledger!LedgerNext
<1>5. CASE CommitOrphans
  BY <1>5, CommitRequeues DEF Ledger!LedgerNext, TypeOK
<1>6. CASE StartRun
  BY <1>6, StartBegins, HeldFields DEF Ledger!LedgerNext, StartRun
<1>7. ASSUME NEW outcome \in SettledStatus, FinishRun(outcome)
      PROVE  Ledger!LedgerNext
  BY <1>7, FinishSettles, HeldFields
  DEF Ledger!LedgerNext, FinishRun, Ledger!SettledStatus, SettledStatus
<1>8. CASE UNCHANGED <<status, owner, call>>
  BY <1>8, SameActiveRuns, LedgerStutter
<1>9. ASSUME NEW c \in Callers, UNCHANGED <<status, owner>>,
             call[c].step # "fail", call'[c].step # "fail",
             \A d \in Callers \ {c} : call'[d] = call[d]
      PROVE  UNCHANGED Ledger!ledgerVars
  <2>1. \A s : s \in ActiveRuns' <=> s \in ActiveRuns
    BY <1>9, ActiveRunsMembers
  <2>2. ActiveRuns' = ActiveRuns
    BY <2>1
  <2>3. QED
    BY <1>9, <2>2, LedgerStutter
<1>10. ASSUME NEW c \in Callers,
              \/ \E t \in Targets, force \in BOOLEAN : Trigger(c, t, force)
              \/ Reserve(c) \/ ReserveLost(c) \/ CreateFails(c)
              \/ Enqueue(c) \/ EnqueueRefused(c) \/ ReleaseRefused(c)
       PROVE  UNCHANGED Ledger!ledgerVars
  <2>1. /\ UNCHANGED <<status, owner>> /\ call[c].step # "fail"
    BY <1>10
    DEF Trigger, Reserve, ReserveLost, CreateFails, Enqueue, EnqueueRefused,
        ReleaseRefused, At, dbVars
  <2>2. \A t \in Targets, force \in BOOLEAN :
          Trigger(c, t, force) => call'[c].step = "reserve"
    BY DEF Trigger, TypeOK
  <2>3. call'[c].step # "fail" /\ \A d \in Callers \ {c} : call'[d] = call[d]
    BY <1>10, <2>2, GotoKeepsCalls, LeaveKeepsCalls
    DEF Trigger, Reserve, ReserveLost, CreateFails, Enqueue, EnqueueRefused,
        ReleaseRefused, TypeOK, CallSteps
  <2>4. QED
    BY <1>9, <2>1, <2>3
<1>11. CASE ApiCrash
  <2>1. /\ UNCHANGED <<status, owner>>
        /\ \A d \in Callers : call[d].step # "fail" /\ call'[d].step # "fail"
    BY <1>11, NoBreakingFault DEF ApiCrash, At, NoCall, dbVars, BreakingFaults
  <2>2. ActiveRuns' = ActiveRuns
    <3>1. \A s : s \in ActiveRuns' <=> s \in ActiveRuns
      BY <2>1, ActiveRunsMembers
    <3>2. QED
      BY <3>1
  <2>3. QED
    BY <2>1, <2>2, LedgerStutter
<1>12. ASSUME NEW c \in Callers, EnqueueLost(c) \/ MarkFailedLost(c) PROVE FALSE
  BY <1>12, NoBreakingFault DEF EnqueueLost, MarkFailedLost, Fault, BreakingFaults
<1>13. QED
  <2>1. CASE UNCHANGED vars
    BY <1>8, <2>1 DEF vars, dbVars
  <2>2. CASE Next
    BY <1>1, <1>2, <1>3, <1>4, <1>5, <1>6, <1>7, <1>8, <1>10, <1>11, <1>12, <2>2
    DEF Next, ApiStep, ApiFault, StartupStep, LoopStep, dbVars,
        LockExpires, WorkerStarts, RecoverOne, TakeSnapshot, SelectOrphans,
        SkipQueuedOrphan, ReadmitOrphan, RelockOrphan, PushOrphan, Dequeue,
        DequeueLost, CheckStatus, EscapeRun, Acknowledge, ReleaseRun, WorkerCrash
  <2>3. QED
    BY <2>1, <2>2

LEMMA LedgerStart == Init => Ledger!LedgerInit
BY DEF Init, Ledger!LedgerInit, ledgerStatus, IsLive, LiveStatus

(* The queue implements the ledger, for every number of targets, runs,     *)
(* callers and tolerated failures.                                         *)
THEOREM QueueImplementsLedger ==
  ASSUME Tolerated PROVE Spec => ImplementsLedger
<1>1. Spec => [](FaultInvariant /\ QueueInvariant)
  BY FaultInvariantHolds, QueueInvariantHolds, PTL
<1>2. FaultInvariant /\ QueueInvariant /\ [Next]_vars
        => [Ledger!LedgerNext]_(Ledger!ledgerVars)
  BY LedgerStep
<1>3. QED
  BY <1>1, <1>2, LedgerStart, PTL DEF Spec, ImplementsLedger, Ledger!LedgerSpec
=============================================================================
