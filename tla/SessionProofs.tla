---------------------------- MODULE SessionProofs ----------------------------
(***************************************************************************)
(* Proofs about a session whose processes run this repository's code:      *)
(* every result belongs to the script that was run, and the broker never   *)
(* takes such a process for one that broke the protocol.                   *)
(***************************************************************************)
EXTENDS ContentProofs

(* A leaf that names no prover is tried with these, in turn.              *)
USE ZenonT(2), SMTT(30), Z3T(30), ZenonT(30)

-----------------------------------------------------------------------------
(* The session.  What a queue holds, by kind.                              *)

Has(q, k) == \E i \in 1 .. Len(q) : q[i].kind = k

Once(q, k) == \A i, j \in 1 .. Len(q) : q[i].kind = k /\ q[j].kind = k => i = j

AllOf(q, k, n) == \A i \in 1 .. Len(q) : q[i].kind = k => q[i].of = n

(* A live process has a reader, and what comes up decodes: requests while  *)
(* the opening lasts, and then no more of them.                            *)
Readable(g) ==
    /\ child[g] = "Running" => reader[g] = "Running"
    /\ ~ Has(inbound[g], "Garbled")
    /\ ~ Has(up[g], "Garbled") /\ ~ Has(up[g], "PeerClosed")
    /\ reader[g] = "Running" =>
          \/ /\ seen[g] < OPENING_REQUESTS
             /\ up[g] = << >> \/ (Len(up[g]) = 1 /\ Has(up[g], "Request"))
          \/ seen[g] = OPENING_REQUESTS /\ ~ Has(up[g], "Request")

(* The opening is one question at a time: a request on its way up, or its  *)
(* response on its way down, is the only one.                              *)
InExchange(g) ==
    \/ Has(up[g], "Request") \/ Has(inbound[g], "Request")
    \/ Has(outbound[g], "Response") \/ Has(down[g], "Response")

Exchange(g) ==
    /\ Once(inbound[g], "Request")
    /\ Once(outbound[g], "Response") /\ Once(down[g], "Response")
    /\ Has(up[g], "Request") => ~ Has(inbound[g], "Request")
    /\ Has(up[g], "Request") \/ Has(inbound[g], "Request") =>
          ~ Has(outbound[g], "Response") /\ ~ Has(down[g], "Response")
    /\ Has(outbound[g], "Response") => ~ Has(down[g], "Response")
    /\ child[g] = "Running" =>
          /\ IF Has(up[g], "Request") THEN asked[g] = seen[g] + 1 ELSE asked[g] = seen[g]
          /\ IF InExchange(g) THEN asked[g] = answered[g] + 1 ELSE asked[g] = answered[g]

(* Nothing but the opening happens on a session that is being opened, and  *)
(* nothing of it is left once it stands.                                   *)
OpeningOf(g) ==
    /\ Once(outbound[g], "Init")
    /\ pc = "Opening" /\ g = target =>
          /\ ~ Has(outbound[g], "Init") /\ ~ Has(down[g], "Init")
          /\ host[g] = "None"
          /\ Has(inbound[g], "Request") => served < OPENING_REQUESTS
          /\ reader[g] = "Running" =>
                IF Has(inbound[g], "Request") THEN seen[g] = served + 1 ELSE seen[g] = served
    /\ ~ Over(g) /\ ~ (pc = "Opening" /\ g = target) =>
          /\ ~ Has(inbound[g], "Request")
          /\ reader[g] = "Running" => seen[g] = OPENING_REQUESTS

(* A script that is being run is one message: on its way down, or its      *)
(* result on its way up.                                                   *)
InCall(g) ==
    \/ Has(outbound[g], "RunScript") \/ Has(down[g], "RunScript")
    \/ Has(inbound[g], "Result") \/ Has(up[g], "Result")

CallOf(g) ==
    /\ Once(outbound[g], "RunScript") /\ Once(down[g], "RunScript")
    /\ Once(inbound[g], "Result") /\ Once(up[g], "Result")
    /\ Has(outbound[g], "RunScript") => ~ Has(down[g], "RunScript")
    /\ Has(inbound[g], "Result") => ~ Has(up[g], "Result")
    /\ Has(outbound[g], "RunScript") \/ Has(down[g], "RunScript") =>
          ~ Has(inbound[g], "Result") /\ ~ Has(up[g], "Result")
    /\ InCall(g) => g = cur /\ pc = "Waiting"
    /\ AllOf(outbound[g], "RunScript", call) /\ AllOf(down[g], "RunScript", call)
    /\ AllOf(inbound[g], "Result", call) /\ AllOf(up[g], "Result", call)

(* What holds of the queues and the pipes of a process that keeps to the   *)
(* protocol.                                                               *)
Kept(g) == Readable(g) /\ Exchange(g) /\ OpeningOf(g) /\ CallOf(g)

HonestInv ==
    /\ \A g \in Gen : Kept(g)
    /\ pc = "Extra" => answer = call
    /\ HonestIsNotBlamed /\ AnswersMatch

-----------------------------------------------------------------------------
(* What putting a frame into a queue, taking one and dropping the queue do *)
(* to what it holds.                                                       *)

LEMMA AppendHolds ==
    ASSUME NEW S, NEW q \in Seq(S), NEW m \in S
    PROVE  LET r == Append(q, m)
           IN  /\ r \in Seq(S) /\ Len(r) = Len(q) + 1 /\ r # << >>
               /\ \A k : Has(r, k) <=> Has(q, k) \/ m.kind = k
               /\ \A k : Once(q, k) /\ (m.kind = k => ~ Has(q, k)) => Once(r, k)
               /\ \A k, n : AllOf(q, k, n) /\ (m.kind = k => m.of = n) => AllOf(r, k, n)
<1> DEFINE r == Append(q, m)
           l == Len(q)
<1>1. r \in Seq(S) /\ Len(r) = l + 1 /\ l \in Nat /\ r # << >>
  OBVIOUS
<1>2. r[l + 1] = m /\ \A i \in 1 .. l : r[i] = q[i] /\ i \in 1 .. l + 1 /\ i # l + 1
  OBVIOUS
<1>3. l + 1 \in 1 .. l + 1 /\ \A i \in 1 .. l + 1 : i \in 1 .. l \/ i = l + 1
  BY <1>1
<1> HIDE DEF r
<1>4. ASSUME NEW k
      PROVE  Has(r, k) <=> Has(q, k) \/ m.kind = k
  <2>1. Has(r, k) => Has(q, k) \/ m.kind = k
    BY <1>1, <1>2, <1>3 DEF Has
  <2>2. m.kind = k => Has(r, k)
    BY <1>1, <1>2, <1>3 DEF Has
  <2>3. Has(q, k) => Has(r, k)
    BY <1>1, <1>2 DEF Has
  <2> QED
    BY <2>1, <2>2, <2>3
<1>5. ASSUME NEW k, Once(q, k), m.kind = k => ~ Has(q, k)
      PROVE  Once(r, k)
  <2> SUFFICES ASSUME NEW i \in 1 .. l + 1, NEW j \in 1 .. l + 1, r[i].kind = k, r[j].kind = k
               PROVE  i = j
    BY <1>1 DEF Once
  <2> QED
    BY <1>2, <1>3, <1>5 DEF Once, Has
<1>6. ASSUME NEW k, NEW n, AllOf(q, k, n), m.kind = k => m.of = n
      PROVE  AllOf(r, k, n)
  BY <1>1, <1>2, <1>3, <1>6 DEF AllOf
<1> QED
  BY <1>1, <1>4, <1>5, <1>6 DEF r

LEMMA TailHolds ==
    ASSUME NEW S, NEW q \in Seq(S), q # << >>
    PROVE  LET r == Tail(q)
               m == Head(q)
           IN  /\ r \in Seq(S) /\ m \in S /\ Len(r) = Len(q) - 1
               /\ \A k : Has(q, k) <=> m.kind = k \/ Has(r, k)
               /\ \A k : Once(q, k) => Once(r, k) /\ (m.kind = k => ~ Has(r, k))
               /\ \A k, n : AllOf(q, k, n) =>
                      AllOf(r, k, n) /\ (m.kind = k => m.of = n)
<1> DEFINE r == Tail(q)
           m == Head(q)
           l == Len(r)
<1>1. r \in Seq(S) /\ m \in S /\ l = Len(q) - 1 /\ l \in Nat /\ Len(q) = l + 1
  OBVIOUS
<1>2. m = q[1] /\ \A i \in 1 .. l : r[i] = q[i + 1]
  OBVIOUS
<1>3. /\ 1 \in 1 .. l + 1
      /\ \A i \in 1 .. l : i + 1 \in 1 .. l + 1 /\ i + 1 # 1
      /\ \A i \in 1 .. l + 1 : i = 1 \/ (i - 1 \in 1 .. l /\ i = (i - 1) + 1)
  BY <1>1
<1> HIDE DEF r, m, l
<1>4. ASSUME NEW k
      PROVE  Has(q, k) <=> m.kind = k \/ Has(r, k)
  <2>1. ASSUME Has(q, k)
        PROVE  m.kind = k \/ Has(r, k)
    <3>1. PICK i \in 1 .. l + 1 : q[i].kind = k
      BY <1>1, <2>1 DEF Has
    <3>2. CASE i = 1
      BY <1>2, <3>1, <3>2
    <3>3. CASE i - 1 \in 1 .. l /\ i = (i - 1) + 1
      <4>1. r[i - 1].kind = k
        BY <1>2, <3>1, <3>3
      <4> QED
        BY <3>3, <4>1 DEF Has, l
    <3> QED
      BY <1>3, <3>2, <3>3
  <2>2. m.kind = k => Has(q, k)
    BY <1>1, <1>2, <1>3 DEF Has
  <2>3. Has(r, k) => Has(q, k)
    BY <1>1, <1>2, <1>3 DEF Has, l
  <2> QED
    BY <2>1, <2>2, <2>3
<1>5. ASSUME NEW k, Once(q, k)
      PROVE  Once(r, k) /\ (m.kind = k => ~ Has(r, k))
  <2>1. ASSUME NEW i \in 1 .. l, NEW j \in 1 .. l, r[i].kind = k, r[j].kind = k
        PROVE  i = j
    <3>1. i + 1 = j + 1
      BY <1>1, <1>2, <1>3, <1>5, <2>1 DEF Once
    <3> QED
      BY <1>1, <3>1
  <2>2. ASSUME m.kind = k, NEW i \in 1 .. l, r[i].kind = k
        PROVE  FALSE
    BY <1>1, <1>2, <1>3, <1>5, <2>2 DEF Once
  <2> QED
    BY <2>1, <2>2 DEF Once, Has, l
<1>6. ASSUME NEW k, NEW n, AllOf(q, k, n)
      PROVE  AllOf(r, k, n) /\ (m.kind = k => m.of = n)
  <2>1. ASSUME NEW i \in 1 .. l, r[i].kind = k
        PROVE  r[i].of = n
    BY <1>1, <1>2, <1>3, <1>6, <2>1 DEF AllOf
  <2>2. m.kind = k => m.of = n
    BY <1>1, <1>2, <1>3, <1>6 DEF AllOf
  <2> QED
    BY <2>1, <2>2 DEF AllOf, l
<1> QED
  BY <1>1, <1>4, <1>5, <1>6 DEF r, m, l

LEMMA EmptyQueue ==
    \A k : ~ Has(<< >>, k) /\ Once(<< >>, k) /\ \A n : AllOf(<< >>, k, n)
BY DEF Has, Once, AllOf

(* The queue down is never full of what a session sends.                   *)
LEMMA ShortQueue ==
    ASSUME NEW q \in Seq(Downward), ~ Has(q, "RunScript"), Once(q, "Response"), Once(q, "Init")
    PROVE  Len(q) < QUEUE_DEPTH
<1>1. \A i \in 1 .. Len(q) : q[i].kind \in {"Response", "Init"}
  <2>1. \A i \in 1 .. Len(q) : q[i] \in Downward
    OBVIOUS
  <2>2. \A m \in Downward : m.kind \in {"Response", "Init", "RunScript"}
    BY DEF Downward
  <2> QED
    BY <2>1, <2>2 DEF Has
<1>2. ASSUME Len(q) >= 4
      PROVE  FALSE
  <2>1. 1 \in 1 .. Len(q) /\ 2 \in 1 .. Len(q) /\ 3 \in 1 .. Len(q)
    BY <1>2
  <2> QED
    BY <1>1, <2>1 DEF Once
<1> QED
  BY <1>2 DEF QUEUE_DEPTH

-----------------------------------------------------------------------------
(* A process that keeps to the protocol.                                   *)

SameProcess(h) ==
    /\ inbound'[h] = inbound[h] /\ outbound'[h] = outbound[h]
    /\ up'[h] = up[h] /\ down'[h] = down[h]
    /\ reader'[h] = reader[h] /\ seen'[h] = seen[h] /\ child'[h] = child[h]
    /\ asked'[h] = asked[h] /\ answered'[h] = answered[h] /\ host'[h] = host[h]

LEMMA NoneOf ==
    ASSUME NEW q, NEW k, ~ Has(q, k)
    PROVE  \A n : AllOf(q, k, n)
BY DEF Has, AllOf

(* A step of another process, or of the broker elsewhere.                  *)
LEMMA ApartKept ==
    ASSUME NEW h \in Gen, Kept(h), SameProcess(h),
           Over(h) => Over(h)',
           (pc = "Opening" /\ h = target) => Over(h)' \/ (pc' = "Opening" /\ h = target'),
           (pc' = "Opening" /\ h = target') => pc = "Opening" /\ h = target /\ served' = served,
           InCall(h) => h = cur' /\ pc' = "Waiting" /\ call' = call
    PROVE  Kept(h)'
<1>0. Readable(h) /\ Exchange(h) /\ OpeningOf(h) /\ CallOf(h)
  BY DEF Kept
<1>1. Readable(h)'
  BY <1>0 DEF Readable, SameProcess
<1>2. Exchange(h)'
  BY <1>0 DEF Exchange, InExchange, SameProcess
<1>3. OpeningOf(h)'
  BY <1>0 DEF OpeningOf, SameProcess
<1>4. CallOf(h)'
  BY <1>0, NoneOf DEF CallOf, InCall, SameProcess
<1> QED
  BY <1>1, <1>2, <1>3, <1>4 DEF Kept

(* The end of a session.                                                   *)
Emptied(g) ==
    /\ inbound'[g] = << >> /\ outbound'[g] = << >> /\ up'[g] = << >> /\ down'[g] = << >>
    /\ child'[g] = "Gone" /\ reader'[g] = reader[g] /\ seen'[g] = seen[g]

LEMMA EndKept ==
    ASSUME NEW g \in Gen, Emptied(g), Over(g)', pc' # "Opening", seen[g] \in 0 .. OPENING_REQUESTS
    PROVE  Kept(g)'
<1>1. Readable(g)'
  BY EmptyQueue DEF Readable, Emptied, OPENING_REQUESTS
<1>2. Exchange(g)'
  BY EmptyQueue DEF Exchange, Emptied
<1>3. OpeningOf(g)'
  BY EmptyQueue DEF OpeningOf, Emptied
<1>4. CallOf(g)'
  BY EmptyQueue DEF CallOf, InCall, Emptied
<1> QED
  BY <1>1, <1>2, <1>3, <1>4 DEF Kept

LEMMA SessionEnds ==
    ASSUME Base, NEW g \in Gen, \A h \in Gen : Kept(h), pc' \in {"Idle", "Dropped"},
           Emptied(g), Over(g)', \A h \in Gen : h # g => SameProcess(h) /\ (Over(h) => Over(h)'),
           pc = "Waiting" => g = cur, pc = "Opening" => g = target
    PROVE  \A h \in Gen : Kept(h)'
<1>1. Kept(g)'
  BY EndKept DEF Base, ProcessTypes
<1>2. ASSUME NEW h \in Gen, h # g
      PROVE  Kept(h)'
  <2>1. ~ InCall(h)
    BY <1>2 DEF Kept, CallOf
  <2> QED
    BY <1>2, <2>1, ApartKept
<1> QED
  BY <1>1, <1>2

LEMMA DieHonest ==
    ASSUME Base, HonestInv, UNCHANGED honest, NEW g \in Gen, NEW cause \in DeathCause,
           Die(g, cause), UNCHANGED <<reader, seen, writer>>, pc' = "Idle", pc # "Dropped",
           pc = "Waiting" => g = cur, pc = "Opening" => g = target,
           panicked \subseteq panicked',
           cause \in {"Protocol", "NotDraining"} => g \in panicked',
           AnswersMatch'
    PROVE  HonestInv'
<1>0. QueueTypes /\ ProcessTypes /\ \A h \in Gen : Kept(h)
  BY DEF Base, HonestInv
<1>1. Emptied(g)
  BY <1>0 DEF Emptied, Die, Killed, QueueTypes, ProcessTypes
<1>2. dead'[g] = IF dead[g] = None THEN cause ELSE dead[g]
  BY <1>0 DEF Die, ProcessTypes
<1>3. \A h \in Gen : h # g => dead'[h] = dead[h]
  BY <1>0 DEF Die, ProcessTypes
<1>4. \A h \in Gen : h # g => SameProcess(h)
  BY <1>0 DEF SameProcess, Die, Killed, QueueTypes, ProcessTypes
<1>5. Over(g)'
  BY <1>2, SessionAssumption DEF Over, DeathCause
<1>6. \A h \in Gen : h # g => (Over(h) => Over(h)')
  BY <1>3, <1>4 DEF Over, SameProcess
<1>7. \A h \in Gen : Kept(h)'
  BY <1>0, <1>1, <1>4, <1>5, <1>6, SessionEnds
<1>8. HonestIsNotBlamed'
  <2>1. HonestIsNotBlamed
    BY DEF HonestInv
  <2> QED
    BY <1>2, <1>3, <2>1 DEF HonestIsNotBlamed
<1> QED
  BY <1>7, <1>8 DEF HonestInv

LEMMA SpawnHonest ==
    ASSUME Base, HonestInv, NEW g \in Gen, Spawn(g), UNCHANGED honest
    PROVE  HonestInv'
<1>0. /\ QueueTypes /\ ProcessTypes /\ BrokerTypes /\ LifeInv /\ ClearedInv
      /\ \A h \in Gen : Kept(h)
  BY DEF Base, HonestInv
<1>1. pc = "Idle" /\ child[g] = "None" /\ Over(g)
  BY DEF Spawn, Fresh, Gen, Over
<1>2. /\ inbound'[g] = << >> /\ outbound'[g] = << >> /\ up'[g] = << >> /\ down'[g] = << >>
      /\ seen'[g] = 0 /\ asked'[g] = 0 /\ answered'[g] = 0 /\ host'[g] = "None"
      /\ reader'[g] = "Running" /\ pc' = "Opening" /\ target' = g /\ served' = 0
  BY <1>0, <1>1 DEF ClearedInv, Spawn, contentVars, ProcessTypes
<1>3. Kept(g)'
  <2>1. Readable(g)'
    BY <1>2, EmptyQueue DEF Readable, OPENING_REQUESTS
  <2>2. Exchange(g)'
    BY <1>2, EmptyQueue DEF Exchange, InExchange
  <2>3. OpeningOf(g)'
    BY <1>2, EmptyQueue DEF OpeningOf
  <2>4. CallOf(g)'
    BY <1>2, EmptyQueue DEF CallOf, InCall
  <2> QED
    BY <2>1, <2>2, <2>3, <2>4 DEF Kept
<1>4. ASSUME NEW h \in Gen, h # g
      PROVE  Kept(h)'
  <2>1. SameProcess(h)
    BY <1>0, <1>4 DEF SameProcess, Spawn, contentVars, ProcessTypes
  <2>2. ~ InCall(h)
    BY <1>0, <1>1 DEF Kept, CallOf
  <2>3. Over(h) => Over(h)'
    BY <1>1, <1>2, <2>1 DEF Over, Spawn, SameProcess
  <2> QED
    BY <1>0, <1>1, <1>2, <1>4, <2>1, <2>2, <2>3, ApartKept
<1>5. HonestIsNotBlamed' /\ AnswersMatch'
  BY DEF HonestInv, HonestIsNotBlamed, AnswersMatch, Spawn
<1> QED
  BY <1>2, <1>3, <1>4, <1>5 DEF HonestInv

(* The broker's own steps leave the other processes alone.                 *)
LEMMA BrokerStays ==
    ASSUME Base, HonestInv, UNCHANGED <<honest, dead, panicked>>, NEW g \in Gen, Kept(g)',
           UNCHANGED <<reader, seen, child, up, down, contentVars>>,
           \A h \in Gen : h # g => inbound'[h] = inbound[h] /\ outbound'[h] = outbound[h],
           pc # "Dropped", pc' # "Dropped",
           pc = "Opening" \/ pc' = "Opening" => g = target /\ g = target',
           pc = "Waiting" => g = cur,
           AnswersMatch', pc' = "Extra" => answer' = call'
    PROVE  HonestInv'
<1>0. \A h \in Gen : Kept(h)
  BY DEF HonestInv
<1>1. ASSUME NEW h \in Gen, h # g
      PROVE  Kept(h)'
  <2>1. SameProcess(h)
    BY <1>1 DEF SameProcess, contentVars
  <2>2. ~ InCall(h)
    BY <1>0, <1>1 DEF Kept, CallOf
  <2>3. Over(h) => Over(h)'
    BY DEF Over
  <2> QED
    BY <1>0, <1>1, <2>1, <2>2, <2>3, ApartKept
<1>2. HonestIsNotBlamed'
  BY DEF HonestInv, HonestIsNotBlamed
<1> QED
  BY <1>1, <1>2 DEF HonestInv

(* Without a call in flight there is room for the next frame.              *)
LEMMA RoomToSend ==
    ASSUME Base, HonestInv, NEW g \in Gen, ~ InCall(g), SendResult(g) # "Sent"
    PROVE  SendResult(g) \in DeathCause \ {"Protocol", "NotDraining"}
<1>1. Kept(g) /\ outbound[g] \in Seq(Downward)
  BY DEF HonestInv, Base, QueueTypes
<1>2. Len(outbound[g]) < QUEUE_DEPTH
  BY <1>1, ShortQueue DEF InCall, Kept, Exchange, OpeningOf
<1>3. Len(outbound[g]) \in Nat
  BY <1>1
<1> QED
  BY <1>2, <1>3 DEF SendResult, QUEUE_DEPTH, DeathCause

(* What the head of a queue says of the queue.                             *)
LEMMA HeadHolds ==
    ASSUME Base, NEW g \in Gen, inbound[g] # << >>
    PROVE  Has(inbound[g], Head(inbound[g]).kind) /\ Head(inbound[g]) \in Upward
<1>1. inbound[g] \in Seq(Upward)
  BY DEF Base, QueueTypes
<1> QED
  BY <1>1, TailHolds

(* A receive that fails is not the process's fault.                        *)
LEMMA ReceiveBlameless ==
    ASSUME Base, HonestInv, NEW g \in Gen, NEW cause \in DeathCause, ReceiveFails(g, cause)
    PROVE  cause \notin {"Protocol", "NotDraining"}
<1>1. ~ Has(inbound[g], "Garbled")
  BY DEF HonestInv, Kept, Readable
<1> QED
  BY <1>1, HeadHolds DEF ReceiveFails, Waits

LEMMA OpenServesHonest ==
    ASSUME Base, HonestInv, NEW g \in Gen, g = target, pc = "Opening", served < OPENING_REQUESTS,
           Waits(g), Head(inbound[g]).kind = "Request", Taken(g), Queued(g, Msg("Response", 0)),
           served' = served + 1,
           UNCHANGED <<honest, pc, cur, target, call, answer, outcome, dead, restarts, open, panicked,
                       reader, seen, writer, child, up, down, contentVars>>
    PROVE  HonestInv'
<1>0. /\ QueueTypes /\ ProcessTypes /\ BrokerTypes /\ LifeInv
      /\ Readable(g) /\ Exchange(g) /\ OpeningOf(g) /\ CallOf(g)
  BY DEF Base, HonestInv, Kept
<1>1. /\ inbound[g] \in Seq(Upward) /\ inbound[g] # << >> /\ inbound'[g] = Tail(inbound[g])
      /\ outbound[g] \in Seq(Downward) /\ outbound'[g] = Append(outbound[g], Msg("Response", 0))
      /\ Msg("Response", 0) \in Downward /\ Msg("Response", 0).kind = "Response"
      /\ \A h \in Gen : h # g => inbound'[h] = inbound[h] /\ outbound'[h] = outbound[h]
  BY <1>0, Enqueue, Dequeue, MsgTypes DEF QueueTypes, Waits, Taken, Queued
<1>2. /\ Has(inbound[g], "Request") /\ ~ Has(inbound'[g], "Request") /\ Once(inbound'[g], "Request")
      /\ ~ Has(inbound'[g], "Garbled")
      /\ Has(inbound'[g], "Result") = Has(inbound[g], "Result") /\ Once(inbound'[g], "Result")
      /\ AllOf(inbound'[g], "Result", call)
  <2>1. /\ Once(inbound[g], "Request") /\ ~ Has(inbound[g], "Garbled") /\ Once(inbound[g], "Result")
        /\ AllOf(inbound[g], "Result", call)
    BY <1>0 DEF Exchange, Readable, CallOf
  <2>2. Has(inbound[g], "Result") \in BOOLEAN /\ Has(inbound'[g], "Result") \in BOOLEAN
    BY DEF Has
  <2> QED
    BY <1>1, <2>1, <2>2, TailHolds
<1>3. /\ Has(outbound'[g], "Response") /\ Once(outbound'[g], "Response")
      /\ Once(outbound'[g], "Init") /\ Has(outbound'[g], "Init") = Has(outbound[g], "Init")
      /\ Has(outbound'[g], "RunScript") = Has(outbound[g], "RunScript")
      /\ Once(outbound'[g], "RunScript") /\ AllOf(outbound'[g], "RunScript", call)
  <2>1. /\ Once(outbound[g], "Response") /\ ~ Has(outbound[g], "Response")
        /\ Once(outbound[g], "Init") /\ Once(outbound[g], "RunScript")
        /\ AllOf(outbound[g], "RunScript", call)
    BY <1>0, <1>2 DEF Exchange, OpeningOf, CallOf
  <2>2. \A k : Has(outbound[g], k) \in BOOLEAN /\ Has(outbound'[g], k) \in BOOLEAN
    BY DEF Has
  <2> QED
    BY <1>1, <2>1, <2>2, AppendHolds
<1>4. Readable(g)'
  BY <1>0, <1>2 DEF Readable
<1>5. Exchange(g)'
  BY <1>0, <1>2, <1>3 DEF Exchange, InExchange, contentVars
<1>6. OpeningOf(g)'
  <2>1. seen[g] \in Int /\ served \in Int /\ served' = served + 1
    BY <1>0 DEF ProcessTypes, BrokerTypes, OPENING_REQUESTS
  <2>2. host[g] = "None" /\ ~ Has(outbound'[g], "Init") /\ ~ Has(down[g], "Init")
    BY <1>0, <1>3 DEF OpeningOf
  <2>3. reader[g] = "Running" => seen[g] = served'
    BY <1>0, <1>2, <2>1 DEF OpeningOf
  <2> QED
    BY <1>2, <1>3, <2>2, <2>3 DEF OpeningOf, contentVars
<1>7. CallOf(g)'
  BY <1>0, <1>2, <1>3 DEF CallOf, InCall
<1>8. Kept(g)'
  BY <1>4, <1>5, <1>6, <1>7 DEF Kept
<1>9. AnswersMatch'
  BY DEF HonestInv, AnswersMatch
<1> QED
  BY <1>1, <1>8, <1>9, BrokerStays

LEMMA OpenSeedsHonest ==
    ASSUME Base, HonestInv, NEW g \in Gen, g = target, pc = "Opening", served = OPENING_REQUESTS,
           Queued(g, Msg("Init", 0)), pc' = "Adopt",
           UNCHANGED <<honest, cur, target, served, call, answer, outcome, dead, restarts, open,
                       panicked, inbound, reader, seen, writer, child, up, down, contentVars>>
    PROVE  HonestInv'
<1>0. /\ QueueTypes /\ ProcessTypes /\ BrokerTypes
      /\ Readable(g) /\ Exchange(g) /\ OpeningOf(g) /\ CallOf(g)
  BY DEF Base, HonestInv, Kept
<1>1. /\ outbound[g] \in Seq(Downward) /\ outbound'[g] = Append(outbound[g], Msg("Init", 0))
      /\ Msg("Init", 0) \in Downward /\ Msg("Init", 0).kind = "Init"
      /\ \A h \in Gen : h # g => outbound'[h] = outbound[h]
  BY <1>0, Enqueue, MsgTypes DEF QueueTypes, Queued
<1>2. /\ Once(outbound'[g], "Init") /\ Once(outbound'[g], "Response")
      /\ Has(outbound'[g], "Response") = Has(outbound[g], "Response")
      /\ Has(outbound'[g], "RunScript") = Has(outbound[g], "RunScript")
      /\ Once(outbound'[g], "RunScript") /\ AllOf(outbound'[g], "RunScript", call)
  <2>1. /\ ~ Has(outbound[g], "Init") /\ Once(outbound[g], "Response")
        /\ Once(outbound[g], "Init") /\ Once(outbound[g], "RunScript")
        /\ AllOf(outbound[g], "RunScript", call)
    BY <1>0 DEF Exchange, OpeningOf, CallOf
  <2>2. \A k : Has(outbound[g], k) \in BOOLEAN /\ Has(outbound'[g], k) \in BOOLEAN
    BY DEF Has
  <2> QED
    BY <1>1, <2>1, <2>2, AppendHolds
<1>3. Readable(g)'
  BY <1>0 DEF Readable
<1>4. Exchange(g)'
  BY <1>0, <1>2 DEF Exchange, InExchange, contentVars
<1>5. OpeningOf(g)'
  <2>0. ~ (served < OPENING_REQUESTS)
    BY DEF OPENING_REQUESTS
  <2>1. ~ Has(inbound[g], "Request")
    BY <1>0, <2>0 DEF OpeningOf
  <2>2. reader[g] = "Running" => seen[g] = OPENING_REQUESTS
    BY <1>0, <2>1 DEF OpeningOf
  <2> QED
    BY <1>2, <2>1, <2>2 DEF OpeningOf
<1>6. CallOf(g)'
  BY <1>0, <1>2 DEF CallOf, InCall
<1>7. Kept(g)'
  BY <1>3, <1>4, <1>5, <1>6 DEF Kept
<1>8. AnswersMatch'
  BY DEF HonestInv, AnswersMatch
<1> QED
  BY <1>1, <1>7, <1>8, BrokerStays

LEMMA OpeningHonest ==
    ASSUME Base, HonestInv, Opening, UNCHANGED honest
    PROVE  HonestInv'
<1>0. /\ QueueTypes /\ ProcessTypes /\ BrokerTypes /\ LifeInv /\ AnswersMatch
      /\ \A h \in Gen : Kept(h)
  BY DEF Base, HonestInv
<1>1. pc \in {"Opening", "Adopt"} /\ target \in Gen /\ target # cur
  BY <1>0 DEF Opening, OpenServes, OpenStops, OpenSeeds, Adopt, BrokerTypes, LifeInv, Gen
<1>2. \A h \in Gen : ~ InCall(h)
  BY <1>0, <1>1 DEF Kept, CallOf
<1>3. ASSUME pc = "Opening", NEW cause \in DeathCause, OpenFails(cause),
             panicked \subseteq panicked',
             cause \in {"Protocol", "NotDraining"} => target \in panicked'
      PROVE  HonestInv'
  <2>1. AnswersMatch'
    BY <1>0, <1>3 DEF OpenFails, AnswersMatch
  <2> QED
    BY <1>1, <1>3, <2>1, DieHonest DEF OpenFails
<1>4. CASE OpenStops
  BY <1>1, <1>3, <1>4, ReceiveBlameless DEF OpenStops
<1>5. CASE OpenServes
  <2>1. CASE SendResult(target) # "Sent" /\ OpenFails(SendResult(target)) /\ UNCHANGED panicked
    BY <1>1, <1>2, <1>3, <1>5, <2>1, RoomToSend DEF OpenServes
  <2>2. CASE OpenFails("Protocol") /\ panicked' = panicked \cup {target}
    BY <1>3, <1>5, <2>2 DEF OpenServes, DeathCause
  <2>3. CASE /\ SendResult(target) = "Sent"
             /\ Taken(target)
             /\ Queued(target, Msg("Response", 0))
             /\ served' = served + 1
             /\ UNCHANGED <<pc, cur, target, call, answer, outcome, dead, restarts, open, panicked,
                            reader, seen, writer, child, up, down, contentVars>>
    BY <1>1, <1>5, <2>3, OpenServesHonest DEF OpenServes
  <2> QED
    BY <1>5, <2>1, <2>2, <2>3 DEF OpenServes
<1>6. CASE OpenSeeds
  <2>1. CASE SendResult(target) # "Sent" /\ OpenFails(SendResult(target))
    BY <1>1, <1>2, <1>3, <1>6, <2>1, RoomToSend DEF OpenSeeds
  <2>2. CASE /\ SendResult(target) = "Sent"
             /\ Queued(target, Msg("Init", 0))
             /\ pc' = "Adopt"
             /\ UNCHANGED <<cur, target, served, call, answer, outcome, dead, restarts, open,
                            inbound, reader, seen, writer, child, up, down, contentVars>>
    BY <1>1, <1>6, <2>2, OpenSeedsHonest DEF OpenSeeds
  <2> QED
    BY <1>6, <2>1, <2>2 DEF OpenSeeds
<1>7. CASE Adopt
  <2>1. AnswersMatch' /\ pc = "Adopt" /\ pc' = "Idle"
    BY <1>0, <1>7 DEF Adopt, AnswersMatch
  <2>2. CASE cur # 0
    <3>1. cur \in Gen /\ "Killed" \in DeathCause \ {"Protocol", "NotDraining"}
      BY <1>0, <2>2 DEF BrokerTypes, Gen, DeathCause
    <3> QED
      BY <1>7, <2>1, <2>2, <3>1, DieHonest DEF Adopt
  <2>3. CASE cur = 0
    <3>1. UNCHANGED <<dead, panicked, reader, seen, child, up, down, contentVars, inbound, outbound>>
      BY <1>7, <2>3 DEF Adopt, Lives
    <3> PICK g \in Gen : g = target
      BY <1>1
    <3>2. SameProcess(g)
      BY <3>1 DEF SameProcess, contentVars
    <3>3. Over(g) => Over(g)'
      BY <2>1, <3>1 DEF Over
    <3>4. Kept(g)'
      BY <1>0, <1>1, <1>2, <2>1, <3>2, <3>3, ApartKept
    <3> QED
      BY <1>1, <2>1, <3>1, <3>4, BrokerStays
  <2> QED
    BY <2>2, <2>3
<1> QED
  BY <1>4, <1>5, <1>6, <1>7 DEF Opening

(* What waits in the queue of a session that stands, and runs no script,   *)
(* is the news of its end.                                                 *)
LEMMA OnlyNews ==
    ASSUME Base, HonestInv, cur # 0, dead[cur] = None, pc \in {"Idle", "Extra"}, Waits(cur)
    PROVE  Head(inbound[cur]).kind \in {"Terminated", "PeerClosed"}
<1>0. BrokerTypes /\ LifeInv
  BY DEF Base
<1>1. cur \in Gen /\ ~ Over(cur)
  BY <1>0 DEF BrokerTypes, LifeInv, Gen, Over
<1>2. Kept(cur)
  BY <1>1 DEF HonestInv
<1>3. ~ Has(inbound[cur], "Request") /\ ~ Has(inbound[cur], "Garbled") /\ ~ Has(inbound[cur], "Result")
  BY <1>1, <1>2 DEF Kept, Readable, OpeningOf, CallOf, InCall
<1>4. Has(inbound[cur], Head(inbound[cur]).kind) /\ Head(inbound[cur]) \in Upward
  BY <1>1, HeadHolds DEF Waits
<1>5. Head(inbound[cur]).kind \in {"Request", "Result", "Terminated", "Garbled", "PeerClosed"}
  BY <1>4 DEF Upward
<1> QED
  BY <1>3, <1>4, <1>5

(* A step of a call that leaves its session without a message in flight.   *)
LEMMA NothingInFlight ==
    ASSUME Base, HonestInv, NEW g \in Gen, g = cur, dead[g] = None,
           pc \in {"Idle", "Send", "Waiting", "Extra"}, pc' \in {"Idle", "Send", "Extra"},
           ~ InCall(g)', Lives, UNCHANGED <<cur, target, reader, seen, outbound>>,
           \/ inbound'[g] = inbound[g]
           \/ inbound[g] # << >> /\ inbound'[g] = Tail(inbound[g])
    PROVE  Kept(g)'
<1>0. /\ QueueTypes /\ LifeInv /\ Readable(g) /\ Exchange(g) /\ OpeningOf(g) /\ CallOf(g)
  BY DEF Base, HonestInv, Kept
<1>1. inbound[g] \in Seq(Upward) /\ ~ Over(g) /\ ~ Over(g)'
  BY <1>0 DEF QueueTypes, LifeInv, Over, Lives, Gen
<1>2. ~ Has(inbound[g], "Garbled") /\ ~ Has(inbound[g], "Request") /\ Once(inbound[g], "Request")
      /\ Once(inbound[g], "Result")
  BY <1>0, <1>1 DEF Readable, OpeningOf, Exchange, CallOf
<1>3. ~ Has(inbound'[g], "Garbled") /\ ~ Has(inbound'[g], "Request") /\ Once(inbound'[g], "Request")
      /\ Once(inbound'[g], "Result")
  BY <1>1, <1>2, TailHolds
<1>4. Readable(g)'
  BY <1>0, <1>3 DEF Readable, Lives
<1>5. Exchange(g)'
  BY <1>0, <1>2, <1>3 DEF Exchange, InExchange, Lives, contentVars
<1>6. OpeningOf(g)'
  BY <1>0, <1>1, <1>3 DEF OpeningOf, Lives, contentVars
<1>7. CallOf(g)'
  BY <1>0, <1>3, NoneOf DEF CallOf, InCall, Lives
<1> QED
  BY <1>4, <1>5, <1>6, <1>7 DEF Kept

LEMMA RunScriptHonest ==
    ASSUME Base, HonestInv, RunScript, UNCHANGED honest
    PROVE  HonestInv'
<1>0. /\ QueueTypes /\ ProcessTypes /\ BrokerTypes /\ LifeInv /\ AnswersMatch
      /\ \A h \in Gen : Kept(h)
  BY DEF Base, HonestInv
<1>1. pc = "Idle" /\ cur \in Gen /\ target = 0 /\ UNCHANGED <<cur, target, panicked, reader, seen, writer>>
  BY <1>0 DEF RunScript, BrokerTypes, LifeInv, Gen
<1>2. \A h \in Gen : ~ InCall(h)
  BY <1>0, <1>1 DEF Kept, CallOf
<1>3. \A k, n : Returns(k, n) /\ k # "Result" => AnswersMatch' /\ pc' = "Idle"
  BY DEF Returns, AnswersMatch
<1>4. CASE Lives /\ UNCHANGED <<inbound, outbound>> /\ pc' \in {"Idle", "Send"} /\ AnswersMatch'
  <2>1. UNCHANGED <<dead, child, up, down, contentVars>>
    BY <1>4 DEF Lives
  <2>2. ASSUME NEW h \in Gen
        PROVE  Kept(h)'
    <3>1. SameProcess(h)
      BY <1>1, <1>4, <2>1 DEF SameProcess, contentVars
    <3>2. Over(h) => Over(h)'
      BY <1>1, <1>4, <2>1 DEF Over
    <3> QED
      BY <1>0, <1>1, <1>2, <1>4, <3>1, <3>2, ApartKept
  <2> QED
    BY <1>1, <1>4, <2>1, <2>2, BrokerStays
<1>5. CASE /\ dead[cur] = None /\ Waits(cur)
           /\ Head(inbound[cur]).kind \notin {"Terminated", "PeerClosed"}
  BY <1>1, <1>5, OnlyNews DEF Gen
<1>6. CASE Die(cur, "ScriptTerminated") /\ Returns("Terminated", 0)
  <2>1. "ScriptTerminated" \in DeathCause \ {"Protocol", "NotDraining"}
    BY DEF DeathCause
  <2> QED
    BY <1>1, <1>3, <1>6, <2>1, DieHonest
<1>7. CASE Fail("PeerClosed")
  <2>1. "PeerClosed" \in DeathCause \ {"Protocol", "NotDraining"}
    BY DEF DeathCause
  <2> QED
    BY <1>1, <1>3, <1>7, <2>1, DieHonest DEF Fail
<1>8. CASE /\ Lives /\ UNCHANGED <<inbound, outbound>>
           /\ \/ Returns("ProcessDied", 0) \/ Returns("Rejected", 0)
              \/ pc' = "Send" /\ UNCHANGED outcome
  <2>1. UNCHANGED outcome => AnswersMatch'
    BY <1>0 DEF AnswersMatch
  <2> QED
    BY <1>3, <1>4, <1>8, <2>1
<1> QED
  BY <1>5, <1>6, <1>7, <1>8 DEF RunScript

LEMMA SendHonest ==
    ASSUME Base, HonestInv, NEW g \in Gen, g = cur, pc = "Send", pc' = "Waiting",
           Queued(g, Msg("RunScript", call)), Lives,
           UNCHANGED <<honest, cur, target, call, answer, outcome, panicked, inbound, reader, seen>>
    PROVE  HonestInv'
<1>0. /\ QueueTypes /\ ProcessTypes /\ BrokerTypes /\ LifeInv
      /\ Readable(g) /\ Exchange(g) /\ OpeningOf(g) /\ CallOf(g)
  BY DEF Base, HonestInv, Kept
<1>1. /\ outbound[g] \in Seq(Downward) /\ outbound'[g] = Append(outbound[g], Msg("RunScript", call))
      /\ Msg("RunScript", call) \in Downward /\ Msg("RunScript", call).kind = "RunScript"
      /\ Msg("RunScript", call).of = call
      /\ \A h \in Gen : h # g => outbound'[h] = outbound[h]
  BY <1>0, Enqueue, MsgTypes DEF QueueTypes, BrokerTypes, Queued
<1>2. ~ InCall(g)
  BY <1>0 DEF CallOf
<1>3. /\ Once(outbound'[g], "Init") /\ Once(outbound'[g], "Response")
      /\ Has(outbound'[g], "Response") = Has(outbound[g], "Response")
      /\ Has(outbound'[g], "RunScript")
      /\ Once(outbound'[g], "RunScript") /\ AllOf(outbound'[g], "RunScript", call)
  <2>1. /\ ~ Has(outbound[g], "RunScript") /\ Once(outbound[g], "Response")
        /\ Once(outbound[g], "Init") /\ Once(outbound[g], "RunScript")
        /\ AllOf(outbound[g], "RunScript", call)
    BY <1>0, <1>2 DEF Exchange, OpeningOf, CallOf, InCall
  <2>2. \A k : Has(outbound[g], k) \in BOOLEAN /\ Has(outbound'[g], k) \in BOOLEAN
    BY DEF Has
  <2> QED
    BY <1>1, <2>1, <2>2, AppendHolds
<1>4. Readable(g)'
  BY <1>0 DEF Readable, Lives
<1>5. Exchange(g)'
  BY <1>0, <1>3 DEF Exchange, InExchange, Lives, contentVars
<1>6. OpeningOf(g)'
  <2>1. ~ Over(g)
    BY <1>0 DEF LifeInv, Over, Gen
  <2> QED
    BY <1>0, <1>3, <2>1 DEF OpeningOf
<1>7. CallOf(g)'
  BY <1>0, <1>2, <1>3 DEF CallOf, InCall, Lives
<1>8. Kept(g)'
  BY <1>4, <1>5, <1>6, <1>7 DEF Kept
<1>9. AnswersMatch'
  BY DEF HonestInv, AnswersMatch
<1> QED
  BY <1>1, <1>8, <1>9, BrokerStays DEF Lives

LEMMA CallingHonest ==
    ASSUME Base, HonestInv, Calling, UNCHANGED honest
    PROVE  HonestInv'
<1>0. /\ QueueTypes /\ ProcessTypes /\ BrokerTypes /\ LifeInv /\ AnswersMatch
      /\ \A h \in Gen : Kept(h)
  BY DEF Base, HonestInv
<1>1. /\ UNCHANGED <<call, cur, target, served, restarts, panicked, reader, seen, writer>>
      /\ pc \in {"Send", "Waiting", "Extra"}
  BY DEF Calling, SendRequest, Receive, CheckExtra
<1> PICK g \in Gen : g = cur
  BY <1>0, <1>1 DEF LifeInv, BrokerTypes, Gen
<1>2. dead[g] = None
  BY <1>0, <1>1 DEF LifeInv
<1>3. \A k, n : Returns(k, n) /\ k # "Result" => AnswersMatch' /\ pc' = "Idle"
  BY DEF Returns, AnswersMatch
<1>4. ASSUME NEW cause \in DeathCause \ {"Protocol", "NotDraining"}, Die(g, cause), AnswersMatch',
             pc' = "Idle"
      PROVE  HonestInv'
  BY <1>1, <1>4, DieHonest
<1>5. ASSUME NEW cause \in DeathCause \ {"Protocol", "NotDraining"}, Fail(cause)
      PROVE  HonestInv'
  BY <1>3, <1>4, <1>5 DEF Fail
<1>6. ASSUME ~ InCall(g)', pc' \in {"Idle", "Extra"}, Lives, UNCHANGED outbound,
             \/ UNCHANGED inbound
             \/ Waits(g) /\ Taken(g),
             AnswersMatch', pc' = "Extra" => answer' = call'
      PROVE  HonestInv'
  <2>1. /\ inbound'[g] = inbound[g] \/ (inbound[g] # << >> /\ inbound'[g] = Tail(inbound[g]))
        /\ \A h \in Gen : h # g => inbound'[h] = inbound[h] /\ outbound'[h] = outbound[h]
    BY <1>0, <1>6 DEF Waits, Taken, QueueTypes
  <2>2. Kept(g)'
    BY <1>1, <1>2, <1>6, <2>1, NothingInFlight
  <2>3. target = 0 /\ pc' # "Opening"
    BY <1>0, <1>1, <1>6 DEF LifeInv
  <2> QED
    BY <1>1, <1>6, <2>1, <2>2, BrokerStays DEF Lives
<1>7. CASE SendRequest
  <2>1. ~ InCall(g)
    BY <1>0, <1>7 DEF Kept, CallOf, SendRequest
  <2>2. CASE SendResult(g) # "Sent" /\ Fail(SendResult(g))
    BY <1>5, <2>1, <2>2, RoomToSend
  <2>3. CASE /\ Queued(g, Msg("RunScript", call)) /\ pc' = "Waiting"
             /\ Lives /\ UNCHANGED <<inbound, outcome>>
    BY <1>1, <1>7, <2>3, SendHonest DEF SendRequest
  <2> QED
    BY <1>7, <2>2, <2>3 DEF SendRequest
<1>8. CASE Receive
  <2>1. CASE /\ Waits(g) /\ Head(inbound[g]).kind = "Result"
             /\ answer' = Head(inbound[g]).of
             /\ Taken(g)
             /\ pc' = "Extra"
             /\ Lives /\ UNCHANGED <<outbound, outcome>>
    <3>1. CallOf(g) /\ inbound[g] \in Seq(Upward) /\ inbound[g] # << >> /\ inbound'[g] = Tail(inbound[g])
      BY <1>0, <2>1 DEF Kept, QueueTypes, Waits, Taken
    <3>2. Once(inbound[g], "Result") /\ AllOf(inbound[g], "Result", call)
      BY <3>1 DEF CallOf
    <3>3. Has(inbound[g], "Result") /\ ~ Has(inbound'[g], "Result") /\ answer' = call
      BY <2>1, <3>1, <3>2, TailHolds
    <3>4. ~ InCall(g)'
      BY <2>1, <3>1, <3>3 DEF CallOf, InCall, Lives
    <3>5. AnswersMatch'
      BY <1>0, <2>1 DEF AnswersMatch
    <3> QED
      BY <1>1, <1>6, <2>1, <3>3, <3>4, <3>5
  <2>2. CASE Die(g, "ScriptTerminated") /\ Returns("Terminated", 0)
    <3>1. "ScriptTerminated" \in DeathCause \ {"Protocol", "NotDraining"}
      BY DEF DeathCause
    <3> QED
      BY <1>3, <1>4, <2>2, <3>1
  <2>3. CASE \E cause \in DeathCause : ReceiveFails(g, cause) /\ Fail(cause)
    BY <1>5, <2>3, ReceiveBlameless
  <2> QED
    BY <1>8, <2>1, <2>2, <2>3 DEF Receive
<1>9. CASE CheckExtra
  <2>1. answer = call /\ ~ InCall(g) /\ pc = "Extra"
    BY <1>0, <1>9 DEF HonestInv, Kept, CallOf, CheckExtra
  <2>2. Returns("Result", answer) => AnswersMatch' /\ pc' = "Idle"
    BY <1>1, <2>1 DEF Returns, AnswersMatch
  <2>3. CASE Waits(g) /\ Head(inbound[g]).kind \notin {"Terminated", "PeerClosed"}
    BY <1>2, <2>1, <2>3, OnlyNews DEF Gen
  <2>4. CASE /\ UNCHANGED inbound \/ (Waits(g) /\ Taken(g))
             /\ Returns("Result", answer) /\ Lives /\ UNCHANGED outbound
    <3>1. Has(inbound'[g], "Result") => Has(inbound[g], "Result")
      <4>1. /\ inbound[g] \in Seq(Upward)
            /\ \/ inbound'[g] = inbound[g]
               \/ inbound[g] # << >> /\ inbound'[g] = Tail(inbound[g])
        BY <1>0, <2>4 DEF QueueTypes, Waits, Taken
      <4> QED
        BY <4>1, TailHolds
    <3>2. ~ InCall(g)'
      BY <2>1, <2>4, <3>1 DEF InCall, Lives
    <3> QED
      BY <1>6, <2>2, <2>4, <3>2
  <2> QED
    BY <1>9, <2>3, <2>4 DEF CheckExtra
<1> QED
  BY <1>7, <1>8, <1>9 DEF Calling

LEMMA KillHonest ==
    ASSUME Base, HonestInv, Kill \/ DropSession, UNCHANGED honest
    PROVE  HonestInv'
<1>0. /\ QueueTypes /\ ProcessTypes /\ BrokerTypes /\ AnswersMatch /\ HonestIsNotBlamed
      /\ \A h \in Gen : Kept(h)
  BY DEF Base, HonestInv
<1>1. /\ cur \in Gen /\ pc = "Idle"
      /\ UNCHANGED <<cur, outcome, panicked, reader, seen, writer, call, answer>>
  BY <1>0 DEF Kill, DropSession, BrokerTypes, Gen
<1>2. AnswersMatch'
  BY <1>0, <1>1 DEF AnswersMatch
<1>3. CASE Kill
  <2>1. "Killed" \in DeathCause \ {"Protocol", "NotDraining"}
    BY DEF DeathCause
  <2> QED
    BY <1>1, <1>2, <1>3, <2>1, DieHonest DEF Kill
<1>4. CASE DropSession
  <2> PICK g \in Gen : g = cur
    BY <1>1
  <2>1. Emptied(g)
    BY <1>0, <1>4 DEF Emptied, DropSession, Killed, QueueTypes, ProcessTypes
  <2>2. \A h \in Gen : h # g => SameProcess(h)
    BY <1>0, <1>4 DEF SameProcess, DropSession, Killed, QueueTypes, ProcessTypes
  <2>3. Over(g)' /\ \A h \in Gen : h # g => (Over(h) => Over(h)')
    BY <1>1, <1>4, <2>2 DEF Over, DropSession, SameProcess
  <2>4. pc' = "Dropped"
    BY <1>4 DEF DropSession
  <2>5. \A h \in Gen : Kept(h)'
    BY <1>0, <1>1, <2>1, <2>2, <2>3, <2>4, SessionEnds
  <2>6. HonestIsNotBlamed'
    BY <1>0, <1>1, <1>4 DEF HonestIsNotBlamed, DropSession
  <2> QED
    BY <1>2, <2>4, <2>5, <2>6 DEF HonestInv
<1> QED
  BY <1>3, <1>4

(* The threads and the process leave the broker's state, and the other     *)
(* processes, alone.                                                       *)
LEMMA BesideHonest ==
    ASSUME Base, HonestInv, UNCHANGED <<brokerVars, honest>>, NEW g \in Gen, Kept(g)',
           \A h \in Gen : h # g => SameProcess(h)
    PROVE  HonestInv'
<1>0. \A h \in Gen : Kept(h)
  BY DEF HonestInv
<1>1. ASSUME NEW h \in Gen, h # g
      PROVE  Kept(h)'
  <2>1. SameProcess(h)
    BY <1>1
  <2>2. Over(h) => Over(h)'
    BY <2>1 DEF Over, brokerVars, SameProcess
  <2>3. InCall(h) => h = cur /\ pc = "Waiting"
    BY <1>0 DEF Kept, CallOf
  <2> QED
    BY <1>0, <2>1, <2>2, <2>3, ApartKept DEF brokerVars
<1>2. HonestIsNotBlamed' /\ AnswersMatch'
  BY DEF HonestInv, HonestIsNotBlamed, AnswersMatch, brokerVars
<1> QED
  BY <1>1, <1>2 DEF HonestInv, brokerVars

LEMMA ReaderForwardsHonest ==
    ASSUME Base, HonestInv, NEW g \in Gen, ReaderForwards(g), UNCHANGED honest
    PROVE  HonestInv'
<1>0. /\ QueueTypes /\ ProcessTypes /\ BrokerTypes /\ LifeInv /\ ClearedInv
      /\ Readable(g) /\ Exchange(g) /\ OpeningOf(g) /\ CallOf(g)
  BY DEF Base, HonestInv, Kept
<1> DEFINE m == Head(up[g])
<1>1. /\ up[g] \in Seq(Upward) /\ up[g] # << >> /\ inbound[g] \in Seq(Upward)
      /\ reader[g] = "Running" /\ up' = [up EXCEPT ![g] = Tail(@)] /\ up'[g] = Tail(up[g])
      /\ seen[g] \in 0 .. OPENING_REQUESTS
  BY <1>0 DEF ReaderForwards, QueueTypes, ProcessTypes
<1>2. /\ m \in Upward /\ Has(up[g], m.kind) /\ Len(up'[g]) = Len(up[g]) - 1
      /\ up'[g] \in Seq(Upward)
      /\ \A k : Has(up[g], k) <=> m.kind = k \/ Has(up'[g], k)
      /\ \A k : Once(up[g], k) => Once(up'[g], k) /\ (m.kind = k => ~ Has(up'[g], k))
      /\ \A k, n : AllOf(up[g], k, n) => AllOf(up'[g], k, n) /\ (m.kind = k => m.of = n)
  <2> DEFINE q == up[g]
  <2>1. q \in Seq(Upward) /\ q # << >> /\ up'[g] = Tail(q) /\ m = Head(q)
    BY <1>1
  <2> HIDE DEF q, m
  <2>2. /\ m \in Upward /\ Len(up'[g]) = Len(q) - 1 /\ up'[g] \in Seq(Upward)
        /\ \A k : Has(q, k) <=> m.kind = k \/ Has(up'[g], k)
        /\ \A k : Once(q, k) => Once(up'[g], k) /\ (m.kind = k => ~ Has(up'[g], k))
        /\ \A k, n : AllOf(q, k, n) => AllOf(up'[g], k, n) /\ (m.kind = k => m.of = n)
    BY <2>1, TailHolds
  <2>3. Has(q, m.kind)
    BY <2>2
  <2> QED
    BY <2>2, <2>3 DEF q
<1>3. m.kind # "Garbled" /\ m.kind # "PeerClosed"
  BY <1>0, <1>2 DEF Readable
<1>4. \/ seen[g] < OPENING_REQUESTS /\ m.kind = "Request" /\ up'[g] = << >>
      \/ seen[g] = OPENING_REQUESTS /\ m.kind # "Request" /\ ~ Has(up[g], "Request")
  <2>1. CASE seen[g] < OPENING_REQUESTS /\ Len(up[g]) = 1 /\ Has(up[g], "Request")
    <3>1. up'[g] = << >>
      BY <1>2, <2>1
    <3> QED
      BY <1>2, <2>1, <3>1, EmptyQueue
  <2>2. CASE seen[g] = OPENING_REQUESTS /\ ~ Has(up[g], "Request")
    BY <1>2, <2>2
  <2> QED
    BY <1>0, <1>1, <2>1, <2>2 DEF Readable
<1>5. Decoded(g, m) = m
  BY <1>4 DEF Decoded, OPENING_REQUESTS
<1>6. /\ inbound'[g] = Append(inbound[g], m)
      /\ reader'[g] = "Running"
      /\ seen'[g] = IF seen[g] < OPENING_REQUESTS THEN seen[g] + 1 ELSE seen[g]
  BY <1>0, <1>1, <1>3, <1>5 DEF ReaderForwards, QueueTypes, ProcessTypes
<1>7. /\ \A k : Has(inbound'[g], k) <=> Has(inbound[g], k) \/ m.kind = k
      /\ \A k : Once(inbound[g], k) /\ (m.kind = k => ~ Has(inbound[g], k)) => Once(inbound'[g], k)
      /\ \A k, n : AllOf(inbound[g], k, n) /\ (m.kind = k => m.of = n) => AllOf(inbound'[g], k, n)
  BY <1>1, <1>2, <1>6, AppendHolds
<1>8. ~ Over(g)
  BY <1>0, <1>1 DEF ClearedInv
<1>9. UNCHANGED <<brokerVars, outbound, writer, child, down, contentVars>>
  BY DEF ReaderForwards
<1>10. \A h \in Gen : h # g => SameProcess(h)
  BY <1>0, <1>9 DEF SameProcess, ReaderForwards, QueueTypes, ProcessTypes, contentVars
<1> HIDE DEF m
<1>11. Readable(g)'
  <2>1. ~ Has(inbound'[g], "Garbled") /\ ~ Has(up'[g], "Garbled") /\ ~ Has(up'[g], "PeerClosed")
    BY <1>0, <1>2, <1>3, <1>7 DEF Readable
  <2>2. CASE seen[g] < OPENING_REQUESTS /\ up'[g] = << >>
    <3>1. seen'[g] < OPENING_REQUESTS \/ seen'[g] = OPENING_REQUESTS
      BY <1>1, <1>6, <2>2 DEF OPENING_REQUESTS
    <3> QED
      BY <1>6, <2>1, <2>2, <3>1, EmptyQueue DEF Readable
  <2>3. CASE seen[g] = OPENING_REQUESTS /\ ~ Has(up[g], "Request")
    <3>1. seen'[g] = OPENING_REQUESTS
      BY <1>6, <2>3 DEF OPENING_REQUESTS
    <3> QED
      BY <1>2, <1>6, <2>1, <2>3, <3>1 DEF Readable
  <2> QED
    BY <1>4, <2>2, <2>3
<1>12. Exchange(g)'
  <2>1. CASE seen[g] < OPENING_REQUESTS /\ m.kind = "Request" /\ up'[g] = << >>
    <3>1. ~ Has(up'[g], "Request") /\ Has(up[g], "Request") /\ ~ Has(inbound[g], "Request")
      BY <1>0, <1>2, <2>1, EmptyQueue DEF Exchange
    <3>2. Has(inbound'[g], "Request") /\ Once(inbound'[g], "Request")
      BY <1>0, <1>7, <2>1, <3>1 DEF Exchange
    <3>3. seen'[g] = seen[g] + 1
      BY <1>6, <2>1
    <3> QED
      BY <1>0, <1>9, <3>1, <3>2, <3>3 DEF Exchange, InExchange, contentVars
  <2>2. CASE seen[g] = OPENING_REQUESTS /\ m.kind # "Request" /\ ~ Has(up[g], "Request")
    <3>1. ~ Has(up'[g], "Request")
      BY <1>2, <2>2
    <3>2. (Has(inbound'[g], "Request") <=> Has(inbound[g], "Request")) /\ Once(inbound'[g], "Request")
      BY <1>0, <1>7, <2>2 DEF Exchange
    <3>3. seen'[g] = seen[g]
      BY <1>6, <2>2 DEF OPENING_REQUESTS
    <3> QED
      BY <1>0, <1>9, <2>2, <3>1, <3>2, <3>3 DEF Exchange, InExchange, contentVars
  <2> QED
    BY <1>4, <2>1, <2>2
<1>13. OpeningOf(g)'
  <2>0. Over(g)' = Over(g) /\ pc' = pc /\ target' = target /\ served' = served
    BY <1>9 DEF Over, brokerVars
  <2>1. CASE seen[g] < OPENING_REQUESTS /\ m.kind = "Request" /\ up'[g] = << >>
    <3>1. ~ Has(inbound[g], "Request") /\ Has(inbound'[g], "Request")
      BY <1>0, <1>2, <1>7, <2>1 DEF Exchange
    <3>2. pc = "Opening" /\ g = target
      BY <1>0, <1>1, <1>8, <2>1 DEF OpeningOf, OPENING_REQUESTS
    <3>3. seen[g] = served /\ seen'[g] = served + 1
      BY <1>0, <1>1, <1>6, <2>1, <3>1, <3>2 DEF OpeningOf
    <3> QED
      BY <1>0, <1>9, <2>0, <2>1, <3>1, <3>2, <3>3 DEF OpeningOf, contentVars
  <2>2. CASE seen[g] = OPENING_REQUESTS /\ m.kind # "Request"
    <3>1. Has(inbound'[g], "Request") <=> Has(inbound[g], "Request")
      BY <1>7, <2>2
    <3>2. seen'[g] = seen[g]
      BY <1>6, <2>2 DEF OPENING_REQUESTS
    <3> QED
      BY <1>0, <1>1, <1>6, <1>9, <2>0, <3>1, <3>2 DEF OpeningOf, contentVars
  <2> QED
    BY <1>4, <2>1, <2>2
<1>14. CallOf(g)'
  <2>1. /\ Once(up'[g], "Result") /\ (m.kind = "Result" => ~ Has(up'[g], "Result"))
        /\ AllOf(up'[g], "Result", call) /\ (m.kind = "Result" => m.of = call)
    BY <1>0, <1>2 DEF CallOf
  <2>2. m.kind = "Result" => ~ Has(inbound[g], "Result")
    BY <1>0, <1>2 DEF CallOf
  <2>3. Once(inbound'[g], "Result") /\ AllOf(inbound'[g], "Result", call)
    BY <1>0, <1>7, <2>1, <2>2 DEF CallOf
  <2>4. /\ Has(inbound'[g], "Result") <=> Has(inbound[g], "Result") \/ m.kind = "Result"
        /\ Has(up[g], "Result") <=> Has(up'[g], "Result") \/ m.kind = "Result"
    BY <1>2, <1>7
  <2> QED
    BY <1>0, <1>9, <2>1, <2>3, <2>4 DEF CallOf, InCall, brokerVars
<1> QED
  BY <1>9, <1>10, <1>11, <1>12, <1>13, <1>14, BesideHonest DEF Kept

LEMMA ReaderStopsHonest ==
    ASSUME Base, HonestInv, NEW g \in Gen, ReaderEnds(g) \/ ReaderReleased(g), UNCHANGED honest
    PROVE  HonestInv'
<1>0. /\ QueueTypes /\ ProcessTypes /\ NothingOutlivesItsSession
      /\ Readable(g) /\ Exchange(g) /\ OpeningOf(g) /\ CallOf(g)
  BY DEF Base, HonestInv, Kept
<1>1. /\ UNCHANGED <<brokerVars, outbound, writer, child, up, down, contentVars>>
      /\ reader'[g] = "Exited" /\ seen'[g] = 0
      /\ \A h \in Gen : h # g => reader'[h] = reader[h] /\ seen'[h] = seen[h]
  BY <1>0 DEF ReaderEnds, ReaderReleased, ProcessTypes
<1>2. child[g] # "Running"
  BY <1>0 DEF ReaderEnds, ReaderReleased, QueuesGone, NothingOutlivesItsSession, Standing
<1>3. inbound'[g] = inbound[g] \/ inbound'[g] = Append(inbound[g], Msg("PeerClosed", 0))
  BY <1>0 DEF ReaderEnds, ReaderReleased, QueueTypes
<1>4. \A h \in Gen : h # g => SameProcess(h)
  BY <1>0, <1>1 DEF SameProcess, ReaderEnds, ReaderReleased, QueueTypes, contentVars
<1>5. inbound[g] \in Seq(Upward) /\ Msg("PeerClosed", 0) \in Upward /\ Msg("PeerClosed", 0).kind = "PeerClosed"
  BY <1>0, MsgTypes DEF QueueTypes
<1>6. /\ \A k : k # "PeerClosed" => (Has(inbound'[g], k) <=> Has(inbound[g], k))
      /\ \A k : k # "PeerClosed" /\ Once(inbound[g], k) => Once(inbound'[g], k)
      /\ \A k, n : k # "PeerClosed" /\ AllOf(inbound[g], k, n) => AllOf(inbound'[g], k, n)
  <2>1. CASE inbound'[g] = inbound[g]
    BY <2>1
  <2>2. CASE inbound'[g] = Append(inbound[g], Msg("PeerClosed", 0))
    BY <1>5, <2>2, AppendHolds
  <2> QED
    BY <1>3, <2>1, <2>2
<1>7. Readable(g)'
  BY <1>0, <1>1, <1>2, <1>6 DEF Readable
<1>8. Exchange(g)'
  BY <1>0, <1>1, <1>2, <1>6 DEF Exchange
<1>9. OpeningOf(g)'
  BY <1>0, <1>1, <1>6 DEF OpeningOf, Over, brokerVars, contentVars
<1>10. CallOf(g)'
  BY <1>0, <1>1, <1>6 DEF CallOf, InCall, brokerVars
<1> QED
  BY <1>1, <1>4, <1>7, <1>8, <1>9, <1>10, BesideHonest DEF Kept

LEMMA WriterForwardsHonest ==
    ASSUME Base, HonestInv, NEW g \in Gen, WriterForwards(g), UNCHANGED honest
    PROVE  HonestInv'
<1>0. /\ QueueTypes
      /\ Readable(g) /\ Exchange(g) /\ OpeningOf(g) /\ CallOf(g)
  BY DEF Base, HonestInv, Kept
<1> DEFINE m == Head(outbound[g])
<1>1. UNCHANGED <<brokerVars, inbound, reader, seen, writer, child, up, contentVars>>
  BY DEF WriterForwards
<1>2. \A h \in Gen : h # g => SameProcess(h)
  BY <1>0, <1>1 DEF SameProcess, WriterForwards, QueueTypes, contentVars
<1>3. /\ m \in Downward
      /\ \A k : Has(outbound[g], k) <=> m.kind = k \/ Has(outbound'[g], k)
      /\ \A k : Once(outbound[g], k) => Once(outbound'[g], k) /\ (m.kind = k => ~ Has(outbound'[g], k))
      /\ \A k, n : AllOf(outbound[g], k, n) => AllOf(outbound'[g], k, n) /\ (m.kind = k => m.of = n)
  <2> DEFINE q == outbound[g]
  <2>1. q \in Seq(Downward) /\ q # << >> /\ outbound'[g] = Tail(q) /\ m = Head(q)
    BY <1>0 DEF QueueTypes, WriterForwards
  <2> HIDE DEF q, m
  <2>2. /\ m \in Downward
        /\ \A k : Has(q, k) <=> m.kind = k \/ Has(outbound'[g], k)
        /\ \A k : Once(q, k) => Once(outbound'[g], k) /\ (m.kind = k => ~ Has(outbound'[g], k))
        /\ \A k, n : AllOf(q, k, n) => AllOf(outbound'[g], k, n) /\ (m.kind = k => m.of = n)
    BY <2>1, TailHolds
  <2> QED
    BY <2>2 DEF q
<1>4. /\ \A k : Has(down'[g], k) <=> Has(down[g], k) \/ m.kind = k
      /\ \A k : Once(down[g], k) /\ (m.kind = k => ~ Has(down[g], k)) => Once(down'[g], k)
      /\ \A k, n : AllOf(down[g], k, n) /\ (m.kind = k => m.of = n) => AllOf(down'[g], k, n)
  <2>1. down[g] \in Seq(Downward) /\ down'[g] = Append(down[g], m)
    BY <1>0 DEF QueueTypes, WriterForwards
  <2> HIDE DEF m
  <2> QED
    BY <1>3, <2>1, AppendHolds
<1> HIDE DEF m
<1>5. Readable(g)'
  BY <1>0, <1>1 DEF Readable
<1>6. Exchange(g)'
  <2>1. m.kind = "Response" => ~ Has(down[g], "Response") /\ ~ Has(outbound'[g], "Response")
    BY <1>0, <1>3 DEF Exchange
  <2>2. Once(outbound'[g], "Response") /\ Once(down'[g], "Response")
    BY <1>0, <1>3, <1>4, <2>1 DEF Exchange
  <2>3. /\ Has(outbound[g], "Response") <=> m.kind = "Response" \/ Has(outbound'[g], "Response")
        /\ Has(down'[g], "Response") <=> m.kind = "Response" \/ Has(down[g], "Response")
    BY <1>3, <1>4
  <2> QED
    BY <1>0, <1>1, <2>1, <2>2, <2>3 DEF Exchange, InExchange, contentVars
<1>7. OpeningOf(g)'
  <2>1. Once(outbound'[g], "Init")
    BY <1>0, <1>3 DEF OpeningOf
  <2>2. pc = "Opening" /\ g = target => ~ Has(outbound'[g], "Init") /\ ~ Has(down'[g], "Init")
    BY <1>0, <1>3, <1>4 DEF OpeningOf
  <2> QED
    BY <1>0, <1>1, <2>1, <2>2 DEF OpeningOf, Over, brokerVars, contentVars
<1>8. CallOf(g)'
  <2>1. /\ Once(outbound[g], "RunScript") /\ AllOf(outbound[g], "RunScript", call)
        /\ Once(down[g], "RunScript") /\ AllOf(down[g], "RunScript", call)
    BY <1>0 DEF CallOf
  <2>2. /\ Once(outbound'[g], "RunScript") /\ AllOf(outbound'[g], "RunScript", call)
        /\ m.kind = "RunScript" => ~ Has(outbound'[g], "RunScript") /\ m.of = call
        /\ Has(outbound[g], "RunScript") <=> m.kind = "RunScript" \/ Has(outbound'[g], "RunScript")
    BY <1>3, <2>1
  <2>3. m.kind = "RunScript" => ~ Has(down[g], "RunScript")
    BY <1>0, <2>2 DEF CallOf
  <2>4. /\ Once(down'[g], "RunScript") /\ AllOf(down'[g], "RunScript", call)
        /\ Has(down'[g], "RunScript") <=> m.kind = "RunScript" \/ Has(down[g], "RunScript")
    BY <1>4, <2>1, <2>2, <2>3
  <2> QED
    BY <1>0, <1>1, <2>2, <2>3, <2>4 DEF CallOf, InCall, brokerVars
<1> QED
  BY <1>1, <1>2, <1>5, <1>6, <1>7, <1>8, BesideHonest DEF Kept

LEMMA WriterExitsHonest ==
    ASSUME Base, HonestInv, NEW g \in Gen, WriterExits(g), UNCHANGED honest
    PROVE  HonestInv'
<1>0. /\ QueueTypes /\ NothingOutlivesItsSession
      /\ Readable(g) /\ Exchange(g) /\ OpeningOf(g) /\ CallOf(g)
  BY DEF Base, HonestInv, Kept
<1>1. UNCHANGED <<brokerVars, inbound, reader, seen, child, up, down, contentVars>>
  BY DEF WriterExits
<1>2. child[g] # "Running"
  BY <1>0 DEF WriterExits, QueuesGone, NothingOutlivesItsSession, Standing
<1>3. outbound'[g] = << >> /\ \A h \in Gen : h # g => SameProcess(h)
  BY <1>0, <1>1 DEF SameProcess, WriterExits, QueueTypes, contentVars
<1>4. Readable(g)'
  BY <1>0, <1>1 DEF Readable
<1>5. Exchange(g)'
  BY <1>0, <1>1, <1>2, <1>3, EmptyQueue DEF Exchange
<1>6. OpeningOf(g)'
  BY <1>0, <1>1, <1>3, EmptyQueue DEF OpeningOf, Over, brokerVars, contentVars
<1>7. CallOf(g)'
  BY <1>0, <1>1, <1>3, EmptyQueue DEF CallOf, InCall, brokerVars
<1> QED
  BY <1>1, <1>3, <1>4, <1>5, <1>6, <1>7, BesideHonest DEF Kept

(* What a frame more on the pipe up, or one less on the pipe down, changes.*)
LEMMA SaysHolds ==
    ASSUME Base, NEW g \in Gen, NEW m \in Upward, Says(g, m)
    PROVE  /\ up'[g] # << >> /\ Len(up'[g]) = Len(up[g]) + 1
           /\ \A h \in Gen : h # g => up'[h] = up[h]
           /\ \A k : Has(up'[g], k) <=> Has(up[g], k) \/ m.kind = k
           /\ \A k : Once(up[g], k) /\ (m.kind = k => ~ Has(up[g], k)) => Once(up'[g], k)
           /\ \A k, n : AllOf(up[g], k, n) /\ (m.kind = k => m.of = n) => AllOf(up'[g], k, n)
<1>1. /\ up[g] \in Seq(Upward) /\ up'[g] = Append(up[g], m)
      /\ \A h \in Gen : h # g => up'[h] = up[h]
  BY DEF Base, QueueTypes, Says
<1> QED
  BY <1>1, AppendHolds

LEMMA HearsHolds ==
    ASSUME Base, NEW g \in Gen, NEW kind, Hears(g, kind)
    PROVE  /\ \A h \in Gen : h # g => down'[h] = down[h]
           /\ \A k : Has(down[g], k) <=> kind = k \/ Has(down'[g], k)
           /\ \A k : Once(down[g], k) => Once(down'[g], k) /\ (kind = k => ~ Has(down'[g], k))
           /\ \A k, n : AllOf(down[g], k, n) =>
                  AllOf(down'[g], k, n) /\ (kind = k => Head(down[g]).of = n)
           /\ Head(down[g]) \in Downward
<1> DEFINE q == down[g]
<1>1. /\ q \in Seq(Downward) /\ q # << >> /\ down'[g] = Tail(q) /\ Head(q).kind = kind
      /\ \A h \in Gen : h # g => down'[h] = down[h]
  BY DEF Base, QueueTypes, Hears
<1> HIDE DEF q
<1>2. /\ \A k : Has(q, k) <=> kind = k \/ Has(down'[g], k)
      /\ \A k : Once(q, k) => Once(down'[g], k) /\ (kind = k => ~ Has(down'[g], k))
      /\ \A k, n : AllOf(q, k, n) => AllOf(down'[g], k, n) /\ (kind = k => Head(q).of = n)
      /\ Head(q) \in Downward
  BY <1>1, TailHolds
<1> QED
  BY <1>1, <1>2 DEF q

LEMMA AsksHonest ==
    ASSUME Base, HonestInv, NEW g \in Gen, ContentAsks(g), UNCHANGED honest
    PROVE  HonestInv'
<1>0. /\ QueueTypes /\ ProcessTypes
      /\ Readable(g) /\ Exchange(g) /\ OpeningOf(g) /\ CallOf(g)
  BY DEF Base, HonestInv, Kept
<1>1. /\ UNCHANGED <<brokerVars, threadVars, child, down, answered, host>>
      /\ child[g] = "Running" /\ asked[g] = answered[g] /\ asked[g] < OPENING_REQUESTS
      /\ asked'[g] = asked[g] + 1 /\ \A h \in Gen : h # g => asked'[h] = asked[h]
      /\ asked[g] \in Nat /\ answered[g] \in Nat /\ seen[g] \in Nat
  BY <1>0 DEF ContentAsks, ProcessTypes, OPENING_REQUESTS
<1>2. PICK m \in Upward : m.kind = "Request" /\ Says(g, m)
  BY MsgTypes DEF ContentAsks
<1>3. /\ Len(up'[g]) = Len(up[g]) + 1 /\ \A h \in Gen : h # g => up'[h] = up[h]
      /\ \A k : Has(up'[g], k) <=> Has(up[g], k) \/ m.kind = k
      /\ \A k : Once(up[g], k) /\ (m.kind = k => ~ Has(up[g], k)) => Once(up'[g], k)
      /\ \A k, n : AllOf(up[g], k, n) /\ (m.kind = k => m.of = n) => AllOf(up'[g], k, n)
  BY <1>2, SaysHolds
<1>4. ~ InExchange(g) /\ ~ Has(up[g], "Request") /\ asked[g] = seen[g]
  <2>1. /\ IF Has(up[g], "Request") THEN asked[g] = seen[g] + 1 ELSE asked[g] = seen[g]
        /\ InExchange(g) => asked[g] = answered[g] + 1
    BY <1>0, <1>1 DEF Exchange
  <2>2. asked[g] # answered[g] + 1
    BY <1>1
  <2>3. ~ InExchange(g)
    BY <2>1, <2>2
  <2>4. ~ Has(up[g], "Request")
    BY <2>3 DEF InExchange
  <2> QED
    BY <2>1, <2>3, <2>4
<1>5. up[g] = << >> /\ seen[g] < OPENING_REQUESTS
  <2>1. seen[g] # OPENING_REQUESTS
    BY <1>1, <1>4 DEF OPENING_REQUESTS
  <2> QED
    BY <1>0, <1>1, <1>4, <2>1 DEF Readable
<1>6. Len(up'[g]) = 1
  BY <1>3, <1>5
<1>7. \A h \in Gen : h # g => SameProcess(h)
  BY <1>1, <1>3 DEF SameProcess, threadVars
<1>8. Readable(g)'
  <2>1. ~ Has(up'[g], "Garbled") /\ ~ Has(up'[g], "PeerClosed") /\ Has(up'[g], "Request")
    BY <1>0, <1>2, <1>3 DEF Readable
  <2> QED
    BY <1>0, <1>1, <1>5, <1>6, <2>1 DEF Readable, threadVars
<1>9. Exchange(g)'
  <2>1. Has(up'[g], "Request")
    BY <1>2, <1>3
  <2> QED
    BY <1>0, <1>1, <1>4, <2>1 DEF Exchange, InExchange, threadVars
<1>10. OpeningOf(g)'
  BY <1>0, <1>1 DEF OpeningOf, Over, brokerVars, threadVars
<1>11. CallOf(g)'
  <2>1. /\ Has(up'[g], "Result") <=> Has(up[g], "Result")
        /\ Once(up[g], "Result") => Once(up'[g], "Result")
        /\ AllOf(up[g], "Result", call) => AllOf(up'[g], "Result", call)
    BY <1>2, <1>3
  <2> QED
    BY <1>0, <1>1, <2>1 DEF CallOf, InCall, brokerVars, threadVars
<1> QED
  BY <1>1, <1>7, <1>8, <1>9, <1>10, <1>11, BesideHonest DEF Kept

LEMMA AnsweredHonest ==
    ASSUME Base, HonestInv, NEW g \in Gen, ContentIsAnswered(g), UNCHANGED honest
    PROVE  HonestInv'
<1>0. /\ QueueTypes /\ ProcessTypes
      /\ Readable(g) /\ Exchange(g) /\ OpeningOf(g) /\ CallOf(g)
  BY DEF Base, HonestInv, Kept
<1>1. /\ UNCHANGED <<brokerVars, threadVars, child, up, asked, host>>
      /\ child[g] = "Running" /\ Hears(g, "Response")
      /\ answered'[g] = answered[g] + 1 /\ \A h \in Gen : h # g => answered'[h] = answered[h]
  BY <1>0 DEF ContentIsAnswered, Hears, ProcessTypes
<1>2. /\ \A h \in Gen : h # g => down'[h] = down[h]
      /\ \A k : Has(down[g], k) <=> "Response" = k \/ Has(down'[g], k)
      /\ \A k : Once(down[g], k) => Once(down'[g], k) /\ ("Response" = k => ~ Has(down'[g], k))
      /\ \A k, n : AllOf(down[g], k, n) => AllOf(down'[g], k, n)
  BY <1>1, HearsHolds
<1>3. \A h \in Gen : h # g => SameProcess(h)
  BY <1>1, <1>2 DEF SameProcess, threadVars
<1>4. Readable(g)'
  BY <1>0, <1>1 DEF Readable, threadVars
<1>5. Exchange(g)'
  <2>1. Has(down[g], "Response") /\ ~ Has(down'[g], "Response") /\ Once(down'[g], "Response")
    BY <1>0, <1>2 DEF Exchange
  <2>2. ~ InExchange(g)' /\ InExchange(g)
    BY <1>0, <1>1, <2>1 DEF Exchange, InExchange, threadVars
  <2>3. asked[g] = answered[g] + 1
    BY <1>0, <1>1, <2>2 DEF Exchange
  <2> QED
    BY <1>0, <1>1, <2>1, <2>2, <2>3 DEF Exchange, threadVars
<1>6. OpeningOf(g)'
  <2>1. Has(down'[g], "Init") => Has(down[g], "Init")
    BY <1>2
  <2> QED
    BY <1>0, <1>1, <2>1 DEF OpeningOf, Over, brokerVars, threadVars
<1>7. CallOf(g)'
  <2>1. /\ Has(down'[g], "RunScript") <=> Has(down[g], "RunScript")
        /\ Once(down[g], "RunScript") => Once(down'[g], "RunScript")
        /\ AllOf(down[g], "RunScript", call) => AllOf(down'[g], "RunScript", call)
    BY <1>2
  <2> QED
    BY <1>0, <1>1, <2>1 DEF CallOf, InCall, brokerVars, threadVars
<1> QED
  BY <1>1, <1>3, <1>4, <1>5, <1>6, <1>7, BesideHonest DEF Kept

(* A process that has its host is past the opening.                        *)
LEMMA PastTheOpening ==
    ASSUME Base, HonestInv, NEW g \in Gen, child[g] = "Running", host[g] # "None"
    PROVE  /\ reader[g] = "Running" /\ seen[g] = OPENING_REQUESTS /\ ~ (pc = "Opening" /\ g = target)
           /\ ~ Has(up[g], "Request")
<1>0. NothingOutlivesItsSession /\ Readable(g) /\ OpeningOf(g)
  BY DEF Base, HonestInv, Kept
<1>1. ~ Over(g)
  BY <1>0 DEF NothingOutlivesItsSession, Standing, Over
<1>2. reader[g] = "Running" /\ ~ (pc = "Opening" /\ g = target)
  BY <1>0 DEF Readable, OpeningOf
<1>3. seen[g] = OPENING_REQUESTS
  BY <1>0, <1>1, <1>2 DEF OpeningOf
<1> QED
  BY <1>0, <1>2, <1>3 DEF Readable, OPENING_REQUESTS

LEMMA HostHonest ==
    ASSUME Base, HonestInv, NEW g \in Gen, HandleInit(g) \/ TimerStops(g), UNCHANGED honest
    PROVE  HonestInv'
<1>0. /\ QueueTypes /\ ProcessTypes
      /\ Readable(g) /\ Exchange(g) /\ OpeningOf(g) /\ CallOf(g)
  BY DEF Base, HonestInv, Kept
<1>1. /\ UNCHANGED <<brokerVars, threadVars, child, up, asked, answered>>
      /\ child[g] = "Running" /\ \A h \in Gen : h # g => host'[h] = host[h]
      /\ UNCHANGED down \/ Hears(g, "Init")
  BY <1>0 DEF HandleInit, TimerStops, Hears, ProcessTypes
<1>2. /\ \A h \in Gen : h # g => down'[h] = down[h]
      /\ \A k : Has(down'[g], k) => Has(down[g], k)
      /\ \A k : k # "Init" => (Has(down'[g], k) <=> Has(down[g], k))
      /\ \A k : Once(down[g], k) => Once(down'[g], k)
      /\ \A k, n : AllOf(down[g], k, n) => AllOf(down'[g], k, n)
      /\ Hears(g, "Init") => Has(down[g], "Init")
  <2>1. CASE UNCHANGED down /\ ~ Hears(g, "Init")
    BY <2>1
  <2>2. CASE Hears(g, "Init")
    BY <2>2, HearsHolds
  <2> QED
    BY <1>1, <2>1, <2>2
<1>3. ~ (pc = "Opening" /\ g = target)
  <2>1. CASE HandleInit(g)
    BY <1>0, <1>2, <2>1 DEF HandleInit, OpeningOf
  <2>2. CASE TimerStops(g)
    BY <1>0, <2>2 DEF TimerStops, OpeningOf
  <2> QED
    BY <2>1, <2>2
<1>4. \A h \in Gen : h # g => SameProcess(h)
  BY <1>1, <1>2 DEF SameProcess, threadVars
<1>5. Readable(g)'
  BY <1>0, <1>1 DEF Readable, threadVars
<1>6. Exchange(g)'
  <2>1. (Has(down'[g], "Response") <=> Has(down[g], "Response"))
        /\ (Once(down[g], "Response") => Once(down'[g], "Response"))
    BY <1>2
  <2> QED
    BY <1>0, <1>1, <2>1 DEF Exchange, InExchange, threadVars
<1>7. OpeningOf(g)'
  BY <1>0, <1>1, <1>3 DEF OpeningOf, Over, brokerVars, threadVars
<1>8. CallOf(g)'
  <2>1. /\ Has(down'[g], "RunScript") <=> Has(down[g], "RunScript")
        /\ Once(down[g], "RunScript") => Once(down'[g], "RunScript")
        /\ AllOf(down[g], "RunScript", call) => AllOf(down'[g], "RunScript", call)
    BY <1>2
  <2> QED
    BY <1>0, <1>1, <2>1 DEF CallOf, InCall, brokerVars, threadVars
<1> QED
  BY <1>1, <1>4, <1>5, <1>6, <1>7, <1>8, BesideHonest DEF Kept

(* A process with a host says a result or that script was stopped.         *)
LEMMA SaysHonest ==
    ASSUME Base, HonestInv, NEW g \in Gen, child[g] = "Running", host[g] # "None",
           NEW m \in Upward, Says(g, m), m.kind \in {"Result", "Terminated"},
           m.kind = "Result" => Hears(g, "RunScript") /\ m.of = Head(down[g]).of,
           UNCHANGED down \/ Hears(g, "RunScript"),
           \A h \in Gen : h # g => host'[h] = host[h],
           UNCHANGED <<brokerVars, threadVars, child, asked, answered, honest>>
    PROVE  HonestInv'
<1>0. /\ QueueTypes /\ ProcessTypes
      /\ Readable(g) /\ Exchange(g) /\ OpeningOf(g) /\ CallOf(g)
  BY DEF Base, HonestInv, Kept
<1>1. /\ reader[g] = "Running" /\ seen[g] = OPENING_REQUESTS /\ ~ (pc = "Opening" /\ g = target)
      /\ ~ Has(up[g], "Request")
  BY PastTheOpening
<1>2. /\ \A h \in Gen : h # g => up'[h] = up[h]
      /\ \A k : Has(up'[g], k) <=> Has(up[g], k) \/ m.kind = k
      /\ \A k : Once(up[g], k) /\ (m.kind = k => ~ Has(up[g], k)) => Once(up'[g], k)
      /\ \A k, n : AllOf(up[g], k, n) /\ (m.kind = k => m.of = n) => AllOf(up'[g], k, n)
  BY SaysHolds
<1>3. /\ \A h \in Gen : h # g => down'[h] = down[h]
      /\ \A k : k # "RunScript" => (Has(down'[g], k) <=> Has(down[g], k))
      /\ \A k : Once(down[g], k) => Once(down'[g], k)
      /\ \A k, n : AllOf(down[g], k, n) => AllOf(down'[g], k, n)
      /\ Has(down'[g], "RunScript") => Has(down[g], "RunScript")
      /\ Hears(g, "RunScript") /\ Once(down[g], "RunScript") =>
            Has(down[g], "RunScript") /\ ~ Has(down'[g], "RunScript")
      /\ Hears(g, "RunScript") /\ AllOf(down[g], "RunScript", call) => Head(down[g]).of = call
  <2>1. CASE UNCHANGED down /\ ~ Hears(g, "RunScript")
    BY <2>1
  <2>2. CASE Hears(g, "RunScript")
    <3>1. /\ \A h \in Gen : h # g => down'[h] = down[h]
          /\ \A k : Has(down[g], k) <=> "RunScript" = k \/ Has(down'[g], k)
          /\ \A k : Once(down[g], k) =>
                Once(down'[g], k) /\ ("RunScript" = k => ~ Has(down'[g], k))
          /\ \A k, n : AllOf(down[g], k, n) =>
                AllOf(down'[g], k, n) /\ ("RunScript" = k => Head(down[g]).of = n)
      BY <2>2, HearsHolds
    <3> QED
      BY <2>2, <3>1
  <2> QED
    BY <2>1, <2>2
<1>4. \A h \in Gen : h # g => SameProcess(h)
  BY <1>2, <1>3 DEF SameProcess, threadVars
<1>5. Readable(g)'
  <2>1. ~ Has(up'[g], "Garbled") /\ ~ Has(up'[g], "PeerClosed") /\ ~ Has(up'[g], "Request")
    BY <1>0, <1>1, <1>2 DEF Readable
  <2> QED
    BY <1>0, <1>1, <2>1 DEF Readable, threadVars
<1>6. Exchange(g)'
  <2>1. /\ Has(down'[g], "Response") <=> Has(down[g], "Response")
        /\ Once(down[g], "Response") => Once(down'[g], "Response")
        /\ ~ Has(up'[g], "Request")
    BY <1>1, <1>2, <1>3
  <2> QED
    BY <1>0, <1>1, <2>1 DEF Exchange, InExchange, threadVars
<1>7. OpeningOf(g)'
  BY <1>0, <1>1 DEF OpeningOf, Over, brokerVars, threadVars
<1>8. CallOf(g)'
  <2>1. /\ Once(down[g], "RunScript") /\ AllOf(down[g], "RunScript", call)
        /\ Once(up[g], "Result") /\ AllOf(up[g], "Result", call)
    BY <1>0 DEF CallOf
  <2>2. /\ Once(down'[g], "RunScript") /\ AllOf(down'[g], "RunScript", call)
        /\ Has(down'[g], "RunScript") => Has(down[g], "RunScript")
        /\ m.kind = "Result" =>
              Has(down[g], "RunScript") /\ ~ Has(down'[g], "RunScript") /\ m.of = call
    BY <1>3, <2>1
  <2>3. m.kind = "Result" =>
              ~ Has(up[g], "Result") /\ ~ Has(inbound[g], "Result") /\ ~ Has(outbound[g], "RunScript")
    BY <1>0, <2>2 DEF CallOf
  <2>4. /\ Has(up'[g], "Result") <=> Has(up[g], "Result") \/ m.kind = "Result"
        /\ Once(up'[g], "Result") /\ AllOf(up'[g], "Result", call)
    BY <1>2, <2>1, <2>2, <2>3
  <2> QED
    BY <1>0, <2>2, <2>3, <2>4 DEF CallOf, InCall, brokerVars, threadVars
<1> QED
  BY <1>4, <1>5, <1>6, <1>7, <1>8, BesideHonest DEF Kept

LEMMA CrashHonest ==
    ASSUME Base, HonestInv, NEW g \in Gen, Crash(g), UNCHANGED honest
    PROVE  HonestInv'
<1>0. /\ QueueTypes /\ ProcessTypes
      /\ Readable(g) /\ Exchange(g) /\ OpeningOf(g) /\ CallOf(g)
  BY DEF Base, HonestInv, Kept
<1>1. /\ UNCHANGED <<brokerVars, threadVars, up>> /\ child[g] = "Running"
      /\ child'[g] = "Gone" /\ down'[g] = << >> /\ host'[g] = "None"
  BY <1>0 DEF Crash, Killed, QueueTypes, ProcessTypes
<1>2. \A h \in Gen : h # g => SameProcess(h)
  BY <1>0, <1>1 DEF SameProcess, Crash, Killed, QueueTypes, ProcessTypes, threadVars
<1>3. Readable(g)'
  BY <1>0, <1>1 DEF Readable, threadVars
<1>4. Exchange(g)'
  BY <1>0, <1>1, EmptyQueue DEF Exchange, threadVars
<1>5. OpeningOf(g)'
  BY <1>0, <1>1, EmptyQueue DEF OpeningOf, Over, brokerVars, threadVars
<1>6. CallOf(g)'
  BY <1>0, <1>1, EmptyQueue DEF CallOf, InCall, brokerVars, threadVars
<1> QED
  BY <1>1, <1>2, <1>3, <1>4, <1>5, <1>6, BesideHonest DEF Kept

LEMMA ContentHonest ==
    ASSUME Base, HonestInv, honest, NEW g \in Gen, Content(g), UNCHANGED honest
    PROVE  HonestInv'
<1>0. ProcessTypes
  BY DEF Base
<1>1. CASE HandleRunScript(g)
  <2>1. /\ Hears(g, "RunScript") /\ host[g] # "None" /\ child[g] = "Running"
        /\ UNCHANGED <<brokerVars, threadVars, child, asked, answered>>
        /\ \A h \in Gen : h # g => host'[h] = host[h]
    BY <1>0, <1>1 DEF HandleRunScript, Hears, ProcessTypes
  <2>2. Head(down[g]).of \in 0 .. MaxCalls
    BY <2>1, HearsHolds DEF Downward
  <2>3. CASE Says(g, Msg("Result", Head(down[g]).of))
    <3>1. /\ Msg("Result", Head(down[g]).of) \in Upward
          /\ Msg("Result", Head(down[g]).of).kind = "Result"
          /\ Msg("Result", Head(down[g]).of).of = Head(down[g]).of
      BY <2>2, MsgTypes
    <3> QED
      BY <2>1, <2>3, <3>1, SaysHonest
  <2>4. CASE Says(g, Msg("Terminated", 0))
    <3>1. Msg("Terminated", 0) \in Upward /\ Msg("Terminated", 0).kind = "Terminated"
      BY MsgTypes
    <3> QED
      BY <2>1, <2>4, <3>1, SaysHonest
  <2> QED
    BY <1>1, <2>3, <2>4 DEF HandleRunScript
<1>2. CASE TellOfTermination(g)
  <2>1. Msg("Terminated", 0) \in Upward /\ Msg("Terminated", 0).kind = "Terminated"
    BY MsgTypes
  <2>2. /\ child[g] = "Running" /\ host[g] # "None" /\ Says(g, Msg("Terminated", 0))
        /\ UNCHANGED <<brokerVars, threadVars, child, down, asked, answered, host>>
    BY <1>2 DEF TellOfTermination
  <2> QED
    BY <2>1, <2>2, SaysHonest
<1>3. ~ Misbehaves(g)
  BY DEF Misbehaves
<1> QED
  BY <1>1, <1>2, <1>3, AsksHonest, AnsweredHonest, HostHonest, CrashHonest DEF Content

(* The invariant of the session: what holds always, and what holds while   *)
(* the processes run this repository's code.                               *)
SessionInv == Base /\ (honest => HonestInv)

LEMMA InitSession == Init => SessionInv
<1> SUFFICES ASSUME Init
             PROVE  HonestInv
  BY InitBase DEF SessionInv
<1>1. ASSUME NEW g \in Gen
      PROVE  Kept(g)
  <2>1. /\ inbound[g] = << >> /\ outbound[g] = << >> /\ up[g] = << >> /\ down[g] = << >>
        /\ child[g] = "None" /\ reader[g] = "None" /\ pc = "Idle"
    BY DEF Init
  <2>2. Readable(g)
    BY <2>1, EmptyQueue DEF Readable
  <2>3. Exchange(g)
    BY <2>1, EmptyQueue DEF Exchange
  <2>4. OpeningOf(g)
    BY <2>1, EmptyQueue DEF OpeningOf
  <2>5. CallOf(g)
    BY <2>1, EmptyQueue DEF CallOf, InCall
  <2> QED
    BY <2>2, <2>3, <2>4, <2>5 DEF Kept
<1>2. HonestIsNotBlamed /\ AnswersMatch /\ pc # "Extra"
  BY SessionAssumption DEF Init, HonestIsNotBlamed, AnswersMatch
<1> QED
  BY <1>1, <1>2 DEF HonestInv

LEMMA NextSession == SessionInv /\ [Next]_vars => SessionInv'
<1> SUFFICES ASSUME SessionInv, [Next]_vars, honest'
             PROVE  HonestInv'
  BY NextBase DEF SessionInv
<1>1. honest /\ UNCHANGED honest
  BY DEF Next, vars
<1>2. Base /\ HonestInv
  BY <1>1 DEF SessionInv
<1>3. CASE UNCHANGED vars
  <2>1. ASSUME NEW g \in Gen
        PROVE  Kept(g)'
    <3>0. Kept(g)
      BY <1>2 DEF HonestInv
    <3>1. SameProcess(g) /\ (Over(g) => Over(g)')
      BY <1>3 DEF SameProcess, Over, vars, brokerVars, threadVars, contentVars
    <3>2. InCall(g) => g = cur /\ pc = "Waiting"
      BY <3>0 DEF Kept, CallOf
    <3>3. UNCHANGED <<pc, cur, target, served, call>>
      BY <1>3 DEF vars, brokerVars
    <3> QED
      BY <3>0, <3>1, <3>2, <3>3, ApartKept
  <2>2. HonestIsNotBlamed' /\ AnswersMatch' /\ (pc' = "Extra" => answer' = call')
    BY <1>2, <1>3 DEF HonestInv, HonestIsNotBlamed, AnswersMatch, vars, brokerVars
  <2> QED
    BY <2>1, <2>2 DEF HonestInv
<1>4. ASSUME NEW g \in Gen, Reader(g) \/ Writer(g)
      PROVE  HonestInv'
  BY <1>1, <1>2, <1>4, ReaderForwardsHonest, ReaderStopsHonest, WriterForwardsHonest,
     WriterExitsHonest DEF Reader, Writer
<1>5. CASE Next
  BY <1>1, <1>2, <1>4, <1>5, SpawnHonest, OpeningHonest, RunScriptHonest, CallingHonest,
     KillHonest, ContentHonest DEF Next
<1> QED
  BY <1>3, <1>5

(* A result is the result of the script that was run, for any number of    *)
(* calls, restarts and processes and any depth of the pipes, although      *)
(* nothing on the wire says which question an answer belongs to            *)
(* (run_script, fail, has_extra_answer).                                   *)
THEOREM AnswersAreMatched == Spec => []AnswersMatch
<1>1. SessionInv => AnswersMatch
  BY DEF SessionInv, HonestInv, AnswersMatch
<1> QED
  BY <1>1, InitSession, NextSession, PTL DEF Spec

(* A content process that keeps to the protocol is never found to have     *)
(* broken it, nor to have stopped reading: the four threads, its timers    *)
(* and its crashes cannot be interleaved so that the broker reads a frame  *)
(* it did not expect or finds its queue full (drain_unsolicited,           *)
(* send_frame, has_extra_answer).                                          *)
THEOREM HonestProcessIsNotBlamed == Spec => []HonestIsNotBlamed
<1>1. SessionInv => HonestIsNotBlamed
  BY DEF SessionInv, HonestInv, HonestIsNotBlamed
<1> QED
  BY <1>1, InitSession, NextSession, PTL DEF Spec
=============================================================================
