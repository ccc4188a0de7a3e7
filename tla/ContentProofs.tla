---------------------------- MODULE ContentProofs ----------------------------
(***************************************************************************)
(* A content process that runs script: the watchdog in it aborts no        *)
(* process that is not stalled, and a stalled one in time; and the broker  *)
(* that opened it keeps no session's processes, threads or queues beyond   *)
(* the session.  SessionProofs goes on to what the two say to each other.  *)
(***************************************************************************)
EXTENDS ScriptSession, Watchdog, TLAPS

(* A leaf that names no prover is tried with these, in turn.              *)
USE ZenonT(2), SMTT(30), Z3T(30), ZenonT(30)

-----------------------------------------------------------------------------
(* The watchdog, for every limit, tick and scheduling pause.               *)

USE WatchdogAssumption

(* The look is never more than MaxPause behind the clock reading it uses.  *)
LookIsRecent ==
    /\ boundary <= clock
    /\ dog # "Aborted" => clock <= wake + MaxPause
    /\ dog \in {"ReadClock", "ReadActive"} => wake <= read_now

(* What the tracker remembers of the count that is still current.          *)
TrackerIsTrue ==
    /\ last.count <= count
    /\ last.active /\ last.count = count => boundary <= since + MaxPause
    /\ active <=> script = "In"
    /\ dog = "ReadActive" /\ read_active /\ last.count = count
          => script \in {"In", "Leaving"}

WatchInv == WatchTypeOK /\ LookIsRecent /\ TrackerIsTrue /\ StallIsReal

(* A tick is a positive number, whatever the limit.                        *)
LEMMA TickType ==
    ASSUME NEW l \in Limits
    PROVE  Tick(l) \in 1 .. MaxTick
BY DEF Tick

LEMMA WatchInvInit ==
    WatchInit => WatchInv
<1> SUFFICES ASSUME WatchInit PROVE WatchInv
  OBVIOUS
<1> Tick(limit) \in 1 .. MaxTick
  BY TickType DEF WatchInit
<1>1. /\ last.count = 0
      /\ last.active = FALSE
      /\ dog = "Asleep"
      /\ script = "Out"
  BY DEF WatchInit
<1>2. WatchTypeOK
  <2>1. 0 \in 0 .. MaxBeats /\ 0 \in 0 .. MaxClock
    OBVIOUS
  <2>2. last \in Beat
    BY <2>1 DEF WatchInit, Beat
  <2>3. active \in BOOLEAN /\ read_active \in BOOLEAN
    BY DEF WatchInit
  <2> QED
    BY <2>1, <2>2, <2>3 DEF WatchInit, WatchTypeOK
<1>3. LookIsRecent
  BY <1>1 DEF WatchInit, LookIsRecent
<1>4. TrackerIsTrue
  <2>1. active <=> script = "In"
    BY <1>1 DEF WatchInit
  <2>2. count = 0
    BY DEF WatchInit
  <2>3. last.count <= count
    BY <1>1, <2>2
  <2> QED
    BY <1>1, <2>1, <2>3 DEF TrackerIsTrue
<1> QED
  BY <1>1, <1>2, <1>3, <1>4 DEF WatchInv, StallIsReal

LEMMA WatchInvNext ==
    WatchInv /\ [WatchNext]_watchVars => WatchInv'
<1> SUFFICES ASSUME WatchInv, [WatchNext]_watchVars PROVE WatchInv'
  OBVIOUS
<1> USE DEF WatchInv, WatchTypeOK, Beat, LookIsRecent, TrackerIsTrue, StallIsReal
<1>1. CASE dog # "Aborted" /\ (Enter \/ PassBoundary \/ LeaveBeats)
  BY <1>1 DEF Enter, PassBoundary, LeaveBeats, MoveBeat, dogVars
<1>2. CASE dog # "Aborted" /\ (SetActive \/ Leave)
  BY <1>2 DEF SetActive, Leave, dogVars
<1>3. CASE dog # "Aborted" /\ \E l \in Limits : SetLimit(l)
  BY <1>3 DEF SetLimit, dogVars, scriptVars
<1>4. CASE Wakes
  BY <1>4 DEF Wakes, scriptVars
<1>5. CASE ReadsActive
  BY <1>5 DEF ReadsActive, scriptVars
<1>6. CASE Observes
  <2>1. Tick(limit) \in 1 .. MaxTick
    BY TickType
  <2>2. CASE Stalled
    BY <1>6, <2>2 DEF Observes, Stalled, Fine, Moved, NewSince, scriptVars
  <2>3. CASE ~ Stalled /\ Fine
    BY <1>6, <2>1, <2>3 DEF Observes, Fine, Moved, NewSince, scriptVars
  <2>4. CASE ~ Stalled /\ ~ Fine
    BY <1>6, <2>1, <2>4 DEF Observes, Fine, Moved, NewSince, scriptVars
  <2> QED
    BY <2>2, <2>3, <2>4
<1>7. CASE dog # "Aborted" /\ TimePasses
  BY <1>7 DEF TimePasses, Timely, scriptVars, dogVars
<1>8. CASE UNCHANGED watchVars
  BY <1>8 DEF watchVars, scriptVars, dogVars
<1> QED
  BY <1>1, <1>2, <1>3, <1>4, <1>5, <1>6, <1>7, <1>8 DEF WatchNext, ScriptThread, DogThread

(* The watchdog ends only a process that is inside script and whose        *)
(* heartbeat has not moved for the limit, up to the pause the scheduler    *)
(* puts between its clock reading and its look (Tracker::observe, watch).  *)
THEOREM StallIsRealCorrect == WatchSpec => []StallIsReal
<1>1. WatchInv => StallIsReal
  BY DEF WatchInv
<1> QED
  BY <1>1, WatchInvInit, WatchInvNext, PTL DEF WatchSpec

-----------------------------------------------------------------------------
(* The tracker has seen the beat that is current.                          *)
BeatSeen == last.active /\ last.count = count

(* The sleep in progress is short, and began before or soon after script   *)
(* went quiet; the clock the tracker runs began soon after that.           *)
LookIsDue ==
    /\ entered <= clock /\ since <= clock
    /\ read_now <= clock
    /\ wake <= clock + MaxTick
    /\ script = "In" /\ dog = "ReadActive" /\ ~ read_active => wake <= QuietSince
    /\ script = "In" /\ ~ BeatSeen => wake <= QuietSince + MaxPause + MaxTick
    /\ script = "In" /\ BeatSeen => since <= QuietSince + 2 * MaxPause + MaxTick
    /\ script # "Out" /\ BeatSeen /\ dog # "Aborted" =>
          /\ loaded = limit
          /\ wake < since + loaded + MaxPause + Tick(loaded)

LEMMA DueInit ==
    WatchInit => LookIsDue
<1> SUFFICES ASSUME WatchInit PROVE LookIsDue
  OBVIOUS
<1>1. Tick(limit) \in 1 .. MaxTick
  BY TickType DEF WatchInit
<1>2. ~ BeatSeen /\ script # "In"
  BY DEF WatchInit, BeatSeen
<1> QED
  BY <1>1, <1>2 DEF WatchInit, LookIsDue

LEMMA DueNext ==
    WatchInv /\ LookIsDue /\ [WatchNext]_watchVars => LookIsDue'
<1> SUFFICES ASSUME WatchInv, LookIsDue, [WatchNext]_watchVars PROVE LookIsDue'
  OBVIOUS
<1> USE DEF WatchInv, WatchTypeOK, Beat, LookIsRecent, TrackerIsTrue, LookIsDue, BeatSeen, QuietSince
<1>0. Tick(limit) \in 1 .. MaxTick /\ Tick(loaded) \in 1 .. MaxTick
  BY TickType
<1>a. loaded' = loaded => Tick(loaded)' = Tick(loaded)
  BY DEF Tick
<1>1. CASE dog # "Aborted" /\ (Enter \/ PassBoundary \/ LeaveBeats)
  BY <1>0, <1>a, <1>1 DEF Enter, PassBoundary, LeaveBeats, MoveBeat, dogVars
<1>2. CASE dog # "Aborted" /\ SetActive
  BY <1>0, <1>a, <1>2 DEF SetActive, dogVars
<1>3. CASE dog # "Aborted" /\ Leave
  BY <1>0, <1>a, <1>3 DEF Leave, dogVars
<1>4. CASE dog # "Aborted" /\ \E l \in Limits : SetLimit(l)
  BY <1>0, <1>a, <1>4 DEF SetLimit, dogVars, scriptVars
<1>5. CASE Wakes
  BY <1>0, <1>a, <1>5 DEF Wakes, scriptVars
<1>6. CASE ReadsActive
  BY <1>0, <1>a, <1>6 DEF ReadsActive, scriptVars
<1>7. CASE Observes
  <2>1. CASE Stalled
    BY <1>0, <1>7, <2>1 DEF Observes, Stalled, Fine, Moved, NewSince, scriptVars
  <2>2. CASE ~ Stalled
    <3>1. /\ loaded' = limit /\ limit' = limit
          /\ Tick(loaded)' = Tick(limit)
          /\ wake' = clock + Tick(limit)
      BY <1>7, <2>2 DEF Observes, Tick
    <3>2. clock <= read_now + MaxPause
      BY <1>7 DEF Observes
    <3>3. CASE ~ read_active
      BY <1>0, <1>7, <2>2, <3>1, <3>2, <3>3 DEF Observes, Fine, Moved, NewSince, scriptVars
    <3>4. CASE read_active /\ Moved
      BY <1>0, <1>7, <2>2, <3>1, <3>2, <3>4 DEF Observes, Fine, Moved, NewSince, scriptVars
    <3>5. CASE read_active /\ ~ Moved
      <4>1. read_now < since + loaded
        BY <2>2, <3>5 DEF Stalled, Fine
      <4> QED
        BY <1>0, <1>7, <2>2, <3>1, <3>2, <3>5, <4>1 DEF Observes, Fine, Moved, NewSince, scriptVars
    <3> QED
      BY <3>3, <3>4, <3>5
  <2> QED
    BY <2>1, <2>2
<1>8. CASE dog # "Aborted" /\ TimePasses
  BY <1>0, <1>a, <1>8 DEF TimePasses, Timely, scriptVars, dogVars
<1>9. CASE UNCHANGED watchVars
  BY <1>0, <1>a, <1>9 DEF watchVars, scriptVars, dogVars
<1> QED
  BY <1>1, <1>2, <1>3, <1>4, <1>5, <1>6, <1>7, <1>8, <1>9
  DEF WatchNext, ScriptThread, DogThread

(* A stalled process is ended: script never runs past a boundary for       *)
(* longer than the limit, two sleeps and four pauses of the watchdog       *)
(* (tick: "a stall is caught within about one eighth of the limit late").  *)
THEOREM StallIsCaughtCorrect == WatchSpec => []StallIsCaught
<1>1. WatchInv /\ LookIsDue => StallIsCaught
  <2> SUFFICES ASSUME WatchInv, LookIsDue PROVE StallIsCaught
    OBVIOUS
  <2>1. Tick(loaded) \in 1 .. MaxTick
    BY TickType DEF WatchInv, WatchTypeOK
  <2> QED
    BY <2>1 DEF WatchInv, WatchTypeOK, Beat, LookIsRecent, LookIsDue, StallIsCaught, QuietSince
<1> QED
  BY <1>1, WatchInvInit, WatchInvNext, DueInit, DueNext, PTL DEF WatchSpec

HIDE WatchdogAssumption

-----------------------------------------------------------------------------
(* The session.                                                            *)

(* The invariant of the broker's own state: at most two sessions stand,    *)
(* the current one and the one being opened, and a process outside them is *)
(* gone.                                                                   *)
Over(g) == child[g] = "None" \/ dead[g] # None \/ (pc = "Dropped" /\ g = cur)

LifeInv ==
    /\ (pc \in {"Opening", "Adopt"}) = (target # 0)
    /\ target # 0 => target # cur /\ dead[target] = None /\ child[target] # "None"
    /\ cur # 0 => child[cur] # "None"
    /\ pc \in {"Send", "Waiting", "Extra"} => cur # 0 /\ dead[cur] = None
    /\ pc \in {"Opening", "Adopt"} /\ cur # 0 => restarts < MAX_RESTARTS
    /\ \A g \in Gen :
          /\ dead[g] # None => child[g] = "Gone"
          /\ child[g] # "None" /\ dead[g] = None => g \in {cur, target}

(* A session that is over has empty queues and pipes, and one that never   *)
(* was has no history.                                                     *)
ClearedInv ==
    \A g \in Gen :
        /\ Over(g) => /\ inbound[g] = << >> /\ outbound[g] = << >>
                      /\ up[g] = << >> /\ down[g] = << >>
        /\ child[g] # "Running" => down[g] = << >>
        /\ child[g] = "None" =>
              seen[g] = 0 /\ asked[g] = 0 /\ answered[g] = 0 /\ host[g] = "None"

(* One frame more, or one less, in the queue of one process.               *)
LEMMA Enqueue ==
    ASSUME NEW S, NEW Q \in [Gen -> Seq(S)], NEW g \in Gen, NEW m \in S
    PROVE  LET R == [Q EXCEPT ![g] = Append(@, m)]
           IN  /\ R \in [Gen -> Seq(S)] /\ R[g] = Append(Q[g], m)
               /\ \A h \in Gen : h # g => R[h] = Q[h]
               /\ \A n \in Nat : Len(Q[g]) < n /\ (\A h \in Gen : Len(Q[h]) <= n)
                                    => \A h \in Gen : Len(R[h]) <= n
OBVIOUS

LEMMA Dequeue ==
    ASSUME NEW S, NEW Q \in [Gen -> Seq(S)], NEW g \in Gen, Q[g] # << >>
    PROVE  LET R == [Q EXCEPT ![g] = Tail(@)]
           IN  /\ R \in [Gen -> Seq(S)] /\ R[g] = Tail(Q[g])
               /\ \A h \in Gen : h # g => R[h] = Q[h]
               /\ \A n \in Nat : (\A h \in Gen : Len(Q[h]) <= n)
                                    => \A h \in Gen : Len(R[h]) <= n
OBVIOUS

LEMMA HeadType ==
    ASSUME NEW S, NEW q \in Seq(S), q # << >>
    PROVE  Head(q) \in S
OBVIOUS

-----------------------------------------------------------------------------
(* Types. *)

LEMMA MsgTypes ==
    /\ \A n \in 0 .. MaxCalls :
          /\ Msg("Response", n) \in Downward /\ Msg("Init", n) \in Downward
          /\ Msg("RunScript", n) \in Downward
          /\ Msg("Request", n) \in Upward /\ Msg("Result", n) \in Upward
          /\ Msg("Terminated", n) \in Upward /\ Msg("Garbled", n) \in Upward
          /\ Msg("PeerClosed", n) \in Upward
    /\ 0 \in 0 .. MaxCalls
    /\ \A k, n : Msg(k, n).kind = k /\ Msg(k, n).of = n
BY SessionAssumption DEF Msg, Upward, Downward

QueueTypes ==
    /\ inbound \in [Gen -> Seq(Upward)] /\ outbound \in [Gen -> Seq(Downward)]
    /\ up \in [Gen -> Seq(Upward)] /\ down \in [Gen -> Seq(Downward)]
    /\ \A g \in Gen : Len(inbound[g]) <= QUEUE_DEPTH /\ Len(outbound[g]) <= QUEUE_DEPTH

ProcessTypes ==
    /\ open \subseteq Gen /\ panicked \subseteq Gen
    /\ dead \in [Gen -> DeathCause \cup {None}]
    /\ child \in [Gen -> {"None", "Running", "Gone"}]
    /\ asked \in [Gen -> 0 .. OPENING_REQUESTS]
    /\ answered \in [Gen -> 0 .. OPENING_REQUESTS]
    /\ host \in [Gen -> {"None", "Ok", "Stopped"}] /\ told \in [Gen -> BOOLEAN]
    /\ reader \in [Gen -> {"None", "Running", "Exited"}]
    /\ writer \in [Gen -> {"None", "Running", "Exited"}]
    /\ seen \in [Gen -> 0 .. OPENING_REQUESTS]

BrokerTypes ==
    /\ honest \in BOOLEAN
    /\ pc \in {"Idle", "Opening", "Adopt", "Send", "Waiting", "Extra", "Dropped"}
    /\ cur \in 0 .. MaxGen /\ target \in 0 .. MaxGen
    /\ served \in 0 .. OPENING_REQUESTS
    /\ call \in 0 .. MaxCalls /\ answer \in 0 .. MaxCalls
    /\ outcome \in [kind : Outcomes, call : 0 .. MaxCalls, of : 0 .. MaxCalls, by : 0 .. MaxGen]
    /\ restarts \in 0 .. MAX_RESTARTS

(* What holds whatever the process does.                                   *)
Base ==
    /\ QueueTypes /\ ProcessTypes /\ BrokerTypes
    /\ LifeInv /\ ClearedInv /\ NothingOutlivesItsSession

LEMMA InitBase == Init => Base
<1> SUFFICES ASSUME Init
             PROVE  Base
  OBVIOUS
<1>1. QueueTypes
  BY DEF Init, QueueTypes, QUEUE_DEPTH
<1>2. ProcessTypes
  BY DEF Init, ProcessTypes, OPENING_REQUESTS
<1>3. BrokerTypes
  BY SessionAssumption DEF Init, BrokerTypes, OPENING_REQUESTS, Outcomes
<1>4. LifeInv /\ ClearedInv
  BY DEF Init, LifeInv, ClearedInv, Over, Gen
<1>5. NothingOutlivesItsSession
  BY DEF Init, NothingOutlivesItsSession, Standing, Gen
<1> QED
  BY <1>1, <1>2, <1>3, <1>4, <1>5 DEF Base

(* A death clears what it touches, and leaves at most the other session.   *)
LEMMA DieKeeps ==
    ASSUME Base, NEW g \in Gen, NEW cause \in DeathCause, Die(g, cause),
           UNCHANGED <<reader, seen, writer>>, panicked' \subseteq Gen,
           pc # "Dropped", pc' = "Idle", target' = 0,
           cur' = cur \/ (cur' = target /\ pc = "Adopt"), g = cur \/ g = target,
           \A h \in Gen : h = cur \/ h = target => h = g \/ h = cur',
           BrokerTypes'
    PROVE  Base'
<1>0. QueueTypes /\ ProcessTypes /\ BrokerTypes
  BY DEF Base
<1>1. QueueTypes'
  BY <1>0 DEF Die, Killed, QueueTypes, QUEUE_DEPTH
<1>2. ProcessTypes'
  BY <1>0 DEF Die, Killed, ProcessTypes, OPENING_REQUESTS
<1>3. dead'[g] # None /\ child'[g] = "Gone" /\ open' = open \ {g}
  BY <1>0, SessionAssumption DEF Die, Killed, ProcessTypes, DeathCause
<1>4. \A h \in Gen : h # g => dead'[h] = dead[h] /\ child'[h] = child[h]
  BY <1>0 DEF Die, Killed, ProcessTypes
<1>5. LifeInv
  BY DEF Base
<1>6. LifeInv'
  BY <1>0, <1>3, <1>4, <1>5 DEF LifeInv, BrokerTypes, Gen
<1>7. ClearedInv'
  <2>0. ClearedInv
    BY DEF Base
  <2>1. /\ inbound'[g] = << >> /\ outbound'[g] = << >> /\ up'[g] = << >> /\ down'[g] = << >>
        /\ \A h \in Gen : h # g =>
              /\ inbound'[h] = inbound[h] /\ outbound'[h] = outbound[h]
              /\ up'[h] = up[h] /\ down'[h] = down[h]
              /\ seen'[h] = seen[h] /\ asked'[h] = asked[h]
              /\ answered'[h] = answered[h] /\ host'[h] = host[h]
    BY <1>0 DEF Die, Killed, QueueTypes, ProcessTypes
  <2> QED
    BY <1>3, <1>4, <2>0, <2>1 DEF ClearedInv, Over
<1>8. NothingOutlivesItsSession'
  <2>0. NothingOutlivesItsSession
    BY DEF Base
  <2>1. Standing' = Standing \ {g}
    BY <1>0, <1>3, <1>4, <1>5 DEF Standing, LifeInv, BrokerTypes, Gen
  <2> QED
    BY <1>2, <1>3, <1>4, <2>0, <2>1 DEF NothingOutlivesItsSession
<1> QED
  BY <1>1, <1>2, <1>6, <1>7, <1>8 DEF Base

(* The broker's thread goes on with the sessions that stand.               *)
LEMMA StayKeeps ==
    ASSUME Base, UNCHANGED <<dead, child, open, cur, target, restarts>>,
           (pc \in {"Opening", "Adopt"}) = (pc' \in {"Opening", "Adopt"}),
           pc' # "Dropped", pc # "Dropped",
           pc' \in {"Send", "Waiting", "Extra"} => cur # 0 /\ dead[cur] = None
    PROVE  LifeInv' /\ NothingOutlivesItsSession'
<1>1. LifeInv /\ NothingOutlivesItsSession
  BY DEF Base
<1>2. LifeInv'
  BY <1>1 DEF LifeInv
<1>3. Standing' = Standing
  BY DEF Standing
<1> QED
  BY <1>1, <1>2, <1>3 DEF NothingOutlivesItsSession

LEMMA SpawnBase ==
    ASSUME Base, NEW g \in Gen, Spawn(g), UNCHANGED honest
    PROVE  Base'
<1>0. QueueTypes /\ ProcessTypes /\ BrokerTypes
  BY DEF Base
<1>1. QueueTypes'
  BY <1>0 DEF Spawn, QueueTypes
<1>2. ProcessTypes'
  BY <1>0 DEF Spawn, ProcessTypes, contentVars
<1>3. BrokerTypes'
  BY <1>0, SessionAssumption DEF Spawn, BrokerTypes, OPENING_REQUESTS, Gen
<1>4. child[g] = "None" /\ pc = "Idle"
  BY DEF Spawn, Fresh, Gen
<1>5. child'[g] = "Running" /\ \A h \in Gen : h # g => child'[h] = child[h]
  BY <1>0 DEF Spawn, ProcessTypes
<1>6. LifeInv /\ ClearedInv /\ NothingOutlivesItsSession
  BY DEF Base
<1>7. dead[g] = None /\ g # cur /\ target = 0 /\ 0 \notin Gen
  BY <1>4, <1>6 DEF LifeInv, Gen
<1>8. LifeInv'
  BY <1>0, <1>4, <1>5, <1>6, <1>7 DEF LifeInv, Spawn, BrokerTypes, Gen
<1>9. ClearedInv'
  BY <1>0, <1>4, <1>5, <1>6, <1>7 DEF ClearedInv, Over, Spawn, contentVars
<1>10. Standing' = Standing \cup {g}
  BY <1>0, <1>4, <1>7 DEF Standing, Spawn, Gen
<1>11. NothingOutlivesItsSession'
  BY <1>4, <1>5, <1>6, <1>10 DEF NothingOutlivesItsSession, Spawn
<1> QED
  BY <1>1, <1>2, <1>3, <1>8, <1>9, <1>11 DEF Base

LEMMA OpenFailsBase ==
    ASSUME Base, pc = "Opening", NEW cause \in DeathCause, OpenFails(cause),
           panicked' \subseteq Gen, UNCHANGED honest
    PROVE  Base'
<1>1. BrokerTypes /\ LifeInv
  BY DEF Base
<1>2. target \in Gen /\ target # cur
  BY <1>1 DEF BrokerTypes, LifeInv, Gen
<1>3. BrokerTypes'
  BY <1>1, SessionAssumption DEF OpenFails, BrokerTypes, OPENING_REQUESTS
<1> QED
  BY <1>2, <1>3, DieKeeps DEF OpenFails

LEMMA OpeningBase ==
    ASSUME Base, Opening, UNCHANGED honest
    PROVE  Base'
<1>0. QueueTypes /\ ProcessTypes /\ BrokerTypes /\ LifeInv /\ ClearedInv
  BY DEF Base
<1>1. pc \in {"Opening", "Adopt"} /\ target \in Gen /\ target # cur /\ ~ Over(target)
  BY <1>0 DEF Opening, OpenServes, OpenStops, OpenSeeds, Adopt, BrokerTypes, LifeInv, Gen, Over
<1>2. \A g \in Gen : SendResult(g) # "Sent" => SendResult(g) \in DeathCause
  BY DEF SendResult, DeathCause
<1>3. CASE OpenStops
  BY <1>0, <1>3, OpenFailsBase DEF OpenStops, ProcessTypes
<1>4. CASE OpenServes
  <2>1. CASE SendResult(target) # "Sent" /\ OpenFails(SendResult(target)) /\ UNCHANGED panicked
    BY <1>0, <1>1, <1>2, <1>4, <2>1, OpenFailsBase DEF OpenServes, ProcessTypes
  <2>2. CASE OpenFails("Protocol") /\ panicked' = panicked \cup {target}
    <3>1. panicked' \subseteq Gen /\ "Protocol" \in DeathCause
      BY <1>0, <1>1, <2>2 DEF ProcessTypes, DeathCause
    <3> QED
      BY <1>4, <2>2, <3>1, OpenFailsBase DEF OpenServes
  <2>3. CASE /\ SendResult(target) = "Sent"
             /\ Taken(target)
             /\ Queued(target, Msg("Response", 0))
             /\ served' = served + 1
             /\ UNCHANGED <<pc, cur, target, call, answer, outcome, dead, restarts, open, panicked,
                            reader, seen, writer, child, up, down, contentVars>>
    <3>1. Len(outbound[target]) < QUEUE_DEPTH
      BY <1>0, <1>1, <2>3 DEF SendResult, QueueTypes, QUEUE_DEPTH
    <3>2. QueueTypes'
      BY <1>0, <1>1, <1>4, <2>3, <3>1, Enqueue, Dequeue, MsgTypes
         DEF OpenServes, Taken, Queued, Waits, QueueTypes, QUEUE_DEPTH
    <3>3. ProcessTypes'
      BY <1>0, <2>3 DEF ProcessTypes, contentVars
    <3>4. BrokerTypes'
      BY <1>0, <1>4, <2>3 DEF OpenServes, BrokerTypes, OPENING_REQUESTS
    <3>5. ClearedInv'
      BY <1>0, <1>1, <2>3 DEF ClearedInv, Over, Taken, Queued, contentVars, QueueTypes
    <3>6. LifeInv' /\ NothingOutlivesItsSession'
      BY <1>4, <2>3, StayKeeps DEF OpenServes
    <3> QED
      BY <3>2, <3>3, <3>4, <3>5, <3>6 DEF Base
  <2> QED
    BY <1>4, <2>1, <2>2, <2>3 DEF OpenServes
<1>5. CASE OpenSeeds
  <2>1. CASE SendResult(target) # "Sent" /\ OpenFails(SendResult(target))
    BY <1>0, <1>1, <1>2, <1>5, <2>1, OpenFailsBase DEF OpenSeeds, ProcessTypes
  <2>2. CASE /\ SendResult(target) = "Sent"
             /\ Queued(target, Msg("Init", 0))
             /\ pc' = "Adopt"
             /\ UNCHANGED <<cur, target, served, call, answer, outcome, dead, restarts, open,
                            inbound, reader, seen, writer, child, up, down, contentVars>>
    <3>1. Len(outbound[target]) < QUEUE_DEPTH
      BY <1>0, <1>1, <2>2 DEF SendResult, QueueTypes, QUEUE_DEPTH
    <3>2. QueueTypes'
      BY <1>0, <1>1, <2>2, <3>1, Enqueue, MsgTypes DEF Queued, QueueTypes, QUEUE_DEPTH
    <3>3. ProcessTypes'
      BY <1>0, <1>5, <2>2 DEF ProcessTypes, contentVars, OpenSeeds
    <3>4. BrokerTypes'
      BY <1>0, <2>2 DEF BrokerTypes
    <3>5. ClearedInv'
      BY <1>0, <1>1, <1>5, <2>2 DEF ClearedInv, Over, Queued, contentVars, QueueTypes, OpenSeeds
    <3>6. LifeInv' /\ NothingOutlivesItsSession'
      BY <1>5, <2>2, StayKeeps DEF OpenSeeds
    <3> QED
      BY <3>2, <3>3, <3>4, <3>5, <3>6 DEF Base
  <2> QED
    BY <1>5, <2>1, <2>2 DEF OpenSeeds
<1>6. CASE Adopt
  <2>1. BrokerTypes'
    <3>1. cur # 0 => restarts + 1 <= MAX_RESTARTS
      BY <1>0, <1>6, SessionAssumption DEF Adopt, LifeInv, BrokerTypes
    <3> QED
      BY <1>0, <1>6, <3>1, SessionAssumption DEF Adopt, BrokerTypes, OPENING_REQUESTS
  <2>2. CASE cur = 0
    <3>1. QueueTypes'
      BY <1>0, <1>6, <2>2 DEF Adopt, Lives, QueueTypes
    <3>2. ProcessTypes'
      BY <1>0, <1>6, <2>2 DEF Adopt, Lives, ProcessTypes, contentVars
    <3>3. LifeInv'
      BY <1>0, <1>1, <1>6, <2>2 DEF Adopt, Lives, LifeInv, Gen
    <3>4. ClearedInv'
      BY <1>0, <1>6, <2>2 DEF Adopt, Lives, ClearedInv, Over, contentVars
    <3>5. Standing' = Standing
      BY <1>1, <1>6, <2>2 DEF Adopt, Lives, Standing, Gen
    <3>6. NothingOutlivesItsSession'
      BY <1>6, <2>2, <3>5 DEF Adopt, Lives, NothingOutlivesItsSession, Base
    <3> QED
      BY <2>1, <3>1, <3>2, <3>3, <3>4, <3>6 DEF Base
  <2>3. CASE cur # 0
    <3>1. cur \in Gen /\ "Killed" \in DeathCause /\ panicked' \subseteq Gen
      BY <1>0, <1>6, <2>3 DEF Adopt, BrokerTypes, ProcessTypes, Gen, DeathCause
    <3> QED
      BY <1>6, <2>1, <2>3, <3>1, DieKeeps DEF Adopt
  <2> QED
    BY <2>2, <2>3
<1> QED
  BY <1>3, <1>4, <1>5, <1>6 DEF Opening

(* A call that gives up on its session.                                    *)
LEMMA CallDies ==
    ASSUME Base, pc \in {"Idle", "Send", "Waiting", "Extra"}, cur # 0,
           NEW cause \in DeathCause, Die(cur, cause), pc' = "Idle",
           UNCHANGED <<cur, target, restarts, panicked, reader, seen, writer>>,
           BrokerTypes'
    PROVE  Base'
<1>1. ProcessTypes /\ BrokerTypes /\ LifeInv
  BY DEF Base
<1>a. cur \in 0 .. MaxGen /\ target = 0 /\ panicked' \subseteq Gen
  BY <1>1 DEF BrokerTypes, ProcessTypes, LifeInv
<1>2. cur \in Gen /\ target = 0 /\ panicked' \subseteq Gen
  BY <1>a DEF Gen
<1> QED
  BY <1>2, DieKeeps DEF Gen

LEMMA ReturnTypes ==
    ASSUME BrokerTypes, NEW kind \in Outcomes, NEW n \in 0 .. MaxCalls,
           Returns(kind, n), call' \in 0 .. MaxCalls, answer' \in 0 .. MaxCalls,
           UNCHANGED <<honest, cur, target, served, restarts>>
    PROVE  BrokerTypes' /\ pc' = "Idle"
BY DEF Returns, BrokerTypes

(* A call that goes on: what it changes is the queues of its session.      *)
LEMMA CallGoesOn ==
    ASSUME Base, pc \in {"Idle", "Send", "Waiting", "Extra"}, cur # 0,
           pc' \in {"Idle", "Send", "Waiting", "Extra"},
           pc' # "Idle" => dead[cur] = None, Lives,
           UNCHANGED <<cur, target, restarts, panicked, reader, seen, writer>>,
           QueueTypes', BrokerTypes',
           \A g \in Gen : Over(g) => inbound'[g] = << >> /\ outbound'[g] = << >>
    PROVE  Base'
<1>1. ProcessTypes /\ BrokerTypes /\ LifeInv /\ ClearedInv
  BY DEF Base
<1>2. ProcessTypes'
  BY <1>1 DEF Lives, ProcessTypes, contentVars
<1>3. ClearedInv'
  BY <1>1 DEF Lives, ClearedInv, Over, contentVars
<1>4. LifeInv' /\ NothingOutlivesItsSession'
  BY StayKeeps DEF Lives
<1> QED
  BY <1>2, <1>3, <1>4 DEF Base

LEMMA RunScriptBase ==
    ASSUME Base, RunScript, UNCHANGED honest
    PROVE  Base'
<1>0. QueueTypes /\ BrokerTypes /\ LifeInv /\ ClearedInv /\ 0 \in 0 .. MaxCalls
  BY SessionAssumption DEF Base
<1>1. call' \in 0 .. MaxCalls /\ answer' \in 0 .. MaxCalls
  BY <1>0, SessionAssumption DEF RunScript, BrokerTypes
<1>2. UNCHANGED <<honest, cur, target, served, restarts>> /\ pc = "Idle" /\ cur # 0
  BY DEF RunScript
<1>3. \A k \in {"ProcessDied", "Rejected", "Terminated", "Unresponsive"} : k \in Outcomes
  BY DEF Outcomes
<1>4. CASE Lives /\ UNCHANGED <<inbound, outbound>>
  <2>1. QueueTypes'
    BY <1>0, <1>4 DEF QueueTypes, Lives
  <2>2. BrokerTypes' /\ pc' \in {"Idle", "Send"} /\ (pc' # "Idle" => dead[cur] = None)
    <3>1. CASE Returns("ProcessDied", 0) \/ Returns("Rejected", 0)
      BY <1>0, <1>1, <1>2, <1>3, <3>1, ReturnTypes
    <3>2. CASE dead[cur] = None /\ pc' = "Send" /\ UNCHANGED outcome
      BY <1>0, <1>1, <1>2, <3>2 DEF BrokerTypes
    <3>3. CASE Die(cur, "ScriptTerminated") /\ Returns("Terminated", 0)
      BY <1>0, <1>1, <1>2, <1>3, <3>3, ReturnTypes
    <3>4. CASE Fail("PeerClosed") \/ Fail("Protocol")
      BY <1>0, <1>1, <1>2, <1>3, <3>4, ReturnTypes DEF Fail
    <3> QED
      BY <3>1, <3>2, <3>3, <3>4 DEF RunScript
  <2>3. \A g \in Gen : Over(g) => inbound'[g] = << >> /\ outbound'[g] = << >>
    BY <1>0, <1>4 DEF ClearedInv
  <2> QED
    BY <1>2, <1>4, <2>1, <2>2, <2>3, CallGoesOn DEF RunScript
<1>5. ASSUME NEW cause \in DeathCause, Die(cur, cause), BrokerTypes', pc' = "Idle"
      PROVE  Base'
  BY <1>2, <1>5, CallDies DEF RunScript
<1>6. CASE Die(cur, "ScriptTerminated") /\ Returns("Terminated", 0)
  BY <1>0, <1>1, <1>2, <1>3, <1>5, <1>6, ReturnTypes DEF DeathCause
<1>7. CASE Fail("PeerClosed") \/ Fail("Protocol")
  BY <1>0, <1>1, <1>2, <1>3, <1>5, <1>7, ReturnTypes DEF Fail, DeathCause
<1> QED
  BY <1>4, <1>6, <1>7 DEF RunScript

LEMMA CallingBase ==
    ASSUME Base, Calling, UNCHANGED honest
    PROVE  Base'
<1>0. QueueTypes /\ BrokerTypes /\ LifeInv /\ ClearedInv /\ 0 \in 0 .. MaxCalls
  BY SessionAssumption DEF Base
<1>1. /\ UNCHANGED <<honest, call, cur, target, served, restarts, panicked, reader, seen, writer>>
      /\ pc \in {"Send", "Waiting", "Extra"}
  BY DEF Calling, SendRequest, Receive, CheckExtra
<1>2. cur \in Gen /\ dead[cur] = None /\ ~ Over(cur) /\ call' \in 0 .. MaxCalls
  BY <1>0, <1>1 DEF LifeInv, BrokerTypes, Gen, Over
<1>3. \A k \in {"ProcessDied", "Rejected", "Terminated", "Unresponsive", "Result"} :
          k \in Outcomes
  BY DEF Outcomes
<1>4. ASSUME NEW cause \in DeathCause, Die(cur, cause), BrokerTypes', pc' = "Idle"
      PROVE  Base'
  BY <1>1, <1>2, <1>4, CallDies DEF Gen
<1>5. ASSUME NEW cause \in DeathCause, Fail(cause), answer' \in 0 .. MaxCalls
      PROVE  Base'
  BY <1>0, <1>1, <1>2, <1>3, <1>4, <1>5, ReturnTypes DEF Fail
<1>6. ASSUME QueueTypes', BrokerTypes', Lives, pc' \in {"Idle", "Waiting", "Extra"},
             \A g \in Gen : g # cur => inbound'[g] = inbound[g] /\ outbound'[g] = outbound[g]
      PROVE  Base'
  <2>1. \A g \in Gen : Over(g) => inbound'[g] = << >> /\ outbound'[g] = << >>
    BY <1>0, <1>2, <1>6 DEF ClearedInv
  <2>2. cur # 0 /\ pc \in {"Idle", "Send", "Waiting", "Extra"}
    <3>1. cur # 0
      BY <1>2 DEF Gen
    <3> QED
      BY <1>1, <3>1
  <2>3. UNCHANGED <<cur, target, restarts, panicked, reader, seen, writer>>
    BY <1>1
  <2>4. pc' \in {"Idle", "Send", "Waiting", "Extra"} /\ Lives /\ QueueTypes' /\ BrokerTypes'
    BY <1>6
  <2> QED
    BY <1>2, <2>1, <2>2, <2>3, <2>4, CallGoesOn
<1>7. CASE SendRequest
  <2>1. answer' \in 0 .. MaxCalls
    BY <1>0, <1>7 DEF SendRequest, BrokerTypes
  <2>2. CASE /\ SendResult(cur) = "Sent"
             /\ Queued(cur, Msg("RunScript", call))
             /\ pc' = "Waiting"
             /\ Lives /\ UNCHANGED <<inbound, outcome>>
    <3>0. ~ (Len(outbound[cur]) >= QUEUE_DEPTH) /\ Len(outbound[cur]) \in Nat
      <4>1. ~ (Len(outbound[cur]) >= QUEUE_DEPTH)
        BY <2>2 DEF SendResult
      <4>2. outbound[cur] \in Seq(Downward)
        BY <1>0, <1>2 DEF QueueTypes
      <4> QED
        BY <4>1, <4>2
    <3>1. Len(outbound[cur]) < QUEUE_DEPTH
      BY <3>0 DEF QUEUE_DEPTH
    <3>2. QueueTypes' /\ \A g \in Gen : g # cur => outbound'[g] = outbound[g]
      BY <1>0, <1>1, <1>2, <2>2, <3>1, Enqueue, MsgTypes
         DEF Lives, Queued, QueueTypes, QUEUE_DEPTH
    <3>3. BrokerTypes'
      BY <1>0, <1>1, <2>1, <2>2 DEF BrokerTypes
    <3> QED
      BY <1>6, <2>2, <3>2, <3>3
  <2>3. CASE SendResult(cur) # "Sent" /\ Fail(SendResult(cur))
    BY <1>5, <2>1, <2>3 DEF SendResult, DeathCause
  <2> QED
    BY <1>7, <2>2, <2>3 DEF SendRequest
<1>8. CASE Receive
  <2>1. UNCHANGED answer => answer' \in 0 .. MaxCalls
    BY <1>0 DEF BrokerTypes
  <2>2. CASE /\ Waits(cur) /\ Head(inbound[cur]).kind = "Result"
             /\ answer' = Head(inbound[cur]).of
             /\ Taken(cur)
             /\ pc' = "Extra"
             /\ Lives /\ UNCHANGED <<outbound, outcome>>
    <3>1. QueueTypes' /\ \A g \in Gen : g # cur => inbound'[g] = inbound[g]
      BY <1>0, <1>2, <2>2, Dequeue DEF Lives, Taken, Waits, QueueTypes, QUEUE_DEPTH
    <3>2. Head(inbound[cur]) \in Upward
      BY <1>0, <1>2, <2>2 DEF QueueTypes, Waits
    <3>3. BrokerTypes'
      BY <1>0, <1>1, <2>2, <3>2 DEF BrokerTypes, Upward
    <3> QED
      BY <1>6, <2>2, <3>1, <3>3
  <2>3. CASE Die(cur, "ScriptTerminated") /\ Returns("Terminated", 0) /\ UNCHANGED answer
    BY <1>0, <1>1, <1>2, <1>3, <1>4, <2>1, <2>3, ReturnTypes DEF DeathCause
  <2>4. CASE (\E cause \in DeathCause : ReceiveFails(cur, cause) /\ Fail(cause)) /\ UNCHANGED answer
    BY <1>5, <2>1, <2>4
  <2> QED
    BY <1>8, <2>2, <2>3, <2>4 DEF Receive
<1>9. CASE CheckExtra
  <2>1. answer \in 0 .. MaxCalls /\ answer' \in 0 .. MaxCalls
    BY <1>0, <1>9 DEF BrokerTypes, CheckExtra
  <2>2. CASE Returns("Result", answer) /\ Lives /\ UNCHANGED <<inbound, outbound>>
    <3>1. QueueTypes'
      BY <1>0, <2>2 DEF Lives, QueueTypes
    <3> QED
      BY <1>0, <1>1, <1>2, <1>3, <1>6, <2>1, <2>2, <3>1, ReturnTypes
  <2>3. CASE Waits(cur) /\ Taken(cur) /\ Returns("Result", answer) /\ Lives /\ UNCHANGED outbound
    <3>1. QueueTypes' /\ \A g \in Gen : g # cur => inbound'[g] = inbound[g]
      BY <1>0, <1>2, <2>3, Dequeue DEF Lives, Taken, Waits, QueueTypes, QUEUE_DEPTH
    <3> QED
      BY <1>0, <1>1, <1>2, <1>3, <1>6, <2>1, <2>3, <3>1, ReturnTypes
  <2>4. CASE Fail("Protocol")
    BY <1>5, <2>1, <2>4 DEF DeathCause
  <2> QED
    BY <1>9, <2>2, <2>3, <2>4 DEF CheckExtra
<1> QED
  BY <1>7, <1>8, <1>9 DEF Calling

LEMMA KillBase ==
    ASSUME Base, Kill, UNCHANGED honest
    PROVE  Base'
<1>1. BrokerTypes'
  BY DEF Base, BrokerTypes, Kill
<1>2. "Killed" \in DeathCause
  BY DEF DeathCause
<1> QED
  BY <1>1, <1>2, CallDies DEF Kill

LEMMA DropBase ==
    ASSUME Base, DropSession, UNCHANGED honest
    PROVE  Base'
<1>0. QueueTypes /\ ProcessTypes /\ BrokerTypes /\ LifeInv /\ ClearedInv
  BY DEF Base
<1>1. cur \in Gen /\ target = 0 /\ child'[cur] = "Gone"
  BY <1>0 DEF DropSession, Killed, BrokerTypes, ProcessTypes, LifeInv, Gen
<1>2. QueueTypes'
  BY <1>0, <1>1 DEF DropSession, Killed, QueueTypes, QUEUE_DEPTH
<1>3. ProcessTypes'
  BY <1>0, <1>1 DEF DropSession, Killed, ProcessTypes, OPENING_REQUESTS
<1>4. BrokerTypes'
  BY <1>0 DEF DropSession, BrokerTypes
<1>5. \A h \in Gen : h # cur => child'[h] = child[h]
  BY <1>0 DEF DropSession, Killed, ProcessTypes
<1>6. LifeInv'
  BY <1>0, <1>1, <1>5 DEF DropSession, LifeInv, Gen
<1>7. ClearedInv'
  <2>1. /\ inbound'[cur] = << >> /\ outbound'[cur] = << >> /\ up'[cur] = << >> /\ down'[cur] = << >>
        /\ \A h \in Gen : h # cur =>
              /\ inbound'[h] = inbound[h] /\ outbound'[h] = outbound[h]
              /\ up'[h] = up[h] /\ down'[h] = down[h]
              /\ seen'[h] = seen[h] /\ asked'[h] = asked[h]
              /\ answered'[h] = answered[h] /\ host'[h] = host[h]
    BY <1>0, <1>1 DEF DropSession, Killed, QueueTypes, ProcessTypes
  <2> QED
    BY <1>0, <1>1, <1>5, <2>1 DEF DropSession, ClearedInv, Over
<1>8. NothingOutlivesItsSession'
  <2>0. NothingOutlivesItsSession
    BY DEF Base
  <2>1. \A g \in Gen : child'[g] # "Running"
    BY <1>0, <1>1, <1>5, <2>0 DEF NothingOutlivesItsSession, Standing, DropSession, Gen
  <2> QED
    BY <2>1 DEF NothingOutlivesItsSession, DropSession
<1> QED
  BY <1>2, <1>3, <1>4, <1>6, <1>7, <1>8 DEF Base

(* The threads and the process leave the broker's state alone.             *)
LEMMA BesideTheBroker ==
    ASSUME Base, UNCHANGED <<brokerVars, honest>>, ProcessTypes',
           \A g \in Gen : child'[g] = child[g] \/ (child[g] = "Running" /\ child'[g] = "Gone")
    PROVE  /\ BrokerTypes' /\ LifeInv' /\ NothingOutlivesItsSession'
           /\ \A g \in Gen : Over(g)' = Over(g)
<1>0. BrokerTypes /\ LifeInv /\ NothingOutlivesItsSession /\ ProcessTypes
  BY DEF Base
<1>1. BrokerTypes'
  BY <1>0 DEF BrokerTypes, brokerVars
<1>2. \A g \in Gen : (child'[g] = "None") = (child[g] = "None")
  BY <1>0
<1>3. Standing' = Standing
  BY DEF Standing, brokerVars
<1>4. NothingOutlivesItsSession'
  BY <1>0, <1>3 DEF NothingOutlivesItsSession, brokerVars
<1>5. LifeInv'
  BY <1>0, <1>2 DEF LifeInv, brokerVars, BrokerTypes, Gen
<1>6. \A g \in Gen : Over(g)' = Over(g)
  BY <1>2 DEF Over, brokerVars
<1> QED
  BY <1>1, <1>4, <1>5, <1>6

LEMMA ThreadBase ==
    ASSUME Base, NEW g \in Gen, Reader(g) \/ Writer(g), UNCHANGED honest
    PROVE  Base'
<1>0. QueueTypes /\ ProcessTypes /\ BrokerTypes /\ LifeInv /\ ClearedInv
  BY DEF Base
<1>1. UNCHANGED <<brokerVars, child, contentVars>>
  <2>1. CASE Reader(g)
    BY <2>1 DEF Reader, ReaderForwards, ReaderEnds, ReaderReleased
  <2>2. CASE Writer(g)
    BY <2>2 DEF Writer, WriterForwards, WriterExits
  <2> QED
    BY <2>1, <2>2
<1>2. ProcessTypes'
  <2>1. /\ reader' \in [Gen -> {"None", "Running", "Exited"}]
        /\ seen' \in [Gen -> 0 .. OPENING_REQUESTS]
    <3>0. /\ reader \in [Gen -> {"None", "Running", "Exited"}]
          /\ seen \in [Gen -> 0 .. OPENING_REQUESTS]
      BY <1>0 DEF ProcessTypes
    <3>1. CASE Reader(g)
      <4>1. CASE ReaderForwards(g)
        BY <3>0, <4>1 DEF ReaderForwards, OPENING_REQUESTS
      <4>2. CASE ReaderEnds(g) \/ ReaderReleased(g)
        <5>1. /\ seen' = [seen EXCEPT ![g] = 0]
              /\ reader' = [reader EXCEPT ![g] = "Exited"]
          BY <4>2 DEF ReaderEnds, ReaderReleased
        <5> QED
          BY <3>0, <5>1 DEF OPENING_REQUESTS
      <4> QED
        BY <3>1, <4>1, <4>2 DEF Reader
    <3>2. CASE Writer(g)
      BY <1>0, <3>2 DEF ProcessTypes, Writer, WriterForwards, WriterExits
    <3> QED
      BY <3>1, <3>2
  <2>2. writer' \in [Gen -> {"None", "Running", "Exited"}]
    <3>1. CASE Reader(g)
      BY <1>0, <3>1 DEF ProcessTypes, Reader, ReaderForwards, ReaderEnds, ReaderReleased
    <3>2. CASE Writer(g)
      BY <1>0, <3>2 DEF ProcessTypes, Writer, WriterForwards, WriterExits
    <3> QED
      BY <3>1, <3>2
  <2> QED
    BY <1>0, <1>1, <2>1, <2>2 DEF ProcessTypes, brokerVars, contentVars
<1>3. /\ BrokerTypes' /\ LifeInv' /\ NothingOutlivesItsSession'
      /\ \A h \in Gen : Over(h)' = Over(h)
  BY <1>1, <1>2, BesideTheBroker
<1>4. NothingOutlivesItsSession
  BY DEF Base
<1>5. child[g] = "Running" => ~ Over(g)
  BY <1>4 DEF NothingOutlivesItsSession, Standing, Over
<1>6. \A h \in Gen : child[h] = "None" => asked'[h] = 0 /\ answered'[h] = 0 /\ host'[h] = "None"
  BY <1>0, <1>1 DEF ClearedInv, contentVars
<1>7. ASSUME QueueTypes',
             \A h \in Gen : h # g => /\ inbound'[h] = inbound[h] /\ outbound'[h] = outbound[h]
                                     /\ up'[h] = up[h] /\ down'[h] = down[h]
                                     /\ seen'[h] = seen[h],
             \/ ~ Over(g)
             \/ /\ inbound'[g] = << >> /\ outbound'[g] = << >>
                /\ up'[g] = << >> /\ down'[g] = << >> /\ seen'[g] \in {0, seen[g]},
             down'[g] = << >> \/ down'[g] = down[g] \/ child[g] = "Running"
      PROVE  Base'
  <2>1. ClearedInv'
    <3> SUFFICES ASSUME NEW h \in Gen
                 PROVE  /\ Over(h) => /\ inbound'[h] = << >> /\ outbound'[h] = << >>
                                      /\ up'[h] = << >> /\ down'[h] = << >>
                        /\ child[h] # "Running" => down'[h] = << >>
                        /\ child[h] = "None" => seen'[h] = 0
      BY <1>1, <1>3, <1>6 DEF ClearedInv
    <3>1. child[h] = "None" => Over(h)
      BY DEF Over
    <3> QED
      BY <1>0, <1>7, <3>1 DEF ClearedInv
  <2> QED
    BY <1>2, <1>3, <1>7, <2>1 DEF Base
<1>8. CASE ReaderForwards(g)
  <2>1. Decoded(g, Head(up[g])) \in Upward
    BY <1>0, <1>8, MsgTypes DEF ReaderForwards, Decoded, QueueTypes
  <2>2. up[g] # << >> /\ Len(inbound[g]) < QUEUE_DEPTH /\ ~ Over(g)
    BY <1>0, <1>8 DEF ReaderForwards, QueueHasRoom, QueuesGone, Over, ClearedInv
  <2>3. /\ QueueTypes'
        /\ \A h \in Gen : h # g => inbound'[h] = inbound[h] /\ up'[h] = up[h]
    BY <1>0, <1>8, <2>1, <2>2, Enqueue, Dequeue DEF ReaderForwards, QueueTypes, QUEUE_DEPTH
  <2>4. \A h \in Gen : h # g => seen'[h] = seen[h]
    BY <1>0, <1>8 DEF ReaderForwards, ProcessTypes
  <2> QED
    BY <1>7, <1>8, <2>2, <2>3, <2>4 DEF ReaderForwards
<1>9. CASE ReaderEnds(g)
  <2>1. Len(inbound[g]) < QUEUE_DEPTH /\ ~ Over(g)
    BY <1>9 DEF ReaderEnds, QueueHasRoom, QueuesGone, Over
  <2>2. QueueTypes' /\ \A h \in Gen : h # g => inbound'[h] = inbound[h]
    BY <1>0, <1>9, <2>1, Enqueue, MsgTypes DEF ReaderEnds, QueueTypes, QUEUE_DEPTH
  <2>3. \A h \in Gen : h # g => seen'[h] = seen[h]
    BY <1>0, <1>9 DEF ReaderEnds, ProcessTypes
  <2> QED
    BY <1>7, <1>9, <2>1, <2>2, <2>3 DEF ReaderEnds
<1>10. CASE ReaderReleased(g)
  <2>1. QueueTypes'
    BY <1>0, <1>10 DEF ReaderReleased, QueueTypes
  <2>2. seen'[g] = 0 /\ \A h \in Gen : h # g => seen'[h] = seen[h]
    BY <1>0, <1>10 DEF ReaderReleased, ProcessTypes
  <2>3. Over(g)
    BY <1>10 DEF ReaderReleased, QueuesGone, Over
  <2> QED
    BY <1>0, <1>7, <1>10, <2>1, <2>2, <2>3 DEF ReaderReleased, ClearedInv
<1>11. CASE WriterForwards(g)
  <2>0. outbound[g] # << >> /\ outbound[g] \in Seq(Downward)
    BY <1>0, <1>11 DEF WriterForwards, QueueTypes
  <2>1. outbound[g] # << >> /\ Head(outbound[g]) \in Downward
    BY <2>0, HeadType
  <2>2. QueueTypes' /\ \A h \in Gen : h # g => outbound'[h] = outbound[h] /\ down'[h] = down[h]
    <3>1. /\ inbound' = inbound /\ up' = up
          /\ down' = [down EXCEPT ![g] = Append(@, Head(outbound[g]))]
          /\ outbound' = [outbound EXCEPT ![g] = Tail(@)]
      BY <1>11 DEF WriterForwards
    <3>2. /\ inbound \in [Gen -> Seq(Upward)] /\ outbound \in [Gen -> Seq(Downward)]
          /\ up \in [Gen -> Seq(Upward)] /\ down \in [Gen -> Seq(Downward)]
          /\ \A h \in Gen : Len(inbound[h]) <= QUEUE_DEPTH /\ Len(outbound[h]) <= QUEUE_DEPTH
      BY <1>0 DEF QueueTypes
    <3>3. QUEUE_DEPTH \in Nat
      BY DEF QUEUE_DEPTH
    <3>4. down' \in [Gen -> Seq(Downward)] /\ \A h \in Gen : h # g => down'[h] = down[h]
      BY <2>1, <3>1, <3>2, Enqueue
    <3>5. /\ outbound' \in [Gen -> Seq(Downward)]
          /\ \A h \in Gen : h # g => outbound'[h] = outbound[h]
          /\ \A h \in Gen : Len(outbound'[h]) <= QUEUE_DEPTH
      BY <2>1, <3>1, <3>2, <3>3, Dequeue
    <3> QED
      BY <3>1, <3>2, <3>4, <3>5 DEF QueueTypes
  <2> QED
    BY <1>5, <1>7, <1>11, <2>2 DEF WriterForwards
<1>12. CASE WriterExits(g)
  <2>1. /\ QueueTypes' /\ outbound'[g] = << >>
        /\ \A h \in Gen : h # g => outbound'[h] = outbound[h]
    BY <1>0, <1>12 DEF WriterExits, QueueTypes, QUEUE_DEPTH
  <2> QED
    BY <1>0, <1>7, <1>12, <2>1 DEF WriterExits, ClearedInv
<1> QED
  BY <1>8, <1>9, <1>10, <1>11, <1>12 DEF Reader, Writer

LEMMA ContentBase ==
    ASSUME Base, NEW g \in Gen, Content(g), UNCHANGED honest
    PROVE  Base'
<1>0. QueueTypes /\ ProcessTypes /\ BrokerTypes /\ LifeInv /\ ClearedInv
  BY DEF Base
<1>1. UNCHANGED <<brokerVars, threadVars>> /\ child[g] = "Running"
  BY DEF Content, ContentAsks, ContentIsAnswered, HandleInit, HandleRunScript, TimerStops,
         TellOfTermination, Crash, Misbehaves, Hears
<1>2. NothingOutlivesItsSession
  BY DEF Base
<1>3. ~ Over(g)
  BY <1>1, <1>2 DEF NothingOutlivesItsSession, Standing, Over
<1>4. ASSUME ProcessTypes', QueueTypes', child' = child,
             \A h \in Gen : h # g =>
                 /\ up'[h] = up[h] /\ down'[h] = down[h] /\ asked'[h] = asked[h]
                 /\ answered'[h] = answered[h] /\ host'[h] = host[h]
      PROVE  Base'
  <2>1. /\ BrokerTypes' /\ LifeInv' /\ NothingOutlivesItsSession'
        /\ \A h \in Gen : Over(h)' = Over(h)
    BY <1>1, <1>4, BesideTheBroker
  <2>2. ClearedInv'
    BY <1>0, <1>1, <1>3, <1>4, <2>1 DEF ClearedInv, threadVars
  <2> QED
    BY <1>4, <2>1, <2>2 DEF Base
<1>5. ASSUME NEW m \in Upward, Says(g, m), UNCHANGED down, ProcessTypes', child' = child,
             \A h \in Gen : h # g =>
                 asked'[h] = asked[h] /\ answered'[h] = answered[h] /\ host'[h] = host[h]
      PROVE  Base'
  <2>1. QueueTypes' /\ \A h \in Gen : h # g => up'[h] = up[h]
    BY <1>0, <1>1, <1>5, Enqueue DEF Says, QueueTypes, threadVars
  <2> QED
    BY <1>4, <1>5, <2>1
<1>6. ASSUME NEW kind, Hears(g, kind)
      PROVE  /\ down' \in [Gen -> Seq(Downward)] /\ \A h \in Gen : h # g => down'[h] = down[h]
             /\ Head(down[g]) \in Downward
  <2>1. down[g] # << >> /\ down[g] \in Seq(Downward)
    BY <1>0, <1>6 DEF Hears, QueueTypes
  <2>2. Head(down[g]) \in Downward
    BY <2>1
  <2> QED
    BY <1>0, <1>6, <2>1, <2>2, Dequeue DEF Hears, QueueTypes
<1>7. ASSUME NEW kind, Hears(g, kind), UNCHANGED up, ProcessTypes', child' = child,
             \A h \in Gen : h # g =>
                 asked'[h] = asked[h] /\ answered'[h] = answered[h] /\ host'[h] = host[h]
      PROVE  Base'
  <2>1. QueueTypes'
    BY <1>0, <1>1, <1>6, <1>7 DEF QueueTypes, threadVars
  <2> QED
    BY <1>4, <1>6, <1>7, <2>1
<1>8. CASE ContentAsks(g)
  <2>1. ProcessTypes' /\ \A h \in Gen : h # g => asked'[h] = asked[h]
    BY <1>0, <1>8 DEF ContentAsks, ProcessTypes, brokerVars, threadVars, OPENING_REQUESTS
  <2> QED
    BY <1>5, <1>8, <2>1, MsgTypes DEF ContentAsks
<1>9. CASE ContentIsAnswered(g)
  <2>1. ProcessTypes' /\ \A h \in Gen : h # g => answered'[h] = answered[h]
    BY <1>0, <1>9 DEF ContentIsAnswered, ProcessTypes, brokerVars, threadVars, OPENING_REQUESTS
  <2> QED
    BY <1>7, <1>9, <2>1 DEF ContentIsAnswered
<1>10. CASE HandleInit(g)
  <2>1. ProcessTypes' /\ \A h \in Gen : h # g => host'[h] = host[h]
    BY <1>0, <1>10 DEF HandleInit, ProcessTypes, brokerVars, threadVars
  <2> QED
    BY <1>7, <1>10, <2>1 DEF HandleInit
<1>11. CASE HandleRunScript(g)
  <2>1. Hears(g, "RunScript") /\ UNCHANGED <<child, asked, answered>>
    BY <1>11 DEF HandleRunScript
  <2>2. ProcessTypes' /\ \A h \in Gen : h # g => host'[h] = host[h]
    BY <1>0, <1>1, <1>11, <2>1 DEF HandleRunScript, ProcessTypes, brokerVars, threadVars
  <2>3. \E m \in Upward : Says(g, m)
    <3>1. Msg("Result", Head(down[g]).of) \in Upward /\ Msg("Terminated", 0) \in Upward
      BY <1>6, <2>1, MsgTypes DEF Downward
    <3> QED
      BY <1>11, <3>1 DEF HandleRunScript
  <2>4. QueueTypes' /\ \A h \in Gen : h # g => up'[h] = up[h] /\ down'[h] = down[h]
    BY <1>0, <1>1, <1>6, <2>1, <2>3, Enqueue DEF Says, QueueTypes, threadVars
  <2> QED
    BY <1>4, <2>1, <2>2, <2>4
<1>12. CASE TimerStops(g)
  <2>1. ProcessTypes' /\ \A h \in Gen : h # g => host'[h] = host[h]
    BY <1>0, <1>12 DEF TimerStops, ProcessTypes, brokerVars, threadVars
  <2>2. QueueTypes'
    BY <1>0, <1>12 DEF TimerStops, QueueTypes, threadVars
  <2> QED
    BY <1>4, <1>12, <2>1, <2>2 DEF TimerStops
<1>13. CASE TellOfTermination(g)
  <2>1. ProcessTypes'
    BY <1>0, <1>13 DEF TellOfTermination, ProcessTypes, brokerVars, threadVars
  <2> QED
    BY <1>5, <1>13, <2>1, MsgTypes DEF TellOfTermination
<1>14. CASE Misbehaves(g)
  <2>1. ProcessTypes'
    BY <1>0, <1>14 DEF Misbehaves, ProcessTypes, brokerVars, threadVars, contentVars
  <2> QED
    BY <1>5, <1>14, <2>1, MsgTypes DEF Misbehaves, contentVars
<1>15. CASE Crash(g)
  <2>1. ProcessTypes'
    BY <1>0, <1>1, <1>15 DEF Crash, Killed, ProcessTypes, brokerVars, threadVars, OPENING_REQUESTS
  <2>2. QueueTypes'
    BY <1>0, <1>1, <1>15 DEF Crash, Killed, QueueTypes, threadVars
  <2>3. /\ child'[g] = "Gone" /\ down'[g] = << >>
        /\ \A h \in Gen : h # g =>
                 /\ child'[h] = child[h] /\ down'[h] = down[h] /\ asked'[h] = asked[h]
                 /\ answered'[h] = answered[h] /\ host'[h] = host[h]
    BY <1>0, <1>15 DEF Crash, Killed, ProcessTypes, QueueTypes
  <2>4. /\ BrokerTypes' /\ LifeInv' /\ NothingOutlivesItsSession'
        /\ \A h \in Gen : Over(h)' = Over(h)
    BY <1>1, <2>1, <2>3, BesideTheBroker
  <2>5. ClearedInv'
    BY <1>0, <1>1, <1>3, <1>15, <2>3, <2>4 DEF ClearedInv, threadVars, Crash
  <2> QED
    BY <2>1, <2>2, <2>4, <2>5 DEF Base
<1> QED
  BY <1>8, <1>9, <1>10, <1>11, <1>12, <1>13, <1>14, <1>15 DEF Content

LEMMA NextBase == Base /\ [Next]_vars => Base'
<1> SUFFICES ASSUME Base, [Next]_vars
             PROVE  Base'
  OBVIOUS
<1>1. CASE UNCHANGED vars
  <2>0. QueueTypes /\ ProcessTypes /\ BrokerTypes /\ LifeInv /\ ClearedInv /\ NothingOutlivesItsSession
    BY DEF Base
  <2>1. QueueTypes'
    BY <1>1, <2>0 DEF vars, threadVars, QueueTypes
  <2>2. ProcessTypes'
    BY <1>1, <2>0 DEF vars, brokerVars, threadVars, contentVars, ProcessTypes
  <2>3. \A g \in Gen : child'[g] = child[g]
    BY <1>1 DEF vars
  <2>4. /\ BrokerTypes' /\ LifeInv' /\ NothingOutlivesItsSession'
        /\ \A g \in Gen : Over(g)' = Over(g)
    BY <1>1, <2>2, <2>3, BesideTheBroker DEF vars
  <2>5. ClearedInv'
    BY <1>1, <2>0, <2>4 DEF vars, threadVars, contentVars, ClearedInv
  <2> QED
    BY <2>1, <2>2, <2>4, <2>5 DEF Base
<1>2. CASE Next
  BY <1>2, SpawnBase, OpeningBase, RunScriptBase, CallingBase, KillBase, DropBase, ThreadBase,
     ContentBase DEF Next
<1> QED
  BY <1>1, <1>2

(* The session's state keeps its shape; the queues hold QUEUE_DEPTH frames *)
(* at most (sync_channel in attach).                                       *)
THEOREM SessionTypes == Spec => []TypeOK
<1>1. Base => TypeOK
  BY DEF Base, TypeOK, QueueTypes, ProcessTypes, BrokerTypes
<1> QED
  BY <1>1, InitBase, NextBase, PTL DEF Spec

(* Processes and channels go with their session, for any number of         *)
(* processes and restarts and any queue between broker and process, and    *)
(* also when the process does not keep to the protocol (attach, restart,   *)
(* die, Drop).                                                             *)
THEOREM ProcessesGoWithTheirSession == Spec => []NothingOutlivesItsSession
<1>1. Base => NothingOutlivesItsSession
  BY DEF Base
<1> QED
  BY <1>1, InitBase, NextBase, PTL DEF Spec
=============================================================================
