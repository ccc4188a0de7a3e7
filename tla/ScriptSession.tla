---------------------------- MODULE ScriptSession ----------------------------
(***************************************************************************)
(* One content process that runs script for the broker, and its            *)
(* replacements (crates/px-broker/src/script.rs, ScriptSession), with the  *)
(* process itself at the other end of the pipes (crates/px-content/src/    *)
(* main.rs and script.rs).                                                 *)
(*                                                                         *)
(* The broker's thread opens, asks, waits with a deadline, kills and       *)
(* restarts.  For each process a reader thread moves what comes up the     *)
(* pipe into a bounded queue and a writer thread moves a bounded queue     *)
(* into the pipe down.  The content process answers in order, may be       *)
(* stopped by one of its own timers at any time, and may die at any time.  *)
(* A process and its channel share one number: attach opens one channel    *)
(* for each process and the broker never reuses an id.                     *)
(***************************************************************************)
EXTENDS Integers, Sequences, Option

CONSTANTS
    MAX_RESTARTS,
    PipeDepth,       \* frames a pipe and its readers' buffers hold
    MaxGen,          \* bound: processes ever started
    MaxCalls         \* bound: scripts ever run; both are one when not honest

ASSUME SessionAssumption ==
    /\ MAX_RESTARTS \in Nat /\ PipeDepth \in Nat
    /\ MaxGen \in Nat /\ MaxCalls \in Nat \ {0}
    /\ None \notin {"PeerClosed", "Protocol", "Unresponsive", "NotDraining",
                    "ScriptTerminated", "Killed"}

VARIABLES
    honest,          \* whether the content processes run this repository's code
    \* the broker's thread and the session object
    pc, cur, target, served, call, answer, outcome, dead, restarts,
    open,            \* channels open in the broker
    panicked,        \* history: channels a caught panic closed
    \* for each process: its threads and queues in the broker
    inbound, outbound, reader, seen, writer,
    \* for each process: the process and the pipes
    child, up, down, asked, answered, host, told

brokerVars == <<pc, cur, target, served, call, answer, outcome, dead, restarts, open, panicked>>
threadVars == <<inbound, outbound, reader, seen, writer>>
contentVars == <<asked, answered, host, told>>
vars == <<honest, brokerVars, threadVars, child, up, down, contentVars>>

Gen == 1 .. MaxGen

QUEUE_DEPTH_One == 1  \* Mutant: room for one frame.

QUEUE_DEPTH == 4

OPENING_REQUESTS == 3

DeathCause ==
    {"PeerClosed", "Protocol", "Unresponsive", "NotDraining", "ScriptTerminated", "Killed"}

(* What travels up: an opening request, a result (a value or an error),    *)
(* the news that script was stopped, bytes that do not decode; and, in the *)
(* inbound queue only, the end of the stream.                              *)
Upward ==
    [kind : {"Request", "Result", "Terminated", "Garbled", "PeerClosed"}, of : 0 .. MaxCalls]

Downward == [kind : {"Response", "Init", "RunScript"}, of : 0 .. MaxCalls]

Msg(kind, n) == [kind |-> kind, of |-> n]

Outcomes == {"Nothing", "Result", "Terminated", "ProcessDied", "Unresponsive", "Rejected"}

TypeOK ==
    /\ honest \in BOOLEAN
    /\ pc \in {"Idle", "Opening", "Adopt", "Send", "Waiting", "Extra", "Dropped"}
    /\ cur \in 0 .. MaxGen /\ target \in 0 .. MaxGen
    /\ served \in 0 .. OPENING_REQUESTS
    /\ call \in 0 .. MaxCalls /\ answer \in 0 .. MaxCalls
    /\ outcome \in [kind : Outcomes, call : 0 .. MaxCalls, of : 0 .. MaxCalls, by : 0 .. MaxGen]
    /\ dead \in [Gen -> DeathCause \cup {None}]
    /\ restarts \in 0 .. MAX_RESTARTS
    /\ open \subseteq Gen /\ panicked \subseteq Gen
    /\ inbound \in [Gen -> Seq(Upward)]
    /\ outbound \in [Gen -> Seq(Downward)]
    /\ reader \in [Gen -> {"None", "Running", "Exited"}]
    /\ writer \in [Gen -> {"None", "Running", "Exited"}]
    /\ seen \in [Gen -> 0 .. OPENING_REQUESTS]
    /\ child \in [Gen -> {"None", "Running", "Gone"}]
    /\ up \in [Gen -> Seq(Upward)] /\ down \in [Gen -> Seq(Downward)]
    /\ asked \in [Gen -> 0 .. OPENING_REQUESTS]
    /\ answered \in [Gen -> 0 .. OPENING_REQUESTS]
    /\ host \in [Gen -> {"None", "Ok", "Stopped"}]
    /\ told \in [Gen -> BOOLEAN]
    /\ \A g \in Gen : Len(inbound[g]) <= QUEUE_DEPTH /\ Len(outbound[g]) <= QUEUE_DEPTH

Init ==
    /\ honest \in BOOLEAN
    /\ pc = "Idle" /\ cur = 0 /\ target = 0 /\ served = 0
    /\ call = 0 /\ answer = 0
    /\ outcome = [kind |-> "Nothing", call |-> 0, of |-> 0, by |-> 0]
    /\ dead = [g \in Gen |-> None]
    /\ restarts = 0
    /\ open = {} /\ panicked = {}
    /\ inbound = [g \in Gen |-> << >>] /\ outbound = [g \in Gen |-> << >>]
    /\ reader = [g \in Gen |-> "None"] /\ writer = [g \in Gen |-> "None"]
    /\ seen = [g \in Gen |-> 0]
    /\ child = [g \in Gen |-> "None"]
    /\ up = [g \in Gen |-> << >>] /\ down = [g \in Gen |-> << >>]
    /\ asked = [g \in Gen |-> 0] /\ answered = [g \in Gen |-> 0]
    /\ host = [g \in Gen |-> "None"]
    /\ told = [g \in Gen |-> FALSE]

-----------------------------------------------------------------------------
(* The end of a session.                                                   *)

(* A process that is gone has no state, and nobody reads its pipe.         *)
Killed(g) ==
    /\ child' = [child EXCEPT ![g] = "Gone"]
    /\ down' = [down EXCEPT ![g] = << >>]
    /\ asked' = [asked EXCEPT ![g] = 0] /\ answered' = [answered EXCEPT ![g] = 0]
    /\ host' = [host EXCEPT ![g] = "None"] /\ told' = [told EXCEPT ![g] = FALSE]

(* Mutant: the child is killed and its channel stays. *)
Die_KeepsChannel(g, cause) ==
    /\ dead' = [dead EXCEPT ![g] = IF @ = None THEN cause ELSE @]
    /\ Killed(g)
    /\ inbound' = [inbound EXCEPT ![g] = << >>]
    /\ outbound' = [outbound EXCEPT ![g] = << >>]
    /\ up' = [up EXCEPT ![g] = << >>]
    /\ UNCHANGED open

(* die: the first cause is kept, the child is killed and reaped, both      *)
(* queues are dropped and the channel is closed.  What was in the pipes is *)
(* of no more use: the threads find their queues gone.                     *)
Die(g, cause) ==
    /\ dead' = [dead EXCEPT ![g] = IF @ = None THEN cause ELSE @]
    /\ Killed(g)
    /\ inbound' = [inbound EXCEPT ![g] = << >>]
    /\ outbound' = [outbound EXCEPT ![g] = << >>]
    /\ up' = [up EXCEPT ![g] = << >>]
    /\ open' = open \ {g}

Lives == UNCHANGED <<dead, child, up, down, open, contentVars>>

(* What a call returns, and the session it returned for.                   *)
Returns(kind, n) ==
    /\ pc' = "Idle"
    /\ outcome' = [kind |-> kind, call |-> call', of |-> n, by |-> cur]

Fail(cause) ==
    /\ Die(cur, cause)
    /\ Returns(IF cause = "Unresponsive" THEN "Unresponsive" ELSE "ProcessDied", 0)

(* send_frame never blocks.                                                *)
SendResult(g) ==
    IF writer[g] = "Exited" THEN "PeerClosed"
    ELSE IF Len(outbound[g]) >= QUEUE_DEPTH THEN "NotDraining"
    ELSE "Sent"

Queued(g, m) == outbound' = [outbound EXCEPT ![g] = Append(@, m)]

Taken(g) == inbound' = [inbound EXCEPT ![g] = Tail(@)]

Waits(g) == inbound[g] # << >>

(* Mutant: the broker waits for as long as it takes. *)
ReceiveFails_NoDeadline(g, cause) ==
    \/ Waits(g) /\ Head(inbound[g]).kind = "PeerClosed" /\ cause = "PeerClosed"
    \/ Waits(g) /\ Head(inbound[g]).kind = "Garbled" /\ cause = "Protocol"
    \/ ~ Waits(g) /\ reader[g] = "Exited" /\ cause = "PeerClosed"

(* recv_timeout's failures: the end of the stream, a frame the codec       *)
(* refused, the deadline, or a reader that is gone.                        *)
ReceiveFails(g, cause) ==
    \/ Waits(g) /\ Head(inbound[g]).kind = "PeerClosed" /\ cause = "PeerClosed"
    \/ Waits(g) /\ Head(inbound[g]).kind = "Garbled" /\ cause = "Protocol"
    \/ ~ Waits(g) /\ reader[g] = "Exited" /\ cause = "PeerClosed"
    \/ ~ Waits(g) /\ reader[g] # "Exited" /\ cause = "Unresponsive"

-----------------------------------------------------------------------------
(* spawn, attach and open: the first process, or a replacement that starts *)
(* while the old session still stands.                                     *)

Fresh(g) == \A h \in Gen : child[h] = "None" <=> h >= g

Spawn(g) ==
    /\ pc = "Idle" /\ Fresh(g) /\ (honest \/ g = 1)
    /\ cur # 0 => restarts < MAX_RESTARTS
    /\ pc' = "Opening" /\ target' = g /\ served' = 0
    /\ child' = [child EXCEPT ![g] = "Running"]
    /\ reader' = [reader EXCEPT ![g] = "Running"]
    /\ writer' = [writer EXCEPT ![g] = "Running"]
    /\ open' = open \cup {g}
    /\ UNCHANGED <<cur, call, answer, outcome, dead, restarts, panicked,
                   inbound, outbound, seen, up, down, contentVars>>

OpenFails(cause) ==
    /\ Die(target, cause)
    /\ pc' = "Idle" /\ target' = 0 /\ served' = 0
    /\ UNCHANGED <<cur, call, answer, outcome, restarts, reader, seen, writer>>

(* A request is dispatched on the session's channel; a caught panic closes *)
(* the channel.                                                            *)
OpenServes ==
    /\ pc = "Opening" /\ served < OPENING_REQUESTS
    /\ Waits(target) /\ Head(inbound[target]).kind = "Request"
    /\ \/ /\ SendResult(target) = "Sent"
          /\ Taken(target)
          /\ Queued(target, Msg("Response", 0))
          /\ served' = served + 1
          /\ UNCHANGED <<pc, cur, target, call, answer, outcome, dead, restarts, open, panicked,
                         reader, seen, writer, child, up, down, contentVars>>
       \/ /\ SendResult(target) # "Sent"
          /\ OpenFails(SendResult(target))
          /\ UNCHANGED panicked
       \/ /\ OpenFails("Protocol")
          /\ panicked' = panicked \cup {target}

OpenStops ==
    /\ pc = "Opening" /\ served < OPENING_REQUESTS
    /\ \E cause \in DeathCause :
          /\ ReceiveFails(target, cause)
          /\ OpenFails(cause)
    /\ UNCHANGED panicked

OpenSeeds ==
    /\ pc = "Opening" /\ served = OPENING_REQUESTS
    /\ \/ /\ SendResult(target) = "Sent"
          /\ Queued(target, Msg("Init", 0))
          /\ pc' = "Adopt"
          /\ UNCHANGED <<cur, target, served, call, answer, outcome, dead, restarts, open,
                         inbound, reader, seen, writer, child, up, down, contentVars>>
       \/ /\ SendResult(target) # "Sent"
          /\ OpenFails(SendResult(target))
    /\ UNCHANGED panicked

(* restart: the old session dies once its replacement stands.              *)
Adopt ==
    /\ pc = "Adopt"
    /\ pc' = "Idle" /\ cur' = target /\ target' = 0 /\ served' = 0
    /\ IF cur = 0
       THEN Lives /\ UNCHANGED <<restarts, inbound, outbound>>
       ELSE Die(cur, "Killed") /\ restarts' = restarts + 1
    /\ UNCHANGED <<call, answer, outcome, panicked, reader, seen, writer>>

-----------------------------------------------------------------------------
(* run_script, from one look at the queues to the next.                    *)

RunScript ==
    /\ pc = "Idle" /\ cur # 0 /\ call < (IF honest THEN MaxCalls ELSE 1)
    /\ call' = call + 1
    /\ \/ /\ dead[cur] # None
          /\ Returns("ProcessDied", 0)
          /\ Lives /\ UNCHANGED <<inbound, outbound>>
       \/ /\ dead[cur] = None
          /\ Returns("Rejected", 0)
          /\ Lives /\ UNCHANGED <<inbound, outbound>>
       \/ /\ dead[cur] = None /\ ~ Waits(cur)
          /\ pc' = "Send"
          /\ Lives /\ UNCHANGED <<inbound, outbound, outcome>>
       \/ /\ dead[cur] = None /\ Waits(cur)      \* drain_unsolicited
          /\ LET kind == Head(inbound[cur]).kind IN
             \/ /\ kind = "Terminated"
                /\ Die(cur, "ScriptTerminated")
                /\ Returns("Terminated", 0)
             \/ kind = "PeerClosed" /\ Fail("PeerClosed")
             \/ kind \notin {"Terminated", "PeerClosed"} /\ Fail("Protocol")
    /\ UNCHANGED <<cur, target, served, answer, restarts, panicked, reader, seen, writer>>

SendRequest ==
    /\ pc = "Send"
    /\ call' = call
    /\ \/ /\ SendResult(cur) = "Sent"
          /\ Queued(cur, Msg("RunScript", call))
          /\ pc' = "Waiting"
          /\ Lives /\ UNCHANGED <<inbound, outcome>>
       \/ /\ SendResult(cur) # "Sent"
          /\ Fail(SendResult(cur))
    /\ UNCHANGED <<cur, target, served, answer, restarts, panicked, reader, seen, writer>>

Receive ==
    /\ pc = "Waiting"
    /\ call' = call
    /\ \/ /\ Waits(cur) /\ Head(inbound[cur]).kind = "Result"
          /\ answer' = Head(inbound[cur]).of
          /\ Taken(cur)
          /\ pc' = "Extra"
          /\ Lives /\ UNCHANGED <<outbound, outcome>>
       \/ /\ Waits(cur) /\ Head(inbound[cur]).kind = "Terminated"
          /\ Die(cur, "ScriptTerminated")
          /\ Returns("Terminated", 0)
          /\ UNCHANGED answer
       \/ /\ \E cause \in DeathCause : ReceiveFails(cur, cause) /\ Fail(cause)
          /\ UNCHANGED answer
    /\ UNCHANGED <<cur, target, served, restarts, panicked, reader, seen, writer>>

(* has_extra_answer takes what it looks at.                                *)
CheckExtra ==
    /\ pc = "Extra"
    /\ call' = call
    /\ \/ /\ ~ Waits(cur)
          /\ Returns("Result", answer)
          /\ Lives /\ UNCHANGED <<inbound, outbound>>
       \/ /\ Waits(cur) /\ Head(inbound[cur]).kind \in {"Terminated", "PeerClosed"}
          /\ Taken(cur)
          /\ Returns("Result", answer)
          /\ Lives /\ UNCHANGED outbound
       \/ /\ Waits(cur) /\ Head(inbound[cur]).kind \notin {"Terminated", "PeerClosed"}
          /\ Fail("Protocol")
    /\ answer' = 0
    /\ UNCHANGED <<cur, target, served, restarts, panicked, reader, seen, writer>>

Kill ==
    /\ pc = "Idle" /\ cur # 0
    /\ Die(cur, "Killed")
    /\ UNCHANGED <<pc, cur, target, served, call, answer, outcome, restarts, panicked,
                   reader, seen, writer>>

(* Drop kills the child and drops the queues; it has no broker to close    *)
(* the channel with.                                                       *)
DropSession ==
    /\ pc = "Idle" /\ cur # 0
    /\ pc' = "Dropped"
    /\ Killed(cur)
    /\ inbound' = [inbound EXCEPT ![cur] = << >>]
    /\ outbound' = [outbound EXCEPT ![cur] = << >>]
    /\ up' = [up EXCEPT ![cur] = << >>]
    /\ UNCHANGED <<cur, target, served, call, answer, outcome, dead, restarts, open, panicked,
                   reader, seen, writer>>

-----------------------------------------------------------------------------
(* The reader and the writer thread of a process.                          *)

QueuesGone(g) == dead[g] # None \/ (pc = "Dropped" /\ g = cur)

QueueHasRoom(g) == Len(inbound[g]) < QUEUE_DEPTH

(* The first frames are requests and the rest responses: anything else     *)
(* does not decode.                                                        *)
Decoded(g, m) ==
    IF (seen[g] < OPENING_REQUESTS) = (m.kind = "Request") THEN m ELSE Msg("Garbled", 0)

ReaderForwards(g) ==
    /\ reader[g] = "Running" /\ ~ QueuesGone(g)
    /\ up[g] # << >> /\ QueueHasRoom(g)
    /\ LET m == Decoded(g, Head(up[g])) IN
       /\ inbound' = [inbound EXCEPT ![g] = Append(@, m)]
       /\ reader' = [reader EXCEPT ![g] = IF m.kind = "Garbled" THEN "Exited" ELSE @]
    /\ up' = [up EXCEPT ![g] = Tail(@)]
    /\ seen' = [seen EXCEPT ![g] = IF @ < OPENING_REQUESTS THEN @ + 1 ELSE @]
    /\ UNCHANGED <<brokerVars, outbound, writer, child, down, contentVars>>

ReaderEnds(g) ==
    /\ reader[g] = "Running" /\ ~ QueuesGone(g)
    /\ up[g] = << >> /\ child[g] = "Gone" /\ QueueHasRoom(g)
    /\ inbound' = [inbound EXCEPT ![g] = Append(@, Msg("PeerClosed", 0))]
    /\ reader' = [reader EXCEPT ![g] = "Exited"] /\ seen' = [seen EXCEPT ![g] = 0]
    /\ UNCHANGED <<brokerVars, outbound, writer, child, up, down, contentVars>>

(* A send into a queue that is gone, which takes something to send.        *)
ReaderReleased(g) ==
    /\ reader[g] = "Running" /\ QueuesGone(g)
    /\ up[g] # << >> \/ child[g] = "Gone"
    /\ reader' = [reader EXCEPT ![g] = "Exited"] /\ seen' = [seen EXCEPT ![g] = 0]
    /\ UNCHANGED <<brokerVars, inbound, outbound, writer, child, up, down, contentVars>>

WriterForwards(g) ==
    /\ writer[g] = "Running" /\ outbound[g] # << >>
    /\ child[g] = "Running" /\ Len(down[g]) < PipeDepth
    /\ down' = [down EXCEPT ![g] = Append(@, Head(outbound[g]))]
    /\ outbound' = [outbound EXCEPT ![g] = Tail(@)]
    /\ UNCHANGED <<brokerVars, inbound, reader, seen, writer, child, up, contentVars>>

(* Mutant: the queue never ends, only a failed write does. *)
WriterExits_OnWriteOnly(g) ==
    /\ writer[g] = "Running"
    /\ outbound[g] # << >> /\ child[g] = "Gone"
    /\ writer' = [writer EXCEPT ![g] = "Exited"]
    /\ outbound' = [outbound EXCEPT ![g] = << >>]
    /\ UNCHANGED <<brokerVars, inbound, reader, seen, child, up, down, contentVars>>

(* A write into a pipe nobody reads fails; a queue that is gone ends.      *)
WriterExits(g) ==
    /\ writer[g] = "Running"
    /\ QueuesGone(g) \/ (outbound[g] # << >> /\ child[g] = "Gone")
    /\ writer' = [writer EXCEPT ![g] = "Exited"]
    /\ outbound' = [outbound EXCEPT ![g] = << >>]
    /\ UNCHANGED <<brokerVars, inbound, reader, seen, child, up, down, contentVars>>

-----------------------------------------------------------------------------
(* The content process.                                                    *)

Says(g, m) ==
    /\ Len(up[g]) < PipeDepth
    /\ up' = [up EXCEPT ![g] = Append(@, m)]

Hears(g, kind) ==
    /\ child[g] = "Running"
    /\ down[g] # << >> /\ Head(down[g]).kind = kind
    /\ down' = [down EXCEPT ![g] = Tail(@)]

ContentAsks(g) ==
    /\ child[g] = "Running" /\ asked[g] = answered[g] /\ asked[g] < OPENING_REQUESTS
    /\ asked' = [asked EXCEPT ![g] = @ + 1]
    /\ Says(g, Msg("Request", 0))
    /\ UNCHANGED <<brokerVars, threadVars, child, down, answered, host, told>>

ContentIsAnswered(g) ==
    /\ Hears(g, "Response") /\ answered[g] < asked[g]
    /\ answered' = [answered EXCEPT ![g] = @ + 1]
    /\ UNCHANGED <<brokerVars, threadVars, child, up, asked, host, told>>

HandleInit(g) ==
    /\ Hears(g, "Init") /\ host[g] = "None"
    /\ host' = [host EXCEPT ![g] = "Ok"]
    /\ UNCHANGED <<brokerVars, threadVars, child, up, asked, answered, told>>

(* Mutant: the result of an earlier script answers a later one. *)
HandleRunScript_FirstResult(g) ==
    /\ Hears(g, "RunScript") /\ host[g] = "Ok"
    /\ Says(g, Msg("Result", 1))
    /\ UNCHANGED <<brokerVars, threadVars, child, asked, answered, host, told>>

(* A script ends with a result or is stopped; once stopped, every later    *)
(* one is told so.                                                         *)
HandleRunScript(g) ==
    /\ Hears(g, "RunScript") /\ host[g] # "None"
    /\ \/ /\ host[g] = "Ok"
          /\ Says(g, Msg("Result", Head(down[g]).of))
          /\ UNCHANGED <<host, told>>
       \/ /\ Says(g, Msg("Terminated", 0))
          /\ host' = [host EXCEPT ![g] = "Stopped"]
          /\ told' = [told EXCEPT ![g] = TRUE]
    /\ UNCHANGED <<brokerVars, threadVars, child, asked, answered>>

TimerStops(g) ==
    /\ child[g] = "Running" /\ host[g] = "Ok"
    /\ host' = [host EXCEPT ![g] = "Stopped"]
    /\ UNCHANGED <<brokerVars, threadVars, child, up, down, asked, answered, told>>

TellOfTermination(g) ==
    /\ child[g] = "Running" /\ host[g] = "Stopped" /\ ~ told[g]
    /\ Says(g, Msg("Terminated", 0))
    /\ told' = [told EXCEPT ![g] = TRUE]
    /\ UNCHANGED <<brokerVars, threadVars, child, down, asked, answered, host>>

(* The process dies: a crash, the watchdog, an error of its own.           *)
Crash(g) ==
    /\ child[g] = "Running"
    /\ Killed(g)
    /\ UNCHANGED <<brokerVars, threadVars, up>>

(* A process that does not keep to the protocol.                           *)
Misbehaves(g) ==
    /\ ~ honest /\ child[g] = "Running"
    /\ \E kind \in {"Request", "Result", "Terminated", "Garbled"} : Says(g, Msg(kind, 0))
    /\ UNCHANGED <<brokerVars, threadVars, child, down, contentVars>>

Opening == OpenServes \/ OpenStops \/ OpenSeeds \/ Adopt

Calling == SendRequest \/ Receive \/ CheckExtra

Reader(g) == ReaderForwards(g) \/ ReaderEnds(g) \/ ReaderReleased(g)

Writer(g) == WriterForwards(g) \/ WriterExits(g)

Content(g) ==
    \/ ContentAsks(g) \/ ContentIsAnswered(g)
    \/ HandleInit(g) \/ HandleRunScript(g)
    \/ TimerStops(g) \/ TellOfTermination(g)
    \/ Crash(g) \/ Misbehaves(g)

Next ==
    /\ \/ RunScript \/ Kill \/ DropSession
       \/ Opening \/ Calling
       \/ \E g \in Gen : Spawn(g) \/ Reader(g) \/ Writer(g) \/ Content(g)
    /\ UNCHANGED honest

Spec == Init /\ [][Next]_vars

-----------------------------------------------------------------------------
(* A result is the result of the script that was run, although nothing on  *)
(* the wire says which question an answer belongs to: a call that gives up *)
(* on its answer also gives up the process, so no late answer can be taken *)
(* for the next one (run_script, fail).                                    *)
AnswersMatch == honest /\ outcome.kind = "Result" => outcome.of = outcome.call

(* A content process that keeps to the protocol is never found to have     *)
(* broken it, nor to have stopped reading, however the four threads and    *)
(* its own timers interleave: only a panic of the broker itself ends its   *)
(* session with Protocol (drain_unsolicited, has_extra_answer, send_frame).*)
HonestIsNotBlamed ==
    honest => \A g \in Gen : dead[g] \in {"Protocol", "NotDraining"} => g \in panicked

(* Processes and channels go with their session, across failed openings,   *)
(* kills, restarts and the drop of the session: a process runs and a       *)
(* channel is open only for the session that stands or the one being       *)
(* opened (attach, restart, die, Drop).                                    *)
Standing ==
    {g \in Gen : dead[g] = None /\ (g = cur \/ (g = target /\ pc \in {"Opening", "Adopt"}))}

NothingOutlivesItsSession ==
    /\ \A g \in Gen : child[g] = "Running" => g \in Standing /\ pc # "Dropped"
    /\ pc # "Dropped" => open = Standing

-----------------------------------------------------------------------------
(* Fairness.  The broker's thread is not blocked for ever anywhere: its    *)
(* receives have deadlines and its sends do not wait.  The worker threads  *)
(* run while they can.  Nothing is assumed of the content process.         *)
FairSpec ==
    /\ Spec
    /\ WF_vars(Opening /\ UNCHANGED honest) /\ WF_vars(Calling /\ UNCHANGED honest)
    /\ \A g \in Gen :
          /\ WF_vars(Reader(g) /\ UNCHANGED honest)
          /\ WF_vars(Writer(g) /\ UNCHANGED honest)

(* Every call returns, whatever the process does or does not do ("Every    *)
(* wait has a deadline").                                                  *)
CallsReturn == pc \notin {"Idle", "Dropped"} ~> pc = "Idle"

(* The threads of a session that ended exit: neither stays blocked on a    *)
(* full queue or on a pipe (die: "release the workers").                   *)
WorkersAreReleased ==
    \A g \in Gen : QueuesGone(g) ~> reader[g] = "Exited" /\ writer[g] = "Exited"
=============================================================================
