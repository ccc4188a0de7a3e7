--------------------------------- MODULE Gpu ---------------------------------
(***************************************************************************)
(* The graphics session and its process (crates/px-gpu): the supervisor in *)
(* the broker (session.rs, GpuSession and GpuProcess) with its reader and  *)
(* writer threads, the pipes, and the process that receives fonts and      *)
(* display lists and sends the frame back in strips (main.rs, server.rs,   *)
(* wire.rs, and px-ipc's gpu_fonts.rs).                                    *)
(*                                                                         *)
(* A display list is the fonts its glyph runs name, in order of first use, *)
(* its height in rows, whether the wire can carry it at all, and whether   *)
(* it draws images; every one can be drawn in software.  A font is a name  *)
(* and its size in chunks; the ones in BadFont do not parse.  The process  *)
(* may die at any step, its backend may fail, and at a Draw it may         *)
(* misbehave in each of the ways faults.rs lists.  A deadline may pass     *)
(* whenever the session finds nothing to receive.                          *)
(***************************************************************************)
EXTENDS Integers, Sequences, FiniteSets, Option

LOCAL INSTANCE SequencesExt

CONSTANTS
    Font, BadFont,   \* the fonts a page may use; the ones that do not parse
    Chunks,          \* how many chunks each font takes
    DisplayList,     \* the lists asked for
    RowsPerStrip,    \* rows_per_strip of the width in use
    MAX_FONTS, MAX_RESTARTS, QUEUE_DEPTH,
    PipeDepth,       \* messages a pipe holds
    MaxFrames,       \* bound: frames ever asked of a process
    Fault            \* the misbehaviours considered at a Draw

ASSUME GpuAssumption ==
    /\ BadFont \subseteq Font
    /\ Chunks \in [Font -> Nat \ {0}]
    /\ RowsPerStrip \in Nat \ {0}
    /\ MAX_FONTS \in Nat /\ MAX_RESTARTS \in Nat
    /\ QUEUE_DEPTH \in Nat \ {0} /\ PipeDepth \in Nat \ {0} /\ MaxFrames \in Nat

VARIABLES
    \* GpuSession
    registry, rejected, failures, spawned, given_up, serial, shown,
    \* the call in progress, and the process object the session holds
    call, held, sent,
    \* the broker's threads for the process and their queues
    inbound, outbound, reader, writer,
    \* the process and its pipes
    gpu, down, up,
    refused          \* history: fonts a process was heard to refuse

sessionVars == <<registry, rejected, failures, spawned, given_up, serial, shown, refused>>
threadVars == <<inbound, outbound, reader, writer>>
processVars == <<gpu, down, up>>
gpuVars == <<sessionVars, call, held, sent, threadVars, processVars>>

------------------------------------------------------------------------------
(* Messages. *)

Msg(kind) == [kind |-> kind]

FontBegin(f) == [kind |-> "FontBegin", font |-> f, len |-> Chunks[f]]

FontChunk(f, offset) == [kind |-> "FontChunk", font |-> f, offset |-> offset]

Begin(n, list) == [kind |-> "Begin", serial |-> n, height |-> list.height]

(* The glyphs and the items, in as many messages as they take.  An image   *)
(* crosses as an empty fill.                                               *)
Items(list) == [kind |-> "Items", list |-> [list EXCEPT !.images = FALSE]]

Header(n, height) == [kind |-> "FrameHeader", serial |-> n, height |-> height]

Strip(first, rows, list) ==
    [kind |-> "Strip", first_row |-> first, rows |-> rows, of |-> list]

(* The font is the process's own knowledge: the broker is told only that   *)
(* some font did not parse.                                                *)
Failed(why, f) == [kind |-> "Failed", why |-> why, font |-> f]

(* Every strip but the last has RowsPerStrip rows.                         *)
RowsAt(first, height) ==
    IF height - first < RowsPerStrip THEN height - first ELSE RowsPerStrip

strips_of(list) ==
    [i \in 1 .. (list.height + RowsPerStrip - 1) \div RowsPerStrip |->
        LET first == (i - 1) * RowsPerStrip
        IN  Strip(first, RowsAt(first, list.height), list)]

font_requests(f) ==
    <<FontBegin(f)>> \o [i \in 1 .. Chunks[f] |-> FontChunk(f, i - 1)]

------------------------------------------------------------------------------
(* The session. *)

NoCall ==
    [op |-> "none", phase |-> "idle", list |-> None, todo |-> <<>>,
     fresh |-> {}, next_row |-> 0, got |-> {}]

NoProcess ==
    [alive |-> FALSE, confined |-> FALSE, replies |-> <<>>, then |-> "serve",
     begun |-> {}, current |-> None, received |-> 0, fonts |-> {}, pending |-> None]

(* The process as it is created: main has not yet entered its profile.     *)
Spawned == [NoProcess EXCEPT !.alive = TRUE, !.then = "confine"]

gpu_can_take(list) ==
    /\ ~given_up /\ list.fits
    /\ \A i \in 1 .. Len(list.fonts) :
          list.fonts[i] \notin rejected /\ Contains(registry, list.fonts[i])

(* exchange: the fonts this process lacks, then the list.                  *)
requests(list) ==
    LET lacking == SelectSeq(list.fonts, LAMBDA f : f \notin sent)
    IN  FoldLeft(LAMBDA done, f : done \o font_requests(f), <<>>, lacking)
           \o <<Begin(serial + 1, list), Items(list), Msg("Draw")>>

InSoftware(list) == [NoCall EXCEPT !.op = "render", !.phase = "software", !.list = list]

(* Dropping a process kills and reaps it; its threads end with it.         *)
ProcessGone_SentIsKept ==  \* Mutant: the session goes on as if the fonts were there.
    /\ held' = FALSE /\ UNCHANGED sent
    /\ gpu' = NoProcess /\ down' = <<>> /\ up' = <<>>
    /\ inbound' = <<>> /\ outbound' = <<>> /\ reader' = FALSE /\ writer' = FALSE

ProcessGone ==
    /\ held' = FALSE /\ sent' = {}
    /\ gpu' = NoProcess /\ down' = <<>> /\ up' = <<>>
    /\ inbound' = <<>> /\ outbound' = <<>> /\ reader' = FALSE /\ writer' = FALSE

GaveUp(n) == n > MAX_RESTARTS

(* History: the font refused in the message the session has before it,     *)
(* whatever the session makes of that message.                             *)
Heard ==
    IF inbound # <<>> /\ Head(inbound).kind = "Failed" /\ Head(inbound).why = "BadFont"
    THEN {Head(inbound).font} ELSE {}

(* fail, and the fonts under suspicion when the report was of a bad font.  *)
(* The frame in hand goes to software in the same call.                    *)
fail(why) ==
    /\ ProcessGone
    /\ failures' = failures + 1
    /\ given_up' = GaveUp(failures + 1)
    /\ rejected' = IF why = "BadFont" THEN rejected \cup call.fresh ELSE rejected
    /\ refused' = refused \cup Heard
    /\ call' = IF call.op = "render" THEN InSoftware(call.list) ELSE NoCall
    /\ UNCHANGED <<registry, spawned, shown>>

(* A failure while the process is being started comes before the request   *)
(* has its number, which a render takes all the same.                      *)
FailedToStart == fail("start") /\ serial' = IF call.op = "render" THEN serial + 1 ELSE serial

FailedInFrame(why) == fail(why) /\ UNCHANGED serial

register_font(f) ==
    /\ call.phase = "idle"
    /\ ~Contains(registry, f) /\ Len(registry) < MAX_FONTS
    /\ registry' = Append(registry, f)
    /\ UNCHANGED <<rejected, failures, spawned, given_up, serial, shown, refused,
                   call, held, sent, threadVars, processVars>>

(* Start the exchange of one frame with the process that is held.          *)
Exchange(list) ==
    [NoCall EXCEPT !.op = "render", !.phase = "send", !.list = list, !.todo = requests(list)]

render(list) ==
    /\ call.phase = "idle"
    /\ serial < MaxFrames
    /\ LET gpu_path == gpu_can_take(list)
       IN  /\ call' = IF ~gpu_path THEN InSoftware(list)
                      ELSE IF held THEN Exchange(list)
                      ELSE [NoCall EXCEPT !.op = "render", !.phase = "spawn", !.list = list]
           /\ serial' = IF gpu_path /\ held THEN serial + 1 ELSE serial
           /\ spawned' = IF gpu_path /\ ~held THEN spawned + 1 ELSE spawned
    /\ UNCHANGED <<registry, rejected, failures, given_up, shown, refused,
                   held, sent, threadVars, processVars>>

warm_up ==
    /\ call.phase = "idle"
    /\ ~held /\ ~given_up
    /\ spawned' = spawned + 1
    /\ call' = [NoCall EXCEPT !.op = "warm_up", !.phase = "spawn"]
    /\ UNCHANGED <<registry, rejected, failures, given_up, serial, shown, refused,
                   held, sent, threadVars, processVars>>

(* GpuProcess::start: the process and its two threads, unless the sandbox  *)
(* refuses.                                                                *)
Spawn ==
    /\ call.phase = "spawn"
    /\ gpu' = Spawned /\ reader' = TRUE /\ writer' = TRUE
    /\ call' = [call EXCEPT !.phase = "startup"]
    /\ UNCHANGED <<sessionVars, held, sent, inbound, outbound, down, up>>

SpawnRefused == call.phase = "spawn" /\ FailedToStart

(* The process says it is ready and the kernel confirms the profile.       *)
Confirmed(m) == m.kind = "Ready" /\ gpu.confined

Startup ==
    /\ call.phase = "startup"
    /\ inbound # <<>>
    /\ IF Confirmed(Head(inbound))
       THEN /\ held' = TRUE
            /\ inbound' = Tail(inbound)
            /\ serial' = IF call.op = "render" THEN serial + 1 ELSE serial
            /\ call' = IF call.op = "render" THEN Exchange(call.list) ELSE NoCall
            /\ UNCHANGED <<registry, rejected, failures, spawned, given_up, shown, refused,
                           sent, outbound, reader, writer, processVars>>
       ELSE FailedToStart

(* GpuProcess::send queues one message.  With the last chunk of a font the *)
(* font counts as sent, and as fresh for this frame.                       *)
Noted(m) == IF m.kind = "FontChunk" /\ m.offset = Chunks[m.font] - 1 THEN {m.font} ELSE {}

Send ==
    /\ call.phase = "send"
    /\ writer /\ Len(outbound) < QUEUE_DEPTH
    /\ LET m == Head(call.todo)
       IN  /\ outbound' = Append(outbound, m)
           /\ sent' = sent \cup Noted(m)
           /\ call' = [call EXCEPT !.todo = Tail(@),
                                   !.fresh = @ \cup Noted(m),
                                   !.phase = IF m.kind = "Draw" THEN "header" ELSE "send"]
    /\ UNCHANGED <<sessionVars, held, inbound, reader, writer, processVars>>

(* While the queue is full, or once the writer is gone, an early answer is *)
(* looked for; a refusal is told apart from every other failure.           *)
SendAnswered ==
    /\ call.phase = "send"
    /\ ~writer \/ Len(outbound) = QUEUE_DEPTH
    /\ inbound # <<>>
    /\ LET m == Head(inbound)
       IN  IF m.kind = "Failed" THEN FailedInFrame(m.why) ELSE FailedInFrame("send")

(* recv, once the reader has ended and nothing is left: Exited.            *)
Disconnected ==
    /\ call.phase \in {"startup", "header", "strips"}
    /\ inbound = <<>> /\ ~reader
    /\ IF call.phase = "startup" THEN FailedToStart ELSE FailedInFrame("exited")

(* The deadline passes in a wait that has found nothing: for the first     *)
(* word of the process, for room in the queue, in the grace after the      *)
(* writer has ended, or for the next message.                              *)
Deadline_NotWhileSending ==  \* Mutant: a full queue is waited on for ever.
    /\ call.phase \in {"startup", "header", "strips"}
    /\ inbound = <<>>
    /\ IF call.phase = "startup" THEN FailedToStart ELSE FailedInFrame("timeout")

Deadline ==
    /\ \/ call.phase \in {"startup", "header", "strips"}
       \/ call.phase = "send" /\ (~writer \/ Len(outbound) = QUEUE_DEPTH)
    /\ inbound = <<>>
    /\ IF call.phase = "startup" THEN FailedToStart ELSE FailedInFrame("timeout")

(* receive_frame: the header of this request, then the strips in order,    *)
(* then nothing more.                                                      *)
ReceiveHeader ==
    /\ call.phase = "header"
    /\ inbound # <<>>
    /\ LET m == Head(inbound)
       IN  IF m = Header(serial, call.list.height)
           THEN /\ inbound' = Tail(inbound)
                /\ call' = [call EXCEPT !.phase = "strips"]
                /\ UNCHANGED <<sessionVars, held, sent, outbound, reader, writer, processVars>>
           ELSE IF m.kind = "Failed" THEN FailedInFrame(m.why)
           ELSE FailedInFrame("protocol")

(* FrameAssembler::push: the one strip its arithmetic allows next.         *)
push_ok(m) ==
    /\ m.kind = "Strip"
    /\ m.first_row = call.next_row
    /\ m.rows = RowsAt(call.next_row, call.list.height)

ReceiveStrip ==
    /\ call.phase = "strips"
    /\ inbound # <<>>
    /\ LET m == Head(inbound)
       IN  IF push_ok(m)
           THEN /\ inbound' = Tail(inbound)
                /\ call' = [call EXCEPT !.next_row = @ + m.rows, !.got = @ \cup {m.of},
                               !.phase = IF call.next_row + m.rows >= call.list.height
                                         THEN "check" ELSE "strips"]
                /\ UNCHANGED <<sessionVars, held, sent, outbound, reader, writer, processVars>>
           ELSE IF m.kind = "Failed" THEN FailedInFrame(m.why)
           ELSE FailedInFrame("protocol")

(* The frame is complete; anything already waiting was not asked for.      *)
(* Strips of different lists make a frame of no list.                      *)
Assembled(lists) == IF Cardinality(lists) = 1 THEN CHOOSE l \in lists : TRUE ELSE None

Finish ==
    /\ call.phase = "check"
    /\ IF inbound # <<>> THEN FailedInFrame("protocol")
       ELSE /\ shown' = [list |-> call.list, frame |-> Assembled(call.got), by |-> "Gpu"]
            /\ call' = NoCall
            /\ UNCHANGED <<registry, rejected, failures, spawned, given_up, serial, refused,
                           held, sent, threadVars, processVars>>

SoftwareFrame ==
    /\ call.phase = "software"
    /\ shown' = [list |-> call.list, frame |-> call.list, by |-> "Software"]
    /\ call' = NoCall
    /\ UNCHANGED <<registry, rejected, failures, spawned, given_up, serial, refused,
                   held, sent, threadVars, processVars>>

------------------------------------------------------------------------------
(* The broker's two threads. *)

(* The writer ends at the first write the process does not take.           *)
Write ==
    /\ writer /\ outbound # <<>>
    /\ IF gpu.alive
       THEN /\ Len(down) < PipeDepth
            /\ down' = Append(down, Head(outbound))
            /\ outbound' = Tail(outbound)
            /\ UNCHANGED writer
       ELSE /\ writer' = FALSE
            /\ outbound' = <<>>
            /\ UNCHANGED down
    /\ UNCHANGED <<sessionVars, call, held, sent, inbound, reader, gpu, up>>

(* The reader ends with the first message that does not decode, and at the *)
(* end of the stream.                                                      *)
Read ==
    /\ reader /\ Len(inbound) < QUEUE_DEPTH
    /\ up # <<>> \/ ~gpu.alive
    /\ LET m == IF up # <<>> THEN Head(up) ELSE Msg("PeerClosed")
       IN  /\ inbound' = Append(inbound, m)
           /\ reader' = (m.kind \notin {"Malformed", "PeerClosed"})
    /\ up' = IF up # <<>> THEN Tail(up) ELSE up
    /\ UNCHANGED <<sessionVars, call, held, sent, outbound, writer, gpu, down>>

------------------------------------------------------------------------------
(* The process. *)

(* main: enter the profile and say so, or leave; a process that is not     *)
(* this program might claim a profile it has not entered.                  *)
Confine ==
    /\ gpu.alive /\ gpu.then = "confine"
    /\ \E confined \in BOOLEAN :
          gpu' = [gpu EXCEPT !.confined = confined, !.then = "serve",
                             !.replies = <<Msg("Ready")>>]
    /\ UNCHANGED <<sessionVars, call, held, sent, threadVars, down, up>>

(* server.rs, fail: say why if the channel allows, and leave.              *)
Failing(why, f) == [gpu EXCEPT !.replies = <<Failed(why, f)>>, !.then = "exit"]

(* FontAssembler::begin and chunk, and the parse of a complete font.       *)
FontBegun(m) ==
    IF \/ gpu.current # None \/ m.font \in gpu.begun
       \/ Cardinality(gpu.begun) >= MAX_FONTS
    THEN Failing("BadFontTransfer", None)
    ELSE [gpu EXCEPT !.begun = @ \cup {m.font}, !.current = m.font, !.received = 0]

FontReceived(m) ==
    IF m.font # gpu.current \/ m.offset # gpu.received THEN Failing("BadFontTransfer", None)
    ELSE IF gpu.received + 1 < Chunks[m.font] THEN [gpu EXCEPT !.received = @ + 1]
    ELSE IF m.font \in BadFont THEN Failing("BadFont", m.font)
    ELSE [gpu EXCEPT !.current = None, !.received = 0, !.fonts = @ \cup {m.font}]

Honest(list) == <<Header(gpu.pending.serial, list.height)>> \o strips_of(list)

(* faults.rs, misbehave: what is written in place of the frame, and what   *)
(* the process does then.                                                  *)
Misbehaviour(fault, list) ==
    CASE fault = "Exit" -> [replies |-> <<>>, then |-> "exit"]
      [] fault = "Malformed" -> [replies |-> <<Msg("Malformed")>>, then |-> "exit"]
      [] fault = "Hang" -> [replies |-> <<>>, then |-> "hang"]
      [] fault = "StallMidFrame" -> [replies |-> SubSeq(Honest(list), 1, 2), then |-> "hang"]
      [] fault = "Flood" ->
            [replies |-> Append(Honest(list), Strip(0, 1, list)), then |-> "hang"]
      [] fault = "WrongRows" ->
            [replies |-> <<Head(Honest(list)), Strip(0, RowsAt(0, list.height) - 1, list)>>,
             then |-> "exit"]
      [] fault = "WrongSerial" ->
            [replies |-> <<Header(gpu.pending.serial + 1, list.height)>>, then |-> "exit"]

Answering(answer) ==
    [gpu EXCEPT !.pending = None, !.replies = answer.replies, !.then = answer.then]

Drawn ==
    LET list == gpu.pending.list
    IN  IF list = None THEN {Failing("BadItemCount", None)}
        ELSE IF \E i \in 1 .. Len(list.fonts) : list.fonts[i] \notin gpu.fonts
        THEN {Failing("UnknownFont", None)}
        ELSE {Failing("Backend", None), Answering([replies |-> Honest(list), then |-> "serve"])}
                \cup {Answering(Misbehaviour(fault, list)) : fault \in Fault}

(* serve, one request: what the process may be afterwards.                 *)
Served(m) ==
    CASE m.kind = "FontBegin" ->
            {IF gpu.pending # None THEN Failing("OutOfOrder", None) ELSE FontBegun(m)}
      [] m.kind = "FontChunk" ->
            {IF gpu.pending # None THEN Failing("OutOfOrder", None) ELSE FontReceived(m)}
      [] m.kind = "Begin" ->
            {IF gpu.pending # None \/ gpu.current # None THEN Failing("OutOfOrder", None)
             ELSE [gpu EXCEPT !.pending = [serial |-> m.serial, list |-> None]]}
      [] m.kind = "Items" ->
            {IF gpu.pending = None THEN Failing("OutOfOrder", None)
             ELSE [gpu EXCEPT !.pending.list = m.list]}
      [] m.kind = "Draw" ->
            IF gpu.pending = None THEN {Failing("OutOfOrder", None)} ELSE Drawn

Serve ==
    /\ gpu.alive /\ gpu.then = "serve" /\ gpu.replies = <<>>
    /\ down # <<>>
    /\ gpu' \in Served(Head(down))
    /\ down' = Tail(down)
    /\ UNCHANGED <<sessionVars, call, held, sent, threadVars, up>>

Reply ==
    /\ gpu.alive /\ gpu.replies # <<>> /\ Len(up) < PipeDepth
    /\ up' = Append(up, Head(gpu.replies))
    /\ gpu' = [gpu EXCEPT !.replies = Tail(@)]
    /\ UNCHANGED <<sessionVars, call, held, sent, threadVars, down>>

(* The process leaves when it is done, and may be killed at any time.      *)
Die ==
    /\ gpu.alive
    /\ gpu' = [gpu EXCEPT !.alive = FALSE, !.replies = <<>>, !.then = "exit",
                          !.pending = None, !.current = None, !.received = 0]
    /\ down' = <<>>
    /\ UNCHANGED <<sessionVars, call, held, sent, threadVars, up>>

------------------------------------------------------------------------------
GpuInit ==
    /\ registry = <<>> /\ rejected = {} /\ failures = 0 /\ spawned = 0
    /\ given_up \in BOOLEAN   \* a session with no executable starts given up
    /\ serial = 0 /\ shown = None /\ refused = {}
    /\ call = NoCall /\ held = FALSE /\ sent = {}
    /\ inbound = <<>> /\ outbound = <<>> /\ reader = FALSE /\ writer = FALSE
    /\ gpu = NoProcess /\ down = <<>> /\ up = <<>>

SessionStep ==
    \/ Spawn \/ SpawnRefused \/ Startup \/ Send \/ SendAnswered \/ Disconnected \/ Deadline
    \/ ReceiveHeader \/ ReceiveStrip \/ Finish \/ SoftwareFrame

GpuNext ==
    \/ \E f \in Font : register_font(f)
    \/ \E list \in DisplayList : render(list)
    \/ warm_up \/ SessionStep
    \/ Write \/ Read \/ Confine \/ Serve \/ Reply \/ Die

(* The session's own thread runs, and time passes; nothing is asked of the *)
(* process or of the threads that talk to it.                              *)
GpuSpec == GpuInit /\ [][GpuNext]_gpuVars /\ WF_gpuVars(SessionStep)

------------------------------------------------------------------------------
(* Properties. *)

(* The session and its processes agree on the fonts, whatever was lost     *)
(* with earlier processes.  Nothing is sent that the protocol refuses: the *)
(* only failures a process reports are of a font that does not parse and   *)
(* of its own backend (server.rs, serve).  A font refused in a report that *)
(* was before the session when it gave a process up is among the rejected, *)
(* whichever wait the report ended, and no rejected font is ever queued    *)
(* again, on its way, or in a process's hands (GpuSession::render).        *)
FontsStayInStep ==
    /\ \A q \in {gpu.replies, up, inbound} : \A i \in 1 .. Len(q) :
          q[i].kind = "Failed" => q[i].why \in {"BadFont", "Backend"}
    /\ refused \subseteq rejected
    /\ gpu.begun \cap rejected = {}
    /\ \A q \in {call.todo, outbound, down} : \A i \in 1 .. Len(q) :
          q[i].kind \in {"FontBegin", "FontChunk"} => q[i].font \notin rejected

(* Every frame asked for is shown, is the frame of the list asked for (but *)
(* for its images when a process draws it), and never again comes from a   *)
(* process once the session has given up (GpuSession::render).             *)
AsRenderer ==
    INSTANCE Renderer WITH
        wanted <- IF call.op = "render" THEN call.list ELSE None,
        shown <- IF shown = None THEN None ELSE [frame |-> shown.frame, by |-> shown.by],
        software <- given_up

RendersAsPromised == AsRenderer!RendererSpec
=============================================================================
