------------------------------- MODULE Events -------------------------------
(***************************************************************************)
(* The events of one job, from the goroutines that publish them through    *)
(* the log on disk (filestore Append and History) and the in-process bus   *)
(* to the two kinds of reader: clients of the WebSocket stream, and the    *)
(* polling loop of the command line client.  The run is reduced to what it *)
(* publishes and writes, in order; Processor has the rest of it.           *)
(***************************************************************************)
EXTENDS Naturals, Sequences, FiniteSets

CONSTANTS
  Clients,       \* of the stream; each connects once
  Buffer,        \* capacity of a subscription's channel
  Steps,         \* progress events of a run
  MaxRestarts,   \* bound: times the process is started again
  MaxRefused,    \* bound: events the log refuses to take
  Faults,        \* what this instance lets go wrong
  Readers,       \* who reads: clients of the stream, or the polling loop
  None           \* no event, nobody

FaultKinds ==
  {"crash",    \* the process is killed
   "append",   \* the log cannot be written, or not all of a line
   "torn"}     \* the process is killed while it writes a line

Publishers == {"handler", "run"}
Ends == {"completed", "failed", "cancelled"}

\* An event: the life of the process it is its type, and for a step of a
\* run its number (job.started is step 0).
Events == (0..MaxRestarts) \X ({"created"} \cup Ends \cup {"step"}) \X (0..Steps)
Step(l, i) == <<l, "step", i>>
Type(e) == e[2]

ASSUME EventsAssumption ==
  /\ Buffer \in Nat \ {0} /\ Steps \in Nat \ {0} /\ MaxRestarts \in Nat
  /\ MaxRefused \in Nat
  /\ Faults \subseteq FaultKinds /\ Readers \subseteq {"stream", "poll"}
  /\ None \notin Events /\ None \notin Publishers

VARIABLES
  phase,     \* of the process: up, down, or recovering before it listens
  life,      \* times it was started again
  record,    \* the job's stored status; "active" is every status of a run
  log,       \* the events History can read, in order
  tail,      \* the last line of the file: "clean" ends in a newline; "half" has
             \* no newline and is not readable; "whole" only lacks the newline
  refused,   \* events whose Append returned an error
  glued,     \* events whose line was appended to one without a newline
  handler,   \* where the submission is
  run,       \* where the run, or the recovery of the job, is
  n,         \* steps the run has published
  end,       \* the status it is ending in
  msg,       \* publisher -> the event it is publishing, or None
  at,        \* publisher -> how far it is with it
  lock,      \* the publisher that holds the bus's mutex
  todo,      \* subscribers it has not sent to yet
  conn,      \* client -> its connection
  buf,       \* client -> the channel of its subscription
  got,       \* client -> what reached it over the stream
  missed,    \* client -> events that passed it by: its channel was full, or it
             \* had read the history and was not subscribed yet
  caughtUp,  \* client -> what it read of the history once it was connected
  watch,     \* where the polling loop is
  printed    \* what it has printed; `seen` is its length

jobVars    == <<record, handler, run, n, end>>
pubVars    == <<msg, at>>
busVars    == <<lock, todo>>
clientVars == <<conn, buf, got, missed, caughtUp>>
watchVars  == <<watch, printed>>
procVars   == <<phase, life>>
logVars    == <<log, tail, refused, glued>>
vars == <<procVars, jobVars, logVars, pubVars, busVars, clientVars, watchVars>>

Subscribed == {c \in Clients : conn[c] = "open"}
Connected  == {c \in Clients : conn[c] \in {"accepted", "open"}}

\* The HTTP listener answers.
Listening == phase = "up"
Running   == phase \in {"up", "recovering"}

\* What a client that read the history from index `since` on is sent. An index
\* past the end gets nothing.
SinceExclusive(since) == SubSeq(log, since + 2, Len(log))
Since(since) == SubSeq(log, since + 1, Len(log))

Init ==
  /\ phase = "up" /\ life = 0
  /\ record = "queued" /\ handler = "submitting" /\ run = "off" /\ n = 0 /\ end = None
  /\ log = <<>> /\ tail = "clean" /\ refused = {} /\ glued = {}
  /\ msg = [p \in Publishers |-> None] /\ at = [p \in Publishers |-> 1]
  /\ lock = None /\ todo = {}
  /\ buf = [c \in Clients |-> <<>>] /\ got = [c \in Clients |-> <<>>]
  /\ missed = [c \in Clients |-> {}] /\ caughtUp = [c \in Clients |-> None]
  /\ printed = <<>>
  \* Readers share nothing that they change, so one kind at a time is enough.
  /\ \/ /\ "stream" \in Readers
        /\ conn = [c \in Clients |-> "off"] /\ watch = "off"
     \/ /\ "poll" \in Readers
        /\ conn = [c \in Clients |-> "closed"] /\ watch = "creating"

-----------------------------------------------------------------------------
(* events.go and store.go: persist, then fan out. *)

\* Publish is called: nothing has happened to the event yet.
Begin(p, e) == msg' = [msg EXCEPT ![p] = e] /\ at' = [at EXCEPT ![p] = 1]

OrderLiveFirst == <<"fan out", "append">>
Order == <<"append", "fan out">>

\* Publish is past its step `at`.
PublishGoesOn(p) ==
  IF at[p] = 1 THEN at' = [at EXCEPT ![p] = 2] /\ UNCHANGED msg
               ELSE msg' = [msg EXCEPT ![p] = None] /\ UNCHANGED at

\* What a write of the line of `e` leaves in the file, of which `part` got
\* there: "none" of it, "half", the "whole" event without its newline, or the
\* "line". After a newline History reads it unless it is half. Otherwise it is
\* glued to the line before, and History can read neither.
Grow(e, part) ==
  IF tail = "clean"
    THEN /\ log' = IF part \in {"whole", "line"} THEN Append(log, e) ELSE log
         /\ tail' = IF part \in {"none", "line"} THEN "clean" ELSE part
         /\ UNCHANGED glued
    ELSE /\ log' = IF tail = "whole" /\ part # "none" THEN SubSeq(log, 1, Len(log) - 1) ELSE log
         /\ tail' = CASE part = "none" -> tail [] part = "line" -> "clean" [] OTHER -> "half"
         /\ glued' = IF part = "line" THEN glued \cup {e} ELSE glued

\* Store.Append: the line is written, or opening the file or writing to it fails
\* and part of the line may be there. An error ends Publish, and its callers
\* ignore it.
AppendToLog(p) ==
  /\ Running /\ msg[p] # None /\ Order[at[p]] = "append"
  /\ \/ /\ Grow(msg[p], "line")
        /\ PublishGoesOn(p)
        /\ UNCHANGED refused
     \/ /\ "append" \in Faults /\ Cardinality(refused) < MaxRefused
        /\ \E part \in {"none", "half", "whole"} : Grow(msg[p], part)
        /\ refused' = refused \cup {msg[p]}
        /\ msg' = [msg EXCEPT ![p] = None]
        /\ UNCHANGED at
  /\ UNCHANGED <<procVars, jobVars, busVars, clientVars, watchVars>>

\* InProcessBus.Publish takes the mutex and walks the job's subscribers. It passes
\* by a client whose connection is accepted and not subscribed; one that has read
\* the history already has no other way to the event.
FanOut(p) ==
  /\ Running /\ msg[p] # None /\ Order[at[p]] = "fan out" /\ lock = None
  /\ lock' = p
  /\ todo' = Subscribed
  /\ missed' = [c \in Clients |-> IF conn[c] = "accepted" /\ caughtUp[c] # None
                                   THEN missed[c] \cup {msg[p]} ELSE missed[c]]
  /\ UNCHANGED <<procVars, jobVars, logVars, pubVars, conn, buf, got, caughtUp, watchVars>>

Room(c) == Len(buf[c]) < Buffer

SendBlocking(p, c) ==
  /\ lock = p /\ c \in todo /\ Room(c)
  /\ todo' = todo \ {c}
  /\ buf' = [buf EXCEPT ![c] = Append(@, msg[p])]
  /\ UNCHANGED <<procVars, jobVars, logVars, pubVars, lock, conn, got,
                 missed, caughtUp, watchVars>>

\* The non-blocking send: into the channel, or the event is dropped.
Send(p, c) ==
  /\ lock = p /\ c \in todo
  /\ todo' = todo \ {c}
  /\ IF Room(c)
       THEN buf' = [buf EXCEPT ![c] = Append(@, msg[p])] /\ UNCHANGED missed
       ELSE missed' = [missed EXCEPT ![c] = @ \cup {msg[p]}] /\ UNCHANGED buf
  /\ UNCHANGED <<procVars, jobVars, logVars, pubVars, lock, conn, got,
                 caughtUp, watchVars>>

FannedOut(p) ==
  /\ lock = p /\ todo = {}
  /\ lock' = None
  /\ PublishGoesOn(p)
  /\ UNCHANGED <<procVars, jobVars, logVars, todo, clientVars, watchVars>>

-----------------------------------------------------------------------------
(* Who publishes: JobsHandler.Create and the run, with its record writes. *)

\* The job is in the queue; only then does the handler publish job.created.
Submit ==
  /\ Listening /\ handler = "submitting"
  /\ handler' = "answered"
  /\ run' = "waiting"
  /\ Begin("handler", <<life, "created", 0>>)
  /\ UNCHANGED <<procVars, record, n, end, logVars, busVars, clientVars, watchVars>>

\* The queue is full: the job is failed, and nothing is published.
Reject ==
  /\ Listening /\ handler = "submitting"
  /\ handler' = "rejected"
  /\ record' = "failed"
  /\ UNCHANGED <<procVars, run, n, end, logVars, pubVars, busVars, clientVars, watchVars>>

\* A worker takes the job: job.started.
Start ==
  /\ Running /\ run = "waiting"
  /\ run' = "running" /\ n' = 0
  /\ Begin("run", Step(life, 0))
  /\ UNCHANGED <<procVars, record, handler, end, logVars, busVars, clientVars, watchVars>>

\* The run is between two calls of emit.
Quiet == Running /\ msg["run"] = None

\* step.started and the other progress events, one after the other.
Progress ==
  /\ Quiet /\ run = "running" /\ n < Steps
  /\ n >= 1 => record = "active"
  /\ n' = n + 1
  /\ Begin("run", Step(life, n + 1))
  /\ UNCHANGED <<procVars, record, handler, run, end, logVars, busVars, clientVars,
                 watchVars>>

\* advance writes the first status of the run, after its step.started.
Activate ==
  /\ Quiet /\ run = "running" /\ n = 1 /\ record = "queued"
  /\ record' = "active"
  /\ UNCHANGED <<procVars, handler, run, n, end, logVars, pubVars, busVars, clientVars,
                 watchVars>>

\* markFailed and markCancelled: publish the end, then write it.
EndBadly(s) ==
  /\ Quiet /\ run = "running"
  /\ run' = "ending" /\ end' = s
  /\ Begin("run", <<life, s, 0>>)
  /\ UNCHANGED <<procVars, record, handler, n, logVars, busVars, clientVars, watchVars>>

PersistEndOfOther ==
  /\ Quiet /\ run = "ending"
  /\ record' = "failed"
  /\ run' = "over"
  /\ UNCHANGED <<procVars, handler, n, end, logVars, pubVars, busVars, clientVars,
                 watchVars>>

PersistEnd ==
  /\ Quiet /\ run = "ending"
  /\ record' = end
  /\ run' = "over"
  /\ UNCHANGED <<procVars, handler, n, end, logVars, pubVars, busVars, clientVars,
                 watchVars>>

\* The last step: write `completed`, then publish it.
Complete ==
  /\ Quiet /\ run = "running" /\ n = Steps /\ record = "active"
  /\ record' = "completed"
  /\ run' = "over"
  /\ Begin("run", <<life, "completed", 0>>)
  /\ UNCHANGED <<procVars, handler, n, end, logVars, busVars, clientVars, watchVars>>

-----------------------------------------------------------------------------
(* stream.go *)

\* websocket.Accept: the client sees its connection before the handler subscribes.
Accept(c) ==
  /\ Listening /\ conn[c] = "off"
  /\ conn' = [conn EXCEPT ![c] = "accepted"]
  /\ UNCHANGED <<procVars, jobVars, logVars, pubVars, busVars, buf, got, missed,
                 caughtUp, watchVars>>

\* Bus.Subscribe, under the bus's mutex.
Subscribe(c) ==
  /\ Running /\ conn[c] = "accepted" /\ lock = None
  /\ conn' = [conn EXCEPT ![c] = "open"]
  /\ UNCHANGED <<procVars, jobVars, logVars, pubVars, busVars, buf, got, missed,
                 caughtUp, watchVars>>

\* The client reads the history once it is connected; it cannot tell whether it
\* is subscribed.
CatchUp(c) ==
  /\ Listening /\ c \in Connected /\ caughtUp[c] = None
  /\ caughtUp' = [caughtUp EXCEPT ![c] = Since(0)]
  /\ UNCHANGED <<procVars, jobVars, logVars, pubVars, busVars, conn, buf, got,
                 missed, watchVars>>

\* The handler takes an event out of the channel and writes it to the client.
Deliver(c) ==
  /\ Running /\ conn[c] = "open" /\ buf[c] # <<>>
  /\ buf' = [buf EXCEPT ![c] = Tail(@)]
  /\ got' = [got EXCEPT ![c] = Append(@, Head(buf[c]))]
  /\ UNCHANGED <<procVars, jobVars, logVars, pubVars, busVars, conn, missed,
                 caughtUp, watchVars>>

\* Streams that are over; what they saw is of no further interest.
Gone(cs) ==
  /\ conn'     = [c \in Clients |-> IF c \in cs THEN "closed" ELSE conn[c]]
  /\ buf'      = [c \in Clients |-> IF c \in cs THEN <<>> ELSE buf[c]]
  /\ got'      = [c \in Clients |-> IF c \in cs THEN <<>> ELSE got[c]]
  /\ missed'   = [c \in Clients |-> IF c \in cs THEN {} ELSE missed[c]]
  /\ caughtUp' = [c \in Clients |-> IF c \in cs THEN None ELSE caughtUp[c]]

UnsubscribeUnlocked(c) ==
  /\ Running /\ conn[c] = "open"
  /\ Gone({c})
  /\ UNCHANGED <<procVars, jobVars, logVars, pubVars, busVars, watchVars>>

\* The client is gone, or a write to it failed: the handler returns, and its
\* deferred Unsubscribe closes the channel under the bus's mutex.
Unsubscribe(c) ==
  /\ Running /\ conn[c] = "open" /\ lock = None
  /\ Gone({c})
  /\ UNCHANGED <<procVars, jobVars, logVars, pubVars, busVars, watchVars>>

-----------------------------------------------------------------------------
(* cmd/rojo: create the job, then watch it: the new events, then the       *)
(* status, until that is an end.                                           *)

\* createJob returns, with the job or with an error.
WatchCreated ==
  /\ watch = "creating"
  /\ \/ handler = "answered" /\ msg["handler"] = None /\ watch' = "events"
     \/ handler \in {"rejected", "broken"} /\ watch' = "error"
  /\ UNCHANGED <<procVars, jobVars, logVars, pubVars, busVars, clientVars, printed>>

\* A request to a process that does not listen ends the loop with an error.
Ask(answered) ==
  IF Listening THEN answered ELSE watch' = "error" /\ UNCHANGED printed

WatchEvents ==
  /\ watch = "events"
  /\ Ask(watch' = "status" /\ printed' = printed \o Since(Len(printed)))
  /\ UNCHANGED <<procVars, jobVars, logVars, pubVars, busVars, clientVars>>

WatchStatus ==
  /\ watch = "status"
  /\ Ask(/\ watch' = IF record \in Ends THEN "done" ELSE "events"
         /\ UNCHANGED printed)
  /\ UNCHANGED <<procVars, jobVars, logVars, pubVars, busVars, clientVars>>

-----------------------------------------------------------------------------
\* Nothing of the process is left, and every stream breaks.
Die ==
  /\ phase' = "down"
  /\ handler' = IF handler = "submitting" \/ msg["handler"] # None THEN "broken" ELSE handler
  /\ run' = "off" /\ n' = 0 /\ end' = None
  /\ msg' = [p \in Publishers |-> None] /\ at' = [p \in Publishers |-> 1]
  /\ lock' = None /\ todo' = {}
  /\ Gone(Connected)
  /\ UNCHANGED <<life, record, refused, watchVars>>

Crash == Running /\ "crash" \in Faults /\ Die /\ UNCHANGED <<log, tail, glued>>

\* Killed while a line is being written, before its last byte is.
TearLine(p) ==
  /\ Running /\ "torn" \in Faults
  /\ msg[p] # None /\ Order[at[p]] = "append"
  /\ Die
  /\ \E part \in {"half", "whole"} : Grow(msg[p], part)

\* Recovery requeues a job that never started and fails one that did.
Restart ==
  /\ phase = "down" /\ life < MaxRestarts
  /\ phase' = "recovering"
  /\ life' = life + 1
  /\ \/ /\ record = "queued"
        /\ run' = "waiting" /\ UNCHANGED <<end, pubVars>>
     \/ /\ record = "active"
        /\ run' = "ending" /\ end' = "failed"
        /\ Begin("run", <<life + 1, "failed", 0>>)
     \/ /\ record \in Ends
        /\ UNCHANGED <<run, end, pubVars>>
  /\ UNCHANGED <<record, handler, n, logVars, busVars, clientVars, watchVars>>

\* Recover is done with the job, and the listener starts.
Listen ==
  /\ phase = "recovering" /\ (end = "failed" => run = "over")
  /\ phase' = "up"
  /\ UNCHANGED <<life, jobVars, logVars, pubVars, busVars, clientVars, watchVars>>

-----------------------------------------------------------------------------
PublishStep(p) == AppendToLog(p) \/ FanOut(p) \/ (\E c \in Clients : Send(p, c)) \/ FannedOut(p)

RunStep == Start \/ Progress \/ Activate \/ PersistEnd \/ Complete
           \/ \E s \in {"failed", "cancelled"} : EndBadly(s)

ClientStep(c) == Accept(c) \/ Subscribe(c) \/ CatchUp(c) \/ Deliver(c) \/ Unsubscribe(c)

WatchStep == WatchCreated \/ WatchEvents \/ WatchStatus

\* The job has ended, or the process stays down; nothing need happen.
Rest == /\ \/ record \in Ends /\ \A p \in Publishers : msg[p] = None
           \/ phase = "down" /\ life = MaxRestarts
        /\ UNCHANGED vars

Next ==
  \/ Submit \/ Reject \/ RunStep
  \/ \E p \in Publishers : PublishStep(p) \/ TearLine(p)
  \/ \E c \in Clients : ClientStep(c)
  \/ WatchStep
  \/ Crash \/ Restart \/ Listen \/ Rest

Spec == Init /\ [][Next]_vars

\* Goroutines that can go on do, the polling loop polls, and a supervisor
\* starts the process again. No client need read, leave or catch up.
FairSpec ==
  /\ Spec
  /\ WF_vars(Submit \/ Reject) /\ WF_vars(RunStep)
  /\ \A p \in Publishers : WF_vars(PublishStep(p))
  /\ WF_vars(WatchStep) /\ WF_vars(Restart) /\ WF_vars(Listen)
-----------------------------------------------------------------------------
\* The range of every variable of the feed.
TypeOK ==
  /\ phase \in {"up", "down", "recovering"} /\ life \in 0..MaxRestarts
  /\ record \in {"queued", "active"} \cup Ends
  /\ log \in Seq(Events) /\ tail \in {"clean", "half", "whole"}
  /\ refused \subseteq Events /\ glued \subseteq Events
  /\ handler \in {"submitting", "answered", "rejected", "broken"}
  /\ run \in {"off", "waiting", "running", "ending", "over"}
  /\ n \in 0..Steps /\ end \in {None, "failed", "cancelled"}
  /\ msg \in [Publishers -> Events \cup {None}] /\ at \in [Publishers -> 1..2]
  /\ lock \in Publishers \cup {None} /\ todo \subseteq Clients
  /\ conn \in [Clients -> {"off", "accepted", "open", "closed"}]
  /\ \A c \in Clients : buf[c] \in Seq(Events) /\ Len(buf[c]) <= Buffer
  /\ got \in [Clients -> Seq(Events)]
  /\ missed \in [Clients -> SUBSET Events]
  /\ caughtUp \in [Clients -> Seq(Events) \cup {None}]
  /\ watch \in {"off", "creating", "events", "status", "done", "error"} /\ printed \in Seq(Events)

In(e, s) == \E i \in 1..Len(s) : s[i] = e

Streamed(c) == got[c] \o buf[c]

\* A subscriber never sees, and is never about to see, an event that a client
\* reading the history cannot read, and none that could not be written
\* (PersistingBus.Publish); but for a line glued to one without a newline, which
\* a killed process or a short write left.
StreamIsReplayable ==
  \A c \in Clients : \A i \in 1..Len(Streamed(c)) :
    In(Streamed(c)[i], log) \/ Streamed(c)[i] \in glued

\* A client that connects and then reads the history misses nothing: each event
\* in the history is one it read there, one it got or is in its channel, or one
\* that is still to be sent to it. The exceptions are events that passed it by
\* (`missed`): its own full channel made the bus drop them, or it read the history
\* between websocket.Accept and Bus.Subscribe, and they were sent in that gap; and
\* a line that is readable though its Append returned an error, so that it was
\* never sent to anyone.
CatchUpIsComplete ==
  \A c \in Clients : conn[c] = "open" /\ caughtUp[c] # None =>
    \A i \in 1..Len(log) :
      \/ In(log[i], caughtUp[c]) \/ In(log[i], Streamed(c))
      \/ log[i] \in missed[c] \cup refused
      \/ \E p \in Publishers : msg[p] = log[i] /\ (lock = p => c \in todo)

\* What main.go:80-81 says of the two: the history and the stream never disagree,
\* neither in what was streamed nor in what a client that has both goes without.
StreamAndHistoryAgree == StreamIsReplayable /\ CatchUpIsComplete

\* The publisher only sends to channels that are open: a client that leaves
\* during a fan-out does not panic the worker.
NoSendOnClosedChannel == todo \subseteq Subscribed

\* Once the run is over, the last end in the history is the one in the record.
\* The exceptions are a job that was turned away at the door, whose history
\* has no end, a job whose process died between the write of `completed` and
\* its event, which no recovery makes up for, and an end the log did not take.
EndsOf(s) == {i \in 1..Len(s) : Type(s[i]) \in Ends}
LastEnd == IF EndsOf(log) = {} THEN None
           ELSE Type(log[CHOOSE i \in EndsOf(log) : \A k \in EndsOf(log) : k <= i])
HistoryAgreesWithRecord ==
  record \in Ends /\ msg["run"] = None =>
    \/ LastEnd = record
    \/ handler = "rejected" /\ LastEnd = None
    \/ record = "completed" /\ run = "off"
    \/ \E e \in refused \cup glued : Type(e) = record

\* The history and the polling client behave as EventFeed says.
F == INSTANCE EventFeed WITH history <- log, shown <- printed, unsure <- tail = "whole"
ImplementsFeed == F!Feed

\* No subscriber, however slow, keeps a job from its end.
JobEnds == <>(record \in Ends \/ (phase = "down" /\ life = MaxRestarts))

\* The polling loop ends: with the job, or because it met a process that did
\* not answer.
WatchReturns == <>(watch \in {"off", "done", "error"})

\* Neither the worker that publishes nor the client that polls waits for ever for
\* the other: the one because sends never block, the other because every end of a
\* job, recovery's too, reaches the record that it polls.
NobodyWaits == JobEnds /\ WatchReturns
-----------------------------------------------------------------------------
(* What comments of the repository say and the code does not do. *)

\* A live subscriber never sees an event that is missing from the history.
SeenIsInHistory ==
  \A c \in Clients : \A i \in 1..Len(got[c]) : In(got[c][i], log)

\* The history and the stream never disagree: what a subscriber sees is in
\* the order of the log.
StreamIsInHistoryOrder ==
  \A c \in Clients : \A i, k \in 1..Len(got[c]) : i < k =>
    ~\E a, b \in 1..Len(log) : a < b /\ log[a] = got[c][k] /\ log[b] = got[c][i]
=============================================================================
