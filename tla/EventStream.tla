----------------------------- MODULE EventStream -----------------------------
(***************************************************************************)
(* The event stream of one run: the worker that emits events, the Redis    *)
(* PubSub channel and replay buffer, and the SSE connections of clients.   *)
(* Keys and channels carry the run id, so runs do not interact here.       *)
(*                                                                         *)
(* A step is one Redis command.  Writing to an SSE connection touches no   *)
(* shared state and is part of the step that obtained the events.          *)
(***************************************************************************)
EXTENDS Naturals, Sequences, FiniteSetsExt

CONSTANTS
  Clients,      \* SSE clients
  NoClient,     \* the run was created without a stream
  Openers,      \* who may have created the run with .../runs/stream
  Resumables,   \* values of stream_resumable: a set of BOOLEANs
  Ends,         \* names of terminal events
  Faults,       \* "lost": PUBLISH or RPUSH may fail, "clock": LLEN, "read": LRANGE,
                \* "ttl": the buffer may expire while the worker is silent
  ApiRollback,  \* TRUE when the run may be cancelled with action=rollback
  MaxEvents,    \* bound: events the worker emits
  MaxJoins,     \* bound: calls of joinRunStream per client
  ClockId       \* stands for time.Now().UnixNano(), above every count

ASSUME EventStreamAssumption ==
  /\ NoClient \notin Clients
  /\ Openers \subseteq Clients \cup {NoClient}
  /\ Resumables \subseteq BOOLEAN
  /\ Ends \subseteq {"run_completed", "run_failed", "run_interrupted", "run_rolled_back",
                  "run_sandbox_allocation_failed"}
  /\ Faults \subseteq {"lost", "clock", "read", "ttl"}
  /\ ApiRollback \in BOOLEAN
  /\ {MaxEvents, MaxJoins, ClockId} \subseteq Nat
  /\ MaxEvents > 0
  /\ ClockId > MaxEvents + 1

VARIABLES
  resumable,  \* runs.stream_resumable
  opener,     \* the client whose request created the run, or NoClient
  row,        \* the run is in table runs
  buffer,     \* Redis list of the run's events
  memory,     \* events in the store of the API server that created the run
  wpc, wev, wend, emitted,  \* worker: step, event in hand, whether it is the
                            \* last one, events begun so far
  failed,                   \* history: what has gone wrong with the emission ("lost",
                            \* "clock", "expired"), and "lapsed" when its buffer has
                            \* expired after the end
  cancel,                   \* handler of a rollback request: "none", "purge", "done"
  torn,                     \* history: clients that were joining when it deleted the buffer
  pc, sub, inbox, from, last, log, joins  \* connections of clients

worker == <<wpc, wev, wend, emitted>>
conns == <<pc, sub, inbox, from, last, log, joins>>
run == <<resumable, opener>>
vars == <<run, row, buffer, memory, worker, failed, cancel, torn, conns>>

Names == {"run_queued", "progress"} \cup Ends

\* n is the place of the event in the worker's emission, 0 for run_queued.
Events == [id : Nat, n : 0..MaxEvents, name : Names]
Queued == [id |-> 1, n |-> 0, name |-> "run_queued"]

TypeOK ==
  /\ resumable \in BOOLEAN
  /\ opener \in Clients \cup {NoClient}
  /\ row \in BOOLEAN
  /\ buffer \in Seq(Events)
  /\ memory \in Seq(Events)
  /\ wpc \in {"idle", "publish", "push", "purge", "done", "dead"}
  /\ wev \in Events
  /\ wend \in BOOLEAN
  /\ emitted \in 0..MaxEvents
  /\ failed \subseteq {"lost", "clock", "expired", "lapsed"}
  /\ cancel \in {"none", "purge", "done"}
  /\ torn \subseteq Clients
  /\ pc \in [Clients -> {"away", "create", "queue", "store", "load", "live"}]
  /\ sub \in [Clients -> BOOLEAN]
  /\ inbox \in [Clients -> Seq(Events)]
  /\ from \in [Clients -> Nat]
  /\ last \in [Clients -> Nat]
  /\ log \in [Clients -> Seq(Events)]
  /\ joins \in [Clients -> 0..MaxJoins]

Init ==
  /\ resumable \in Resumables
  /\ opener \in Openers
  /\ row = TRUE
  /\ buffer = <<>>
  /\ memory = <<>>
  /\ wpc = "idle"
  /\ wev = Queued
  /\ wend = FALSE
  /\ emitted = 0
  /\ failed = {}
  /\ cancel = "none"
  /\ torn = {}
  /\ pc = [c \in Clients |-> IF c = opener THEN "create" ELSE "away"]
  /\ sub = [c \in Clients |-> FALSE]
  /\ inbox = [c \in Clients |-> <<>>]
  /\ from = [c \in Clients |-> 0]
  /\ last = [c \in Clients |-> 0]
  /\ log = [c \in Clients |-> <<>>]
  /\ joins = [c \in Clients |-> 0]

-----------------------------------------------------------------------------
(* Redis.                                                                  *)

\* PUBLISH reaches the connections whose subscription is in effect.
Reaches(e) == inbox' = [c \in Clients |-> IF sub[c] THEN Append(inbox[c], e) ELSE inbox[c]]

\* Its error is dropped by both callers.
Publish(e) == \/ Reaches(e) /\ UNCHANGED failed
              \/ "lost" \in Faults /\ failed' = failed \cup {"lost"} /\ UNCHANGED inbox

\* The EXPIRE that follows starts the TTL anew: see ExpireBuffer.
Push(e) == \/ buffer' = Append(buffer, e) /\ UNCHANGED failed
           \/ "lost" \in Faults /\ failed' = failed \cup {"lost"} /\ UNCHANGED buffer

\* The TTL of the buffer runs out, some time after the last RPUSH: once the
\* worker has stopped it will, and before that it may if the configured TTL is
\* shorter than the worker's silence.
ExpireBuffer ==
  /\ buffer # <<>>
  /\ wpc \in {"done", "dead"} \/ "ttl" \in Faults
  /\ buffer' = <<>>
  /\ failed' = failed \cup {IF wpc \in {"done", "dead"} THEN "lapsed" ELSE "expired"}
  /\ UNCHANGED <<run, row, memory, worker, cancel, torn, conns>>

-----------------------------------------------------------------------------
(* Worker: emitStreamEvent, command by command.                            *)

\* Mutant: events are counted from zero.
MutantNextEventIds == {Len(buffer)}

\* nextEventID: the length of the buffer, or the clock when LLEN fails.
NextEventIds == {Len(buffer) + 1} \cup (IF "clock" \in Faults THEN {ClockId} ELSE {})

\* executeRun emits events of its own and those of the graph, whose names are
\* free; it ends with a terminal one.  rollbackRun has removed the row by the
\* time the worker's run_rolled_back is emitted.
EmitEvent ==
  /\ wpc = "idle"
  /\ \E id \in NextEventIds, name \in {"progress"} \cup Ends, end \in BOOLEAN :
       /\ end => name \in Ends
       /\ emitted + 1 = MaxEvents => end
       /\ wev' = [id |-> id, n |-> emitted + 1, name |-> name]
       /\ wend' = end
       /\ row' = (row /\ ~(end /\ name = "run_rolled_back"))
       /\ failed' = failed \cup (IF id = ClockId THEN {"clock"} ELSE {})
  /\ emitted' = emitted + 1
  /\ wpc' = "publish"
  /\ UNCHANGED <<run, buffer, memory, cancel, torn, conns>>

\* Mutant: a missing return after the terminal event.
MutantAfterEvent == "idle"

\* What follows the emission of the event in hand.
AfterEvent == IF ~wend THEN "idle"
              ELSE IF wev.name = "run_rolled_back" THEN "purge" ELSE "done"

PublishEvent ==
  /\ wpc = "publish"
  /\ Publish(wev)
  /\ wpc' = IF resumable THEN "push" ELSE AfterEvent
  /\ UNCHANGED <<run, row, buffer, memory, wev, wend, emitted, cancel, torn,
                 pc, sub, from, last, log, joins>>

\* Mutant: the newest event is stored at the head of the list.
MutantPushEvent ==
  /\ wpc = "push"
  /\ buffer' = <<wev>> \o buffer
  /\ UNCHANGED failed
  /\ wpc' = AfterEvent
  /\ UNCHANGED <<run, row, memory, wev, wend, emitted, cancel, torn, conns>>

PushEvent ==
  /\ wpc = "push"
  /\ Push(wev)
  /\ wpc' = AfterEvent
  /\ UNCHANGED <<run, row, memory, wev, wend, emitted, cancel, torn, conns>>

\* The DEL of the buffer that ends the rollback path of executeRun.
PurgeBuffer ==
  /\ wpc = "purge"
  /\ buffer' = <<>>
  /\ wpc' = "done"
  /\ UNCHANGED <<run, failed, row, memory, wev, wend, emitted, cancel, torn, conns>>

-----------------------------------------------------------------------------
(* API server: cancelRun with action=rollback, whatever the worker does.   *)

CancelRollback ==
  /\ ApiRollback
  /\ cancel = "none"
  /\ row
  /\ row' = FALSE
  /\ cancel' = "purge"
  /\ UNCHANGED <<run, failed, buffer, memory, worker, torn, conns>>

CancelPurge ==
  /\ cancel = "purge"
  /\ buffer' = <<>>
  /\ cancel' = "done"
  /\ torn' = {c \in Clients : pc[c] = "load"}
  /\ UNCHANGED <<run, failed, row, memory, worker, conns>>

-----------------------------------------------------------------------------
(* API server: createRunStream after the run was created and announced.    *)

GoTo(c, s) == pc' = [pc EXCEPT ![c] = s]

\* Subscribe does not wait for Redis: the subscription may take effect later.
StartSubscription(c) == sub' \in {[sub EXCEPT ![c] = b] : b \in BOOLEAN}

SubscriptionTakesEffect(c) ==
  /\ pc[c] \notin {"away", "create"}
  /\ ~sub[c]
  /\ sub' = [sub EXCEPT ![c] = TRUE]
  /\ UNCHANGED <<run, failed, row, buffer, memory, worker, cancel, torn,
                 pc, inbox, from, last, log, joins>>

CreateSubscribe(c) ==
  /\ pc[c] = "create"
  /\ StartSubscription(c)
  /\ GoTo(c, "queue")
  /\ UNCHANGED <<run, failed, row, buffer, memory, worker, cancel, torn,
                 inbox, from, last, log, joins>>

\* The connection has written run_queued and goes on with the channel.
GoLiveWithQueued(c) ==
  /\ GoTo(c, "live")
  /\ log' = [log EXCEPT ![c] = <<Queued>>]
  /\ last' = [last EXCEPT ![c] = Queued.id]
  /\ memory' = Append(memory, Queued)

\* persistEvent of run_queued: the PUBLISH ...
PublishQueued(c) ==
  /\ pc[c] = "queue"
  /\ Publish(Queued)
  /\ IF resumable THEN GoTo(c, "store") /\ UNCHANGED <<log, last, memory>>
                  ELSE GoLiveWithQueued(c)
  /\ UNCHANGED <<run, row, buffer, worker, cancel, torn, sub, from, joins>>

\* ... and the RPUSH.
StoreQueued(c) ==
  /\ pc[c] = "store"
  /\ Push(Queued)
  /\ GoLiveWithQueued(c)
  /\ UNCHANGED <<run, row, worker, cancel, torn, sub, inbox, from, joins>>

-----------------------------------------------------------------------------
(* API server: joinRunStream and streamSSEWithPubSub.                      *)

\* Mutant: the client is sent the event it named in Last-Event-ID again.
MutantParseStartFrom(c) == {0} \cup {log[c][i].id : i \in {Len(log[c])} \ {0}}

\* parseStartFrom: no Last-Event-ID or -1 replays everything, k resumes at k + 1.
ParseStartFrom(c) == {0} \cup {log[c][i].id + 1 : i \in {Len(log[c])} \ {0}}

\* A client that asks for a replay forgets what it had.
JoinRunStream(c) ==
  /\ pc[c] = "away"
  /\ joins[c] < MaxJoins
  /\ row
  /\ \E f \in ParseStartFrom(c) :
       /\ from' = [from EXCEPT ![c] = f]
       /\ log' = [log EXCEPT ![c] = IF f = 0 THEN <<>> ELSE @]
  /\ last' = [last EXCEPT ![c] = 0]
  /\ joins' = [joins EXCEPT ![c] = @ + 1]
  /\ StartSubscription(c)
  /\ GoTo(c, "load")
  /\ UNCHANGED <<run, failed, row, buffer, memory, worker, cancel, torn, inbox>>

\* loadEvents: the buffer; when it is empty or LRANGE fails what this API server
\* remembers, and another replica than the one that created the run remembers
\* nothing.
LoadEvents == ({buffer} \ {<<>>})
              \cup (IF buffer = <<>> \/ "read" \in Faults THEN {memory, <<>>} ELSE {})

\* Of the places in s to keep, the k-th has k - 1 before it.
FilterEventsFrom(s, f) ==
  LET kept == {i \in DOMAIN s : s[i].id >= f}
      Place(k) == CHOOSE i \in kept : Cardinality({j \in kept : j < i}) = k - 1
  IN  [k \in 1..Cardinality(kept) |-> s[Place(k)]]

\* Mutant: a terminal event is missing from the switch.
MutantIsTerminalStreamEvent(e) == e.name \in Ends \ {"run_rolled_back"}

IsTerminalStreamEvent(e) == e.name \in Ends

\* The events written from a list: all, or up to the first terminal one.
UpToTerminal(s) ==
  LET ends == {i \in DOMAIN s : IsTerminalStreamEvent(s[i])}
  IN  SubSeq(s, 1, Min(ends \cup {Len(s)}))

EndsStream(s) == \E i \in DOMAIN s : IsTerminalStreamEvent(s[i])

\* The handler returns: the subscription is closed with it.
Close(c) ==
  /\ GoTo(c, "away")
  /\ sub' = [sub EXCEPT ![c] = FALSE]
  /\ inbox' = [inbox EXCEPT ![c] = <<>>]

Load(c) ==
  /\ pc[c] = "load"
  /\ \E events \in LoadEvents :
       LET initial == UpToTerminal(FilterEventsFrom(events, from[c])) IN
       /\ log' = [log EXCEPT ![c] = @ \o initial]
       /\ last' = [last EXCEPT ![c] = IF initial = <<>> THEN 0 ELSE initial[Len(initial)].id]
       /\ IF EndsStream(initial) THEN Close(c) ELSE GoTo(c, "live") /\ UNCHANGED <<sub, inbox>>
  /\ UNCHANGED <<run, failed, row, buffer, memory, worker, cancel, torn, from, joins>>

\* Mutant: events are forwarded whatever their id.
MutantSkipped(c, e) == FALSE

Skipped(c, e) == e.id <= last[c] \/ e.id < from[c]

\* One message of the channel.
Forward(c) ==
  /\ pc[c] = "live"
  /\ inbox[c] # <<>>
  /\ LET e == Head(inbox[c]) IN
     IF Skipped(c, e)
     THEN /\ inbox' = [inbox EXCEPT ![c] = Tail(@)]
          /\ UNCHANGED <<pc, sub, log, last>>
     ELSE /\ log' = [log EXCEPT ![c] = Append(@, e)]
          /\ last' = [last EXCEPT ![c] = e.id]
          /\ IF IsTerminalStreamEvent(e) THEN Close(c)
             ELSE inbox' = [inbox EXCEPT ![c] = Tail(@)] /\ UNCHANGED <<pc, sub>>
  /\ UNCHANGED <<run, failed, row, buffer, memory, worker, cancel, torn, from, joins>>

\* The idle timer fires, or the client goes away.
HangUp(c) ==
  /\ pc[c] = "live"
  /\ Close(c)
  /\ UNCHANGED <<run, failed, row, buffer, memory, worker, cancel, torn, from, last, log, joins>>

-----------------------------------------------------------------------------
WorkerStep == EmitEvent \/ PublishEvent \/ PushEvent \/ PurgeBuffer

\* The worker dies; nobody emits for the run any more.
WorkerCrash ==
  /\ wpc \notin {"done", "dead"}
  /\ wpc' = "dead"
  /\ UNCHANGED <<run, failed, row, buffer, memory, wev, wend, emitted, cancel, torn, conns>>

ConnectionStep(c) == Load(c) \/ Forward(c)

Next ==
  \/ WorkerStep \/ WorkerCrash
  \/ ExpireBuffer
  \/ CancelRollback \/ CancelPurge
  \/ \E c \in Clients :
       \/ CreateSubscribe(c) \/ PublishQueued(c) \/ StoreQueued(c)
       \/ JoinRunStream(c) \/ SubscriptionTakesEffect(c)
       \/ ConnectionStep(c) \/ HangUp(c)

Spec == Init /\ [][Next]_vars

\* The worker goes on until its last event unless it dies, a connection reads
\* what Redis sends.  Nothing obliges a client to join or to stay.
FairSpec ==
  /\ Spec
  /\ WF_vars(WorkerStep)
  /\ \A c \in Clients : WF_vars(ConnectionStep(c))

-----------------------------------------------------------------------------
(* Properties: what holds.                                                 *)

\* The worker is the only one to number events, and has numbered all of them by
\* the length of one buffer so far.  Where a client created the run with its
\* stream this fails from the start: createRunStream numbers run_queued itself.
OneNumbering == opener = NoClient /\ failed \cap {"clock", "expired"} = {}

\* Nothing has disturbed the emission so far.
Undisturbed == OneNumbering /\ cancel = "none" /\ failed \subseteq {"lapsed"}

\* A client never receives an event twice or after a later one, over all its
\* connections and however it reconnects with Last-Event-ID: snapshot and
\* channel overlap, joinRunStream resumes at k + 1 and skips by id.  Only a
\* client that has subscribed but not yet loaded when a rollback request deletes
\* the buffer may: what it then loads is numbered anew, from 1, and the channel
\* brings older events with higher ids.
InOrderOnce ==
  OneNumbering => \A c \in Clients \ torn : \A i, j \in DOMAIN log[c] :
                    i < j => log[c][i].n < log[c][j].n

\* The replay buffer of a resumable stream is what the worker has emitted so
\* far, in order and numbered 1, 2, ..., but for the event it is emitting.  Only
\* after the last event may it be gone, and then as a whole: its TTL has run out.
BufferIsTheEmission ==
  Undisturbed /\ resumable /\ row =>
    /\ \A i \in DOMAIN buffer : buffer[i].id = i /\ buffer[i].n = i
    /\ \/ Len(buffer) \in {emitted, emitted - 1}
       \/ wpc \in {"done", "dead"} /\ "lapsed" \in failed /\ buffer = <<>>

\* A message the channel brings and the connection skips is one the client has.
Known(c, e) == \E i \in DOMAIN log[c] : log[c][i] = e
Skips(c) == /\ inbox[c] # <<>> /\ inbox'[c] = Tail(inbox[c])
            /\ pc'[c] = "live" /\ log'[c] = log[c]
NothingWithheld == [][\A c \in Clients : Skips(c) => Known(c, Head(inbox[c]))]_vars
ResumableWithholdsNothing ==
  [][\A c \in Clients : Undisturbed /\ resumable /\ Skips(c) => Known(c, Head(inbox[c]))]_vars

\* A connection that listens before the last event is emitted comes to its end:
\* the terminal event is never one it skips, unless the worker dies.
EndReachesListeners ==
  \A c \in Clients :
    Undisturbed /\ resumable /\ pc[c] = "live" /\ sub[c] /\ wpc \in {"idle", "publish"}
      ~> pc[c] = "away" \/ wpc = "dead" \/ ~Undisturbed
=============================================================================
