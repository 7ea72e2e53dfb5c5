---------------------------- MODULE EventDelivery ----------------------------
(***************************************************************************)
(* From a committed transaction to a browser: the outbox table, whose      *)
(* sequence numbers are given at the insert and appear at the commit, the  *)
(* relay that claims, publishes and marks them, the broker's fan-out to    *)
(* bounded client mailboxes, and the stream that first replays the table   *)
(* from Last-Event-ID and then follows the mailbox.  One client: it keeps  *)
(* the last id it saw and reconnects with it.                              *)
(***************************************************************************)
EXTENDS Integers, Sequences, FiniteSets, SequencesExt

CONSTANTS
  MaxSeq,           \* bound: rows inserted
  QueueSize,        \* client_queue_size
  BatchSize,        \* limit of claim_batch
  MaxDrops, MaxRestarts, MaxPurges, MaxFails
                    \* bounds: connections lost, process restarts, retention
                    \* runs, marks and queries that fail

VARIABLES
  row,              \* by sequence: "free", "open", "committed", "aborted", "purged"
  published, claimed,
  owed,             \* history: rows committed after the client saw its first
                    \* id, and that no later row had overtaken by then
  batch,            \* the relay: events claimed and not yet dealt with
  marking,          \* the relay has published the head of its batch
  seen,             \* the broker's seen_sequences
  sub,              \* the broker's entry of the client: listed, cursor
  box, closed,      \* the client's mailbox
  stream,           \* the server side of the connection
  lastId,           \* the client: Last-Event-ID, the ids got, told to resync
  got, resynced,
  drops, restarts, purges, fails

tableVars == <<row, published, claimed, owed>>
relayVars == <<batch, marking, seen>>
serverVars == <<sub, box, closed, stream>>
clientVars == <<lastId, got, resynced>>
faultVars == <<drops, restarts, purges, fails>>
deliveryVars == <<tableVars, relayVars, serverVars, clientVars, faultVars>>

Seqs == 1..MaxSeq
NoId == -1
NoSub == [listed |-> FALSE, cursor |-> 0]
Off == [at |-> "off", after |-> NoId, sent |-> 0, upto |-> 0, pending |-> << >>]
Resync == 0                     \* marks the frame StreamResyncRequired in pending

DeliveryInit ==
  /\ row = [s \in Seqs |-> "free"] /\ published = {} /\ claimed = {} /\ owed = {}
  /\ batch = << >> /\ marking = FALSE /\ seen = {}
  /\ sub = NoSub /\ box = << >> /\ closed = FALSE /\ stream = Off
  /\ lastId = NoId /\ got = {} /\ resynced = FALSE
  /\ drops = 0 /\ restarts = 0 /\ purges = 0 /\ fails = 0

Sorted(S) == [i \in 1..Cardinality(S) |-> CHOOSE x \in S : Cardinality({y \in S : y < x}) = i - 1]
Committed == {s \in Seqs : row[s] = "committed"}
Largest(S) == IF S = {} THEN 0 ELSE CHOOSE x \in S : \A y \in S : y <= x

----------------------------------------------------------------------------
\* The table.  An insert takes the next number of the sequence; its
\* transaction commits, or rolls back, whenever it does.
Insert(s) ==
  /\ row[s] = "free" /\ \A t \in 1..(s - 1) : row[t] # "free"
  /\ row' = [row EXCEPT ![s] = "open"]
  /\ UNCHANGED <<published, claimed, owed, relayVars, serverVars, clientVars, faultVars>>
End(s, how) ==
  /\ row[s] = "open" /\ row' = [row EXCEPT ![s] = how]
  /\ owed' = IF /\ how = "committed" /\ lastId # NoId
                /\ \A t \in Seqs : t > s => row[t] \notin {"committed", "purged"}
             THEN owed \union {s} ELSE owed
  /\ UNCHANGED <<published, claimed, relayVars, serverVars, clientVars, faultVars>>
\* A retention job: published rows, the oldest first, older than any running
\* transaction and than any replay in progress.
Purge(upto) ==
  /\ stream.at # "read"
  /\ purges < MaxPurges /\ purges' = purges + 1
  /\ upto \in published /\ \A s \in 1..upto : row[s] # "open"
  /\ \A s \in Committed : s <= upto => s \in published
  /\ row' = [s \in Seqs |-> IF s <= upto /\ row[s] = "committed" THEN "purged" ELSE row[s]]
  /\ UNCHANGED <<published, claimed, owed, relayVars, serverVars, clientVars, drops, restarts, fails>>

----------------------------------------------------------------------------
\* claim_batch: the oldest unpublished rows nobody holds.
ClaimBatch ==
  LET free == Committed \ (published \union claimed) IN
  /\ batch = << >> /\ free # {}
  /\ batch' = SubSeq(Sorted(free), 1, IF Cardinality(free) < BatchSize THEN Cardinality(free) ELSE BatchSize)
  /\ claimed' = claimed \union ToSet(batch')
  /\ marking' = FALSE
  /\ UNCHANGED <<row, published, owed, seen, serverVars, clientVars, faultVars>>
\* The lease of a row no living relay works on runs out.
BatchLeaseRunsOut(s) ==
  /\ s \in claimed \ (published \union ToSet(batch))
  /\ claimed' = claimed \ {s}
  /\ UNCHANGED <<row, published, owed, relayVars, serverVars, clientVars, faultVars>>

\* fan_out to the client: a full mailbox is closed, and an entry whose mailbox
\* is full after the round leaves the list.
Overflows == Len(box) >= QueueSize
FanOut(s) ==
  LET skip == ~sub.listed \/ s <= sub.cursor
      put == ~skip /\ ~Overflows /\ ~closed
      length == Len(box) + IF put THEN 1 ELSE 0 IN
  /\ box' = IF put THEN Append(box, s) ELSE box
  /\ closed' = (closed \/ (~skip /\ Overflows))
  /\ sub' = [listed |-> sub.listed /\ (length < QueueSize \/ length = 0),
             cursor |-> IF ~skip /\ ~Overflows THEN s ELSE sub.cursor]
\* publish: a number seen before is a crash retry.
PublishHead ==
  LET s == Head(batch) IN
  /\ batch # << >> /\ ~marking /\ marking' = TRUE
  /\ IF s \in seen
     THEN UNCHANGED <<seen, sub, box, closed>>
     ELSE seen' = seen \union {s} /\ FanOut(s)
  /\ UNCHANGED <<tableVars, batch, stream, clientVars, faultVars>>
\* mark_published, whose failure the relay ignores.
MarkHead(done) ==
  LET s == Head(batch) IN
  /\ batch # << >> /\ marking /\ marking' = FALSE /\ batch' = Tail(batch)
  /\ published' = IF done THEN published \union {s} ELSE published
  /\ claimed' = IF done THEN claimed \ {s} ELSE claimed
  /\ IF done THEN UNCHANGED fails ELSE fails < MaxFails /\ fails' = fails + 1
  /\ UNCHANGED <<row, owed, seen, serverVars, clientVars, drops, restarts, purges>>

----------------------------------------------------------------------------
\* durable_events: subscribe, before anything is read.
Connect ==
  /\ stream = Off
  /\ stream' = [Off EXCEPT !.at = "replay", !.after = lastId]
  /\ sub' = [listed |-> TRUE, cursor |-> IF lastId = NoId THEN 0 ELSE lastId]
  /\ box' = << >> /\ closed' = FALSE
  /\ UNCHANGED <<tableVars, relayVars, clientVars, faultVars>>
\* durable_replay: the bounds, then the rows between; a failed query is an
\* error frame and another try at the next poll of the stream.
Bounds ==
  LET earliest == IF Committed = {} THEN 0 ELSE CHOOSE s \in Committed : \A t \in Committed : s <= t
      latest == Largest(Committed)
      after == stream.after IN
  /\ stream.at = "replay"
  /\ stream' =
       IF after = NoId THEN [stream EXCEPT !.at = "live"]
       ELSE IF after > latest \/ (after > 0 /\ Committed # {} /\ after < earliest - 1)
       THEN [stream EXCEPT !.at = "sending", !.upto = latest, !.pending = <<Resync>>]
       ELSE [stream EXCEPT !.at = "read", !.upto = latest]
  /\ UNCHANGED <<tableVars, relayVars, sub, box, closed, clientVars, faultVars>>
ReadRows ==
  LET rows == {s \in Committed : stream.after < s /\ s <= stream.upto} IN
  /\ stream.at = "read"
  /\ stream' = [stream EXCEPT !.at = IF rows = {} THEN "live" ELSE "sending", !.pending = Sorted(rows)]
  /\ UNCHANGED <<tableVars, relayVars, sub, box, closed, clientVars, faultVars>>
QueryFails ==
  /\ stream.at = "read" /\ stream' = [stream EXCEPT !.at = "replay"]
  /\ fails < MaxFails /\ fails' = fails + 1
  /\ UNCHANGED <<tableVars, relayVars, sub, box, closed, clientVars, drops, restarts, purges>>

Received(id) ==
  /\ lastId' = id /\ got' = got \union {id}
  /\ UNCHANGED resynced
\* The replayed frames.  With nothing sent but a number 0 the stream would
\* load its replay again.
SendReplayed ==
  LET s == Head(stream.pending)
      sent == IF s = Resync THEN stream.upto ELSE s
      rest == Tail(stream.pending) IN
  /\ stream.at = "sending"
  /\ stream' = [stream EXCEPT !.pending = rest, !.sent = sent,
                !.at = IF rest # << >> THEN "sending" ELSE IF sent = 0 THEN "replay" ELSE "live"]
  /\ IF s = Resync
     THEN lastId' = sent /\ resynced' = TRUE /\ UNCHANGED got
     ELSE Received(s)
  /\ UNCHANGED <<tableVars, relayVars, sub, box, closed, faultVars>>
\* A live event; one not above the last sent is skipped, and becomes the last
\* sent all the same.
SendLive ==
  /\ stream.at = "live" /\ box # << >>
  /\ box' = Tail(box)
  /\ stream' = [stream EXCEPT !.sent = Head(box)]
  /\ IF Head(box) <= stream.sent THEN UNCHANGED clientVars ELSE Received(Head(box))
  /\ UNCHANGED <<tableVars, relayVars, sub, closed, faultVars>>
Hangup ==
  /\ stream' = Off /\ sub' = NoSub /\ box' = << >> /\ closed' = FALSE
\* A closed mailbox that is drained ends the stream.
StreamEnds ==
  /\ stream.at = "live" /\ box = << >> /\ closed /\ Hangup
  /\ UNCHANGED <<tableVars, relayVars, clientVars, faultVars>>
Drop ==
  /\ stream # Off /\ drops < MaxDrops /\ drops' = drops + 1 /\ Hangup
  /\ UNCHANGED <<tableVars, relayVars, clientVars, restarts, purges, fails>>
\* The process stops and starts: broker, relay and connections are new.
ServerRestarts ==
  /\ restarts < MaxRestarts /\ restarts' = restarts + 1
  /\ batch' = << >> /\ marking' = FALSE /\ seen' = {} /\ Hangup
  /\ UNCHANGED <<tableVars, clientVars, drops, purges, fails>>

StreamStep == Connect \/ Bounds \/ ReadRows \/ SendReplayed \/ SendLive \/ StreamEnds
RelayStep == ClaimBatch \/ PublishHead \/ \E done \in BOOLEAN : MarkHead(done)
DeliveryNext ==
  \/ StreamStep \/ RelayStep \/ QueryFails \/ Drop \/ ServerRestarts
  \/ \E s \in Seqs :
       Insert(s) \/ End(s, "committed") \/ End(s, "aborted") \/ BatchLeaseRunsOut(s) \/ Purge(s)

----------------------------------------------------------------------------
\* The client never jumps over an event: every row that is committed after the
\* client saw its first id, that no later row had overtaken at its commit, and
\* that is not above the client's last id was delivered to it or it was told to
\* resync (durable_replay, fan_out's cursor, the stream's last_sent).
NothingJumpedOver == \A s \in owed : s <= lastId => s \in got \/ resynced

\* Always again, every such row has reached the client, through the mailbox or
\* through a replay, or it was told to resync, unless the broker has let go of
\* it ([]<>CaughtUp: claim_batch, publish, durable_replay).
LetGo == stream.at = "live" /\ ~sub.listed /\ ~closed
CaughtUp == owed \subseteq got \/ resynced \/ LetGo
=============================================================================
