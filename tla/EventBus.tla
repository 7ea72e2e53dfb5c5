------------------------------ MODULE EventBus ------------------------------
(***************************************************************************)
(* The in-process event bus: one bounded mailbox for each subscriber, held *)
(* weakly by the bus.  publish takes the live mailboxes of its event once, *)
(* holds them, and serves them one after the other: a lossy event evicts   *)
(* the oldest lossy item of a full mailbox, a reliable one waits for space *)
(* (tokio's Notify: a wake-up with nobody waiting is kept, but only one),  *)
(* and publish_sync gives up on a full mailbox after a hundred tries,      *)
(* leaving the mailboxes before it served and those after it not.          *)
(***************************************************************************)
EXTENDS Integers, Sequences, SequencesExt

CONSTANTS
  Boxes, Publishers,
  Capacity,         \* of a mailbox
  MaxEvents         \* bound: events published

VARIABLES
  items,            \* the queue of each mailbox
  listed,           \* mailboxes on the bus's list
  shut,             \* closed mailboxes
  gone,             \* mailboxes whose subscriber dropped its handle
  permit,           \* mailboxes whose space_available holds a wake-up
  job,              \* what each publisher is doing
  events,           \* number of events so far
  pushed, taken,    \* history: reliable events put in and taken out of each
  failed            \* history: events whose publish_sync returned an error

busVars == <<items, listed, shut, gone, permit, job, events, pushed, taken, failed>>

Idle == [id |-> 0, kind |-> "none", left |-> << >>, at |-> "idle"]
Lossy(e) == e.kind = "lossy"

BusInit ==
  /\ items = [b \in Boxes |-> << >>] /\ listed = Boxes
  /\ shut = {} /\ gone = {} /\ permit = {}
  /\ job = [p \in Publishers |-> Idle]
  /\ events = 0
  /\ pushed = [b \in Boxes |-> << >>] /\ taken = [b \in Boxes |-> << >>]
  /\ failed = {}

Full(b) == Len(items[b]) >= Capacity
Event(p) == [id |-> job[p].id, kind |-> job[p].kind]
Target(p) == Head(job[p].left)
\* A mailbox lives as long as its subscriber or a publisher holds it.
Held(b) == b \notin gone \/ \E p \in Publishers : b \in ToSet(job[p].left)
Served(p) == IF Len(job[p].left) = 1 THEN Idle
            ELSE [job[p] EXCEPT !.left = Tail(job[p].left), !.at = "put"]

----------------------------------------------------------------------------
\* publish and publish_sync: matching_mailboxes prunes the dead and upgrades
\* the others, under one lock.
Publish(p, kind) ==
  LET live == {b \in listed : Held(b)} IN
  /\ job[p] = Idle /\ events < MaxEvents
  /\ events' = events + 1 /\ listed' = live
  /\ job' = [job EXCEPT ![p] =
       IF live = {} THEN Idle
       ELSE [id |-> events + 1, kind |-> kind, left |-> SetToSeq(live), at |-> "put"]]
  /\ UNCHANGED <<items, shut, gone, permit, pushed, taken, failed>>

\* put_lossy: the oldest lossy item makes room; when there is none the new
\* item is the one dropped.
Made(b, e) ==
  IF ~Full(b) THEN Append(items[b], e)
  ELSE IF \E i \in 1..Len(items[b]) : Lossy(items[b][i])
  THEN LET oldest == CHOOSE i \in 1..Len(items[b]) :
                       Lossy(items[b][i]) /\ \A j \in 1..(i - 1) : ~Lossy(items[b][j])
       IN Append(RemoveAt(items[b], oldest), e)
  ELSE items[b]
PutLossy(p) ==
  /\ job[p].at = "put" /\ job[p].kind = "lossy"
  /\ items' = IF Target(p) \in shut THEN items
              ELSE [items EXCEPT ![Target(p)] = Made(Target(p), Event(p))]
  /\ job' = [job EXCEPT ![p] = Served(p)]
  /\ UNCHANGED <<listed, shut, gone, permit, events, pushed, taken, failed>>

Pushes(p) ==
  /\ items' = [items EXCEPT ![Target(p)] = Append(@, Event(p))]
  /\ pushed' = [pushed EXCEPT ![Target(p)] = Append(@, job[p].id)]
\* put of a reliable event: one pass of its loop.
Put(p) ==
  /\ job[p].at = "put" /\ job[p].kind = "reliable"
  /\ \/ /\ Target(p) \in shut
        /\ job' = [job EXCEPT ![p] = Served(p)] /\ UNCHANGED <<items, pushed>>
     \/ /\ Target(p) \notin shut /\ ~Full(Target(p))
        /\ Pushes(p) /\ job' = [job EXCEPT ![p] = Served(p)]
     \/ /\ Target(p) \notin shut /\ Full(Target(p))
        /\ job' = [job EXCEPT ![p].at = "full"] /\ UNCHANGED <<items, pushed>>
  /\ UNCHANGED <<listed, shut, gone, permit, events, taken, failed>>
\* space_available.notified(), after the lock is released.
Wait(p) ==
  /\ job[p].at = "full"
  /\ IF Target(p) \in permit
     THEN permit' = permit \ {Target(p)} /\ job' = [job EXCEPT ![p].at = "put"]
     ELSE permit' = permit /\ job' = [job EXCEPT ![p].at = "waiting"]
  /\ UNCHANGED <<items, listed, shut, gone, events, pushed, taken, failed>>
\* publish_sync of a reliable event: try_recv_forced, a hundred times at most.
\* To it a closed mailbox is one without space.
PutSync(p) ==
  /\ job[p].at = "put" /\ job[p].kind = "sync"
  /\ \/ /\ Target(p) \notin shut /\ ~Full(Target(p))
        /\ Pushes(p) /\ job' = [job EXCEPT ![p] = Served(p)] /\ UNCHANGED failed
     \/ /\ Target(p) \in shut \/ Full(Target(p))
        /\ job' = [job EXCEPT ![p] = Idle] /\ failed' = failed \union {job[p].id}
        /\ UNCHANGED <<items, pushed>>
  /\ UNCHANGED <<listed, shut, gone, permit, events, taken>>

Waiting(b) == {p \in Publishers : job[p].at = "waiting" /\ Target(p) = b}

\* Bug: a wake-up with nobody waiting is lost, as with notify_waiters.
WakesWaiters(b) ==
  /\ UNCHANGED permit
  /\ job' = [p \in Publishers |->
       IF p \in Waiting(b) THEN [job[p] EXCEPT !.at = "put"] ELSE job[p]]

\* notify_one: one waiter woken, or one wake-up kept for the next.
NotifyOne(b) ==
  \/ /\ Waiting(b) = {}
     /\ permit' = permit \union {b} /\ UNCHANGED job
  \/ \E p \in Waiting(b) :
       /\ job' = [job EXCEPT ![p].at = "put"] /\ UNCHANGED permit

\* recv and try_recv: one item out, and a slot announced.
Recv(b) ==
  /\ b \notin gone /\ items[b] # << >>
  /\ items' = [items EXCEPT ![b] = Tail(@)]
  /\ taken' = IF Lossy(Head(items[b])) THEN taken
              ELSE [taken EXCEPT ![b] = Append(@, Head(items[b]).id)]
  /\ NotifyOne(b)
  /\ UNCHANGED <<listed, shut, gone, events, pushed, failed>>

\* close: every waiter is woken, and no wake-up is kept.
Close(b) ==
  /\ b \notin shut \union gone
  /\ shut' = shut \union {b}
  /\ job' = [p \in Publishers |->
       IF p \in Waiting(b) THEN [job[p] EXCEPT !.at = "put"] ELSE job[p]]
  /\ UNCHANGED <<items, listed, gone, permit, events, pushed, taken, failed>>

\* The subscriber unsubscribes and drops its handle, or only drops it.
Leave(b) ==
  /\ b \notin gone /\ gone' = gone \union {b}
  /\ listed' \in {listed, listed \ {b}}
  /\ UNCHANGED <<items, shut, permit, job, events, pushed, taken, failed>>

BusStep(p) == PutLossy(p) \/ Put(p) \/ Wait(p) \/ PutSync(p)
BusNext ==
  \/ \E p \in Publishers : BusStep(p) \/ \E k \in {"lossy", "reliable", "sync"} : Publish(p, k)
  \/ \E b \in Boxes : Recv(b) \/ Close(b) \/ Leave(b)

----------------------------------------------------------------------------
Ids(s) == [i \in DOMAIN s |-> s[i].id]
Reliable(s) == SelectSeq(s, LAMBDA e : ~Lossy(e))

\* No reliable event is evicted, reordered or handed out twice: what was put
\* into a mailbox is what was taken out of it and then what it still holds,
\* and a mailbox never holds more than its capacity (put_lossy, put).
BusSound ==
  \A b \in Boxes :
    /\ pushed[b] = taken[b] \o Ids(Reliable(items[b]))
    /\ Len(items[b]) <= Capacity

\* A publisher that is serving mailboxes finishes, whatever wake-ups are lost
\* between the check of a queue and the wait for space, unless the mailbox it
\* waits for is closed or has lost its reader ([]<>NobodyWaits: put, recv, close).
NobodyWaits == \A p \in Publishers : job[p] = Idle \/ Target(p) \in gone \union shut
=============================================================================
