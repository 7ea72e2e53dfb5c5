------------------------------ MODULE WsFeed ------------------------------
(***************************************************************************)
(* The connect, subscribe, read and reconnect loop of the market data      *)
(* feed, and the retries of subscriptions the venue rejected.              *)
(*                                                                         *)
(* Frames carry no data here; the gap checks on trades are in MarketData,  *)
(* those on candles only write log lines and are left out.                 *)
(***************************************************************************)
EXTENDS Integers, FiniteSets

CONSTANTS
  Subs,          \* build_subscriptions
  MaxAttempts,   \* RESUBSCRIBE_MAX_ATTEMPTS
  MaxRejects,    \* how often the venue may reject one subscription
  MaxBreaks,     \* bound on connections that fail or break
  MaxDelay       \* reconnect_delay_max, in powers of two of the minimum

VARIABLES
  socket,       \* "down", "up", or "dying": a send failed on it
  generation, delay, breaks,
  asked,        \* subscriptions sent on this socket and not answered
  active,       \* those the venue feeds
  failed, attempts, rested,   \* failed_subscriptions, resubscribe_attempts, and
                              \* whether RESUBSCRIBE_INTERVAL passed
  rejects,      \* the venue's rejections so far
  bookGen       \* connection_generation of the last book snapshot, 0 if none

feed == <<failed, attempts, rested>>
feedVars == <<socket, generation, delay, breaks, asked, active, failed, attempts,
          rested, rejects, bookGen>>

FeedInit ==
  /\ socket = "down" /\ generation = 0 /\ delay = 0 /\ breaks = 0
  /\ asked = {} /\ active = {} /\ failed = {}
  /\ attempts = [s \in Subs |-> 0] /\ rested = TRUE
  /\ rejects = [s \in Subs |-> 0] /\ bookGen = 0

Break == breaks < MaxBreaks /\ breaks' = breaks + 1
Doubled(d) == IF d < MaxDelay THEN d + 1 ELSE MaxDelay

\* A new socket keeps the retry state; every subscription is sent anew, and a
\* failed send ends the loop with the rest unsent.
Connect ==
  /\ socket = "down"
  /\ generation' = generation + 1
  /\ \/ socket' = "up" /\ asked' = Subs /\ UNCHANGED breaks
     \/ socket' = "dying" /\ Break /\ \E sent \in SUBSET Subs : asked' = sent
  /\ UNCHANGED <<delay, active, feed, rejects, bookGen>>

ConnectFails ==
  /\ socket = "down" /\ Break
  /\ delay' = Doubled(delay)
  /\ UNCHANGED <<socket, generation, asked, active, feed, rejects, bookGen>>

\* drain_resubscribe_queue, after every frame, on what handling it left: the
\* failed subscriptions f, those asked and not answered, the attempts so far.
Drain(f, asking, tries) ==
  IF f = {} \/ ~rested
  THEN failed' = f /\ asked' = asking /\ attempts' = tries /\ UNCHANGED rested
  ELSE LET due == {s \in f : tries[s] + 1 <= MaxAttempts}
       IN /\ rested' = FALSE
          /\ attempts' = [s \in Subs |-> IF s \in f THEN tries[s] + 1 ELSE tries[s]]
          /\ asked' = asking \cup due
          /\ failed' = due

\* Bug: a rejection is only logged.
LoggedOnly(s) == failed

QueueRejected(s) == failed \cup {s}

\* A subscriptionResponse.
Confirmed(s) ==
  /\ socket # "down" /\ s \in asked
  /\ active' = active \cup {s}
  /\ Drain(failed \ {s}, asked \ {s}, [attempts EXCEPT ![s] = 0])
  /\ UNCHANGED <<socket, generation, delay, breaks, rejects, bookGen>>

Rejected(s) ==
  /\ socket # "down" /\ s \in asked \ active /\ rejects[s] < MaxRejects
  /\ rejects' = [rejects EXCEPT ![s] = @ + 1]
  /\ Drain(QueueRejected(s), asked \ {s}, attempts)
  /\ UNCHANGED <<socket, generation, delay, breaks, active, bookGen>>

\* A data frame of a fed channel, here a book.
Frame ==
  /\ socket # "down" /\ active # {}
  /\ bookGen' = generation
  /\ Drain(failed, asked, attempts)
  /\ UNCHANGED <<socket, generation, delay, breaks, active, rejects>>

\* Five seconds pass.
Rest == /\ ~rested /\ rested' = TRUE
        /\ UNCHANGED <<socket, generation, delay, breaks, asked, active, failed,
                       attempts, rejects, bookGen>>

\* The socket ends: the delay restarts after a stable connection, and the
\* attempt after the next one waits twice as long.
Lost ==
  /\ socket' = "down" /\ asked' = {} /\ active' = {}
  /\ \E stable \in BOOLEAN : delay' = Doubled(IF stable THEN 0 ELSE delay)
  /\ UNCHANGED <<generation, feed, rejects, bookGen>>

Dropped == socket = "up" /\ Break /\ Lost
\* A sink that refused a send is read until its error or its end.
Dies == socket = "dying" /\ UNCHANGED breaks /\ Lost
\* Nobody sends a frame any more.
ReadTimeout == socket = "up" /\ asked = {} /\ active = {} /\ UNCHANGED breaks /\ Lost

Answer == \E s \in Subs : Confirmed(s) \/ Rejected(s)

FeedNext == Connect \/ ConnectFails \/ Answer \/ Frame \/ Rest \/ Dropped \/ Dies
            \/ ReadTimeout

---------------------------------------------------------------------------
(* Properties                                                              *)

FeedTypeOK ==
  /\ socket \in {"down", "up", "dying"} /\ delay \in 0..MaxDelay
  /\ active \subseteq Subs /\ asked \subseteq Subs /\ failed \subseteq Subs
  /\ bookGen <= generation /\ breaks <= MaxBreaks

\* A configured channel is never missing from a working socket by accident:
\* it is fed, asked for, or queued for a retry, unless its attempts, which
\* count over all sockets, are spent.
NoChannelForgotten ==
  socket = "up" => \A s \in Subs :
    s \in active \cup asked \cup failed \/ attempts[s] > MaxAttempts

\* A venue that rejects each subscription no more than MaxRejects times and
\* breaks a bounded number of sockets ends up feeding every channel.
EventuallySubscribed == <>[](socket = "up" /\ active = Subs)

=============================================================================
