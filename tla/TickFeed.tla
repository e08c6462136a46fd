------------------------------ MODULE TickFeed ------------------------------
(***************************************************************************)
(* What the rest of the program may rely on when it consumes market ticks, *)
(* said without slots, masks or atomics.  Ticks are numbered in the order  *)
(* they arrive.  A reader that stays within Window of the producer gets    *)
(* every tick, once and in order.  A reader that falls further behind may  *)
(* lose ticks, but it is never handed one older than its cursor, nor one   *)
(* that left the window, and a reader stops only when the feed is closed.  *)
(***************************************************************************)
EXTENDS Integers

CONSTANTS
  Readers,       \* the consumers of the feed
  Window         \* how many of the newest ticks stay readable

NoTick == -1

VARIABLES
  produced,      \* number of ticks handed to the feed so far
  shut,          \* no more data is promised
  cursor,        \* number of the next tick the reader expects
  last,          \* number of the tick the reader got last
  state          \* "absent", "reading" or "exited"

feedVars == <<produced, shut, cursor, last, state>>

FeedInit ==
  /\ produced = 0
  /\ shut = FALSE
  /\ cursor = [r \in Readers |-> 0]
  /\ last = [r \in Readers |-> NoTick]
  /\ state = [r \in Readers |-> "absent"]

Produce ==
  /\ produced' = produced + 1
  /\ UNCHANGED <<shut, cursor, last, state>>

Shut ==
  /\ shut' = TRUE
  /\ UNCHANGED <<produced, cursor, last, state>>

(* A new reader starts at the head; a tick being handed over just then may *)
(* or may not be its first.                                                *)
Attach(r) ==
  /\ state[r] = "absent"
  /\ \E c \in 0..produced :
       /\ c >= produced - 1
       /\ cursor' = [cursor EXCEPT ![r] = c]
  /\ state' = [state EXCEPT ![r] = "reading"]
  /\ UNCHANGED <<produced, shut, last>>

Lapped(r) == produced - cursor[r] > Window

(* Only a lapped reader may jump, and only forwards. *)
Skip(r) ==
  /\ state[r] = "reading"
  /\ Lapped(r)
  /\ \E c \in (cursor[r] + 1)..(produced - 1) :
       cursor' = [cursor EXCEPT ![r] = c]
  /\ UNCHANGED <<produced, shut, last, state>>

(* A reader inside the window gets exactly the tick it expects. *)
Deliver(r) ==
  /\ state[r] = "reading"
  /\ \E t \in cursor[r]..(produced - 1) :
       /\ t >= produced - Window
       /\ Lapped(r) \/ t = cursor[r]
       /\ last' = [last EXCEPT ![r] = t]
  /\ cursor' = [cursor EXCEPT ![r] = @ + 1]
  /\ UNCHANGED <<produced, shut, state>>

Leave(r) ==
  /\ state[r] = "reading"
  /\ shut
  /\ state' = [state EXCEPT ![r] = "exited"]
  /\ UNCHANGED <<produced, shut, cursor, last>>

FeedNext ==
  \/ Produce
  \/ Shut
  \/ \E r \in Readers : Attach(r) \/ Skip(r) \/ Deliver(r) \/ Leave(r)

FeedSpec == FeedInit /\ [][FeedNext]_feedVars
=============================================================================
