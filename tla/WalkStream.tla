----------------------------- MODULE WalkStream -----------------------------
(***************************************************************************)
(* The bounded crossbeam channel between the walk and its consumer, and    *)
(* the WalkItemIter that reads it.  The channel is external; what is       *)
(* modelled is what walkkit relies on: a full channel blocks the sender, a *)
(* send fails once the receiver is gone, and recv fails once the channel   *)
(* is empty and every sender is gone.                                      *)
(***************************************************************************)
EXTENDS WalkTree

CONSTANT Capacity       \* the bound given to crossbeam's bounded()

ASSUME CapacityAssumption == Capacity \in Nat \ {0}

VARIABLES
    channel,    \* the items sent and not yet received
    consumer,   \* what the owner of the iterator is doing
    received    \* the items that next() has returned

streamVars == <<channel, consumer, received>>

\* The channel stays within its bound.
StreamTypeOK ==
    /\ channel \in Seq(WalkItem)
    /\ Len(channel) <= Capacity
    /\ consumer \in {"reading", "ended", "dropped"}
    /\ received \subseteq WalkItem

StreamInit ==
    /\ channel = <<>>
    /\ consumer = "reading"
    /\ received = {}

ReceiverGone == consumer # "reading"

\* Mutant: the channel is unbounded.
EnqueueAlways(m) ==
    /\ ~ReceiverGone
    /\ channel' = Append(channel, m)
    /\ UNCHANGED <<consumer, received>>

\* A send that finds room.
Enqueue(m) ==
    /\ ~ReceiverGone
    /\ Len(channel) < Capacity
    /\ channel' = Append(channel, m)
    /\ UNCHANGED <<consumer, received>>

\* next() on a streaming iterator: rx.recv() returns the oldest item ...
Next_Item ==
    /\ consumer = "reading"
    /\ channel # <<>>
    /\ received' = received \cup {Head(channel)}
    /\ channel' = Tail(channel)
    /\ UNCHANGED consumer

\* ... or fails, and next() returns None, when every sender has been dropped.
Next_None(disconnected) ==
    /\ consumer = "reading"
    /\ channel = <<>>
    /\ disconnected
    /\ consumer' = "ended"
    /\ UNCHANGED <<channel, received>>

\* The consumer drops the iterator, and with it what the channel holds.
DropIter ==
    /\ consumer = "reading"
    /\ consumer' = "dropped"
    /\ channel' = <<>>
    /\ UNCHANGED received
=============================================================================
