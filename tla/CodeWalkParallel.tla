-------------------------- MODULE CodeWalkParallel --------------------------
(***************************************************************************)
(* CodeWalker::walk_parallel: the threads of ignore::WalkParallel filter   *)
(* directory entries and visit those allowed.  The filter cannot return an *)
(* error, so it leaves the error in a slot that all threads share; each    *)
(* visit, and the end of the run, takes what is in the slot and sends it.  *)
(*                                                                         *)
(* WalkParallel itself is external: which thread filters or visits which   *)
(* entry, and when, is left open, but an entry is filtered after its       *)
(* directory has been visited and visited after it has been allowed, and a *)
(* visit that returns Quit stops every thread.                             *)
(***************************************************************************)
EXTENDS CodeTree

CONSTANTS
    Thread,
    Capacity        \* PARALLEL_CHANNEL_CAPACITY

ASSUME CapacityAssumption == Capacity \in Nat \ {0}

VARIABLES
    opened,         \* the directories whose entries the filter is given
    unfiltered,     \* the entries that it has not seen
    queued,         \* those it has allowed and nobody has visited
    slot,           \* the error_slot: {} for None
    visiting,       \* the entry each thread is visiting, {} for none
    out,            \* what each thread has still to send
    quit,           \* a visit has returned WalkState::Quit
    control,        \* the thread that runs the walker
    channel,        \* the sync_channel
    consumer,       \* the owner of the receiver
    received,       \* what it has received
    failed          \* the entries for which the filter has failed

walkVars ==
    <<opened, unfiltered, queued, slot, visiting, out, quit, control, failed>>

streamVars == <<channel, consumer, received>>

vars == <<walkVars, streamVars>>

\* Every variable has its type; the channel keeps its bound.
TypeOK ==
    /\ opened \subseteq Entry \cup {Root}
    /\ unfiltered \subseteq Entry
    /\ queued \subseteq Entry
    /\ slot \in Option(Entry)
    /\ visiting \in [Thread -> Option(Entry)]
    /\ out \in [Thread -> Seq(Message)]
    /\ quit \in BOOLEAN
    /\ control \in {"running", "last", "returned"}
    /\ channel \in Seq(Message) /\ Len(channel) <= Capacity
    /\ consumer \in {"reading", "ended", "dropped"}
    /\ received \subseteq Message
    /\ failed \subseteq Entry

Init ==
    /\ opened = {Root}
    /\ unfiltered = Children(Root)
    /\ queued = {}
    /\ slot = {}
    /\ visiting = [t \in Thread |-> {}]
    /\ out = [t \in Thread |-> <<>>]
    /\ quit = FALSE
    /\ control = "running"
    /\ channel = <<>>
    /\ consumer = "reading"
    /\ received = {}
    /\ failed = {}

Idle(t) == visiting[t] = {} /\ out[t] = <<>>

\* Mutant: the channel has no bound.
EnqueueAlways(m) ==
    /\ consumer = "reading"
    /\ channel' = Append(channel, m)
    /\ UNCHANGED <<consumer, received>>

\* tx.send, which waits while the channel is full.
Enqueue(m) ==
    /\ consumer = "reading"
    /\ Len(channel) < Capacity
    /\ channel' = Append(channel, m)
    /\ UNCHANGED <<consumer, received>>

-----------------------------------------------------------------------------

\* filter_entry.  A thread that is reading a directory does not look at quit
\* before it goes on.
Filter(t) ==
    /\ control = "running"
    /\ Idle(t)
    /\ \E e \in unfiltered : \E a \in Allowed[e] :
         /\ unfiltered' = unfiltered \ {e}
         /\ queued' = IF a = "yes" THEN queued \cup {e} ELSE queued
         /\ slot' = SlotAfter(e, a, slot)
         /\ failed' = IF a = "fails" THEN failed \cup {e} ELSE failed
    /\ UNCHANGED <<opened, visiting, out, quit, control, streamVars>>

\* Mutant: the slot is emptied and its error not sent.
VisitBlindly(t) ==
    /\ control = "running" /\ ~quit
    /\ Idle(t)
    /\ \E e \in queued :
         /\ queued' = queued \ {e}
         /\ visiting' = [visiting EXCEPT ![t] = {e}]
         /\ slot' = {}
    /\ UNCHANGED <<opened, unfiltered, out, quit, control, failed, streamVars>>

\* The visitor starts by taking the slot.
Visit(t) ==
    /\ control = "running" /\ ~quit
    /\ Idle(t)
    /\ \E e \in queued :
         /\ queued' = queued \ {e}
         /\ visiting' = [visiting EXCEPT ![t] = {e}]
         /\ out' = [out EXCEPT ![t] = Taken(slot)]
         /\ slot' = {}
    /\ UNCHANGED <<opened, unfiltered, quit, control, failed, streamVars>>

\* code_process_path, or the error the walker has passed to the visitor.  A visit
\* that returns Continue for a directory lets the walker read it.
Process(t) ==
    /\ out[t] = <<>>
    /\ \E e \in visiting[t] : \E v \in Visited[e] :
         /\ out' = IF v \in {"file", "fails"}
                   THEN [out EXCEPT ![t] = <<Item(IF v = "file" THEN v ELSE "error", e)>>]
                   ELSE out
         /\ opened' = IF v = "dir" THEN opened \cup {e} ELSE opened
         /\ unfiltered' = IF v = "dir" THEN unfiltered \cup Children(e) ELSE unfiltered
    /\ visiting' = [visiting EXCEPT ![t] = {}]
    /\ UNCHANGED <<queued, slot, quit, control, failed, streamVars>>

\* Mutant: a visit that has sent the error of the filter ends there.
SendEndsVisit(t) ==
    /\ out[t] # <<>>
    /\ Enqueue(Head(out[t]))
    /\ out' = [out EXCEPT ![t] = <<>>]
    /\ visiting' = IF Head(out[t]).kind = "filterError"
                    THEN [visiting EXCEPT ![t] = {}]
                    ELSE visiting
    /\ UNCHANGED <<opened, unfiltered, queued, slot, quit, control, failed>>

Send(t) ==
    /\ out[t] # <<>>
    /\ Enqueue(Head(out[t]))
    /\ out' = [out EXCEPT ![t] = <<>>]
    /\ UNCHANGED <<opened, unfiltered, queued, slot, visiting, quit, control, failed>>

\* Mutant: a thread whose send has failed goes on trying.
SendFailsQuietly(t) ==
    /\ out[t] # <<>>
    /\ consumer # "reading"
    /\ UNCHANGED vars

\* The receiver is gone: WalkState::Quit, whatever was to be processed.
SendFails(t) ==
    /\ out[t] # <<>>
    /\ consumer # "reading"
    /\ out' = [out EXCEPT ![t] = <<>>]
    /\ visiting' = [visiting EXCEPT ![t] = {}]
    /\ quit' = TRUE
    /\ UNCHANGED <<opened, unfiltered, queued, slot, control, failed, streamVars>>

\* walker.run returns when there is nothing left to do, or after Quit.
RunReturns ==
    /\ control = "running"
    /\ \A t \in Thread : Idle(t)
    /\ quit \/ (unfiltered = {} /\ queued = {})
    /\ control' = "last"
    /\ UNCHANGED <<opened, unfiltered, queued, slot, visiting, out, quit, failed, streamVars>>

\* The error that no visit has taken is sent last, and the sender dropped.
SendLast ==
    /\ control = "last"
    /\ control' = "returned"
    /\ slot' = {}
    /\ \/ /\ slot # {}
          /\ Enqueue(Head(Taken(slot)))
       \/ /\ slot = {} \/ consumer # "reading"
          /\ UNCHANGED streamVars
    /\ UNCHANGED <<opened, unfiltered, queued, visiting, out, quit, failed>>

Receive ==
    /\ consumer = "reading"
    /\ channel # <<>>
    /\ received' = received \cup {Head(channel)}
    /\ channel' = Tail(channel)
    /\ UNCHANGED <<consumer, walkVars>>

Disconnected ==
    /\ consumer = "reading"
    /\ channel = <<>>
    /\ control = "returned"
    /\ consumer' = "ended"
    /\ UNCHANGED <<channel, received, walkVars>>

DropReceiver ==
    /\ consumer = "reading"
    /\ consumer' = "dropped"
    /\ channel' = <<>>
    /\ UNCHANGED <<received, walkVars>>

Over == control = "returned" /\ consumer # "reading"

Stop == Over /\ UNCHANGED vars

ThreadStep(t) == Filter(t) \/ Visit(t) \/ Process(t) \/ Send(t) \/ SendFails(t)

Next ==
    \/ \E t \in Thread : ThreadStep(t)
    \/ RunReturns
    \/ SendLast
    \/ Receive
    \/ Disconnected
    \/ DropReceiver
    \/ Stop

\* Threads run, and a receiver that is kept is read.
Fairness ==
    /\ \A t \in Thread : WF_vars(ThreadStep(t))
    /\ WF_vars(RunReturns \/ SendLast)
    /\ WF_vars(Receive \/ Disconnected)

Spec == Init /\ [][Next]_vars

FairSpec == Spec /\ Fairness

-----------------------------------------------------------------------------

Error(m) == m.kind # "file"

\* An undercount is never silent: if the filter has failed for any entry, hiding
\* it and all that is below it, whoever reads to the end has received an error.
NoSilentUndercount ==
    consumer = "ended" /\ failed # {} => \E m \in received : Error(m)

\* Every entry of a directory that has been read, and that the filter allows, is
\* accounted for at the end of the stream, also the one whose visit started with
\* sending somebody else's error.
NoEntryLost ==
    consumer = "ended" =>
        \A e \in Entry : Parent[e] \in opened /\ Allowed[e] = {"yes"}
                             => Accounted(e, opened, received)

\* Each error is reported, as the comments on the slot have it (traverse.rs:
\* "surfaces errors stashed by filter_entry").
EveryErrorReported ==
    consumer = "ended" => \A e \in failed : Item("filterError", e) \in received

\* The walk and its stream end, whether the receiver is read to the end or dropped.
Terminates == <>Over
=============================================================================
