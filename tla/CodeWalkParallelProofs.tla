----------------------- MODULE CodeWalkParallelProofs -----------------------
(***************************************************************************)
(* Theorems about CodeWalker::walk_parallel, for every tree of entries,    *)
(* every set of threads and every capacity of the channel.                 *)
(***************************************************************************)
EXTENDS CodeWalkParallel, TLAPS

\* Who is where.  Only a dropped receiver makes a visit quit.
Control ==
    /\ control # "running" => \A t \in Thread : Idle(t)
    /\ control # "running" => quit \/ (unfiltered = {} /\ queued = {})
    /\ control = "returned" => slot = {}
    /\ consumer = "ended" => control = "returned" /\ channel = <<>>
    /\ quit => consumer = "dropped"

InOut == { m \in Message : \E t \in Thread : out[t] # <<>> /\ Head(out[t]) = m }

InChannel == { m \in Message : \E i \in 1 .. Len(channel) : channel[i] = m }

\* The messages on their way and those that have arrived.
Underway == InOut \cup InChannel \cup received

\* A failure of the filter is in the slot or an error is underway.
Reported ==
    consumer # "dropped" /\ failed # {}
        => slot # {} \/ \E m \in Underway : m.kind # "file"

\* What the walk owes for an entry is still to be done or accounted for.
Owed ==
    consumer # "dropped" =>
        \A e \in Entry : Parent[e] \in opened /\ Allowed[e] = {"yes"} =>
            \/ e \in unfiltered \cup queued
            \/ \E t \in Thread : e \in visiting[t]
            \/ Accounted(e, opened, Underway)

TypeInv == TypeOK /\ Control

IInv == TypeInv /\ Reported /\ Owed

LEMMA TakenSlot ==
    ASSUME NEW s \in Option(Entry), s # {}
    PROVE  \E e \in Entry : /\ s = {e}
                            /\ Taken(s) = <<Item("filterError", e)>>
    <1>1. PICK e \in Entry : s = {e}
        BY DEF Option
    <1>2. (CHOOSE x \in s : TRUE) = e
        BY <1>1
    <1> QED
        BY <1>1, <1>2 DEF Taken

LEMMA TakenType ==
    ASSUME NEW s \in Option(Entry)
    PROVE  /\ Taken(s) \in Seq(Message)
           /\ s # {} => /\ Taken(s) # <<>>
                        /\ Head(Taken(s)) \in Message
                        /\ Head(Taken(s)).kind # "file"
    <1>1. CASE s = {}
        BY <1>1 DEF Taken
    <1>2. CASE s # {}
        <2>1. PICK e \in Entry : Taken(s) = <<Item("filterError", e)>>
            BY <1>2, TakenSlot
        <2>2. Item("filterError", e) \in Message /\ Item("filterError", e).kind # "file"
            BY DEF Item, Message
        <2> QED
            BY <2>1, <2>2
    <1> QED
        BY <1>1, <1>2

LEMMA SlotType ==
    ASSUME NEW e \in Entry, NEW a, NEW s \in Option(Entry)
    PROVE  /\ SlotAfter(e, a, s) \in Option(Entry)
           /\ s # {} \/ a = "fails" => SlotAfter(e, a, s) # {}
    BY DEF SlotAfter, Option

LEMMA ItemType ==
    ASSUME NEW e \in Entry, NEW k \in {"file", "error"}
    PROVE  /\ <<Item(k, e)>> \in Seq(Message)
           /\ Head(<<Item(k, e)>>) = Item(k, e)
           /\ Item(k, e) \in Message
           /\ Item(k, e).entry = e /\ Item(k, e).kind # "filterError"
    BY DEF Item, Message

LEMMA HeadType ==
    ASSUME NEW s \in Seq(Message), s # <<>>
    PROVE  Head(s) \in Message /\ Tail(s) \in Seq(Message) /\ Len(Tail(s)) = Len(s) - 1
    OBVIOUS

\* What one step of a visit comes to.
LEMMA ProcessCases ==
    ASSUME TypeOK, NEW t \in Thread, Process(t)
    PROVE  \E e \in Entry :
              /\ visiting[t] = {e} /\ out[t] = <<>>
              /\ visiting' = [visiting EXCEPT ![t] = {}]
              /\ UNCHANGED <<queued, slot, quit, control, failed, streamVars>>
              /\ \/ \E k \in {"file", "error"} :
                       /\ out' = [out EXCEPT ![t] = <<Item(k, e)>>]
                       /\ UNCHANGED <<opened, unfiltered>>
                 \/ /\ opened' = opened \cup {e}
                    /\ unfiltered' = unfiltered \cup Children(e)
                    /\ out' = out
                 \/ /\ "skip" \in Visited[e]
                    /\ UNCHANGED <<out, opened, unfiltered>>
    <1>1. visiting[t] \in Option(Entry)
        BY DEF TypeOK
    <1>2. PICK e \in visiting[t] : \E v \in Visited[e] :
             /\ out' = IF v \in {"file", "fails"}
                       THEN [out EXCEPT ![t] = <<Item(IF v = "file" THEN v ELSE "error", e)>>]
                       ELSE out
             /\ opened' = IF v = "dir" THEN opened \cup {e} ELSE opened
             /\ unfiltered' = IF v = "dir" THEN unfiltered \cup Children(e) ELSE unfiltered
        BY DEF Process
    <1>3. e \in Entry /\ visiting[t] = {e}
        BY <1>1, <1>2 DEF Option
    <1>4. Visited[e] \subseteq {"file", "dir", "skip", "fails"}
        BY <1>3, CodeTreeAssumption
    <1>5. PICK v \in Visited[e] :
             /\ out' = IF v \in {"file", "fails"}
                       THEN [out EXCEPT ![t] = <<Item(IF v = "file" THEN v ELSE "error", e)>>]
                       ELSE out
             /\ opened' = IF v = "dir" THEN opened \cup {e} ELSE opened
             /\ unfiltered' = IF v = "dir" THEN unfiltered \cup Children(e) ELSE unfiltered
        BY <1>2
    <1>6. \/ \E k \in {"file", "error"} :
                /\ out' = [out EXCEPT ![t] = <<Item(k, e)>>]
                /\ UNCHANGED <<opened, unfiltered>>
          \/ /\ opened' = opened \cup {e}
             /\ unfiltered' = unfiltered \cup Children(e)
             /\ out' = out
          \/ /\ "skip" \in Visited[e]
             /\ UNCHANGED <<out, opened, unfiltered>>
        BY <1>4, <1>5
    <1> QED
        BY <1>3, <1>6 DEF Process

LEMMA InitInv == Init => IInv
    <1> SUFFICES ASSUME Init PROVE IInv
        OBVIOUS
    <1>1. TypeOK
        <2>1. <<>> \in Seq(Message) /\ Len(<<>>) = 0
            OBVIOUS
        <2>2. channel \in Seq(Message) /\ Len(channel) <= Capacity
            BY <2>1, CapacityAssumption DEF Init
        <2>3. out \in [Thread -> Seq(Message)]
            BY <2>1 DEF Init
        <2> QED
            BY <2>2, <2>3 DEF Init, TypeOK, Option, Children
    <1>2. Control /\ Reported
        BY DEF Init, Control, Reported
    <1>3. Owed
        BY DEF Init, Owed, Children
    <1> QED
        BY <1>1, <1>2, <1>3 DEF IInv, TypeInv

LEMMA NextType == TypeInv /\ [Next]_vars => TypeInv'
    <1> SUFFICES ASSUME TypeInv, [Next]_vars PROVE TypeInv'
        OBVIOUS
    <1>t. TypeOK /\ Control
        BY DEF TypeInv
    <1>1. ASSUME NEW t \in Thread, Filter(t) PROVE TypeInv'
        <2>1. PICK e \in unfiltered : \E a \in Allowed[e] :
                 /\ unfiltered' = unfiltered \ {e}
                 /\ queued' = IF a = "yes" THEN queued \cup {e} ELSE queued
                 /\ slot' = SlotAfter(e, a, slot)
                 /\ failed' = IF a = "fails" THEN failed \cup {e} ELSE failed
            BY <1>1 DEF Filter
        <2>2. e \in Entry /\ slot \in Option(Entry)
            BY <1>t DEF TypeOK
        <2>3. slot' \in Option(Entry)
            BY <2>1, <2>2, SlotType
        <2>4. TypeOK'
            BY <1>t, <1>1, <2>1, <2>2, <2>3 DEF Filter, TypeOK, streamVars
        <2>5. Control'
            BY <1>t, <1>1 DEF Filter, Control, streamVars, Idle
        <2> QED
            BY <2>4, <2>5 DEF TypeInv
    <1>2. ASSUME NEW t \in Thread, Visit(t) PROVE TypeInv'
        <2>1. Taken(slot) \in Seq(Message)
            BY <1>t, TakenType DEF TypeOK
        <2>2. \A e \in queued : {e} \in Option(Entry)
            BY <1>t DEF TypeOK, Option
        <2>3. TypeOK'
            BY <1>t, <1>2, <2>1, <2>2 DEF Visit, TypeOK, Option, streamVars
        <2>4. Control'
            BY <1>t, <1>2 DEF Visit, Control, streamVars
        <2> QED
            BY <2>3, <2>4 DEF TypeInv
    <1>3. ASSUME NEW t \in Thread, Process(t) PROVE TypeInv'
        <2>1. PICK e \in Entry :
              /\ visiting[t] = {e} /\ out[t] = <<>>
              /\ visiting' = [visiting EXCEPT ![t] = {}]
              /\ UNCHANGED <<queued, slot, quit, control, failed, streamVars>>
              /\ \/ \E k \in {"file", "error"} :
                       /\ out' = [out EXCEPT ![t] = <<Item(k, e)>>]
                       /\ UNCHANGED <<opened, unfiltered>>
                 \/ /\ opened' = opened \cup {e}
                    /\ unfiltered' = unfiltered \cup Children(e)
                    /\ out' = out
                 \/ /\ "skip" \in Visited[e]
                    /\ UNCHANGED <<out, opened, unfiltered>>
            BY <1>t, <1>3, ProcessCases
        <2>2. out' \in [Thread -> Seq(Message)]
            <3>1. out \in [Thread -> Seq(Message)]
                BY <1>t DEF TypeOK
            <3>2. \A k \in {"file", "error"} : <<Item(k, e)>> \in Seq(Message)
                BY ItemType
            <3> QED
                BY <2>1, <3>1, <3>2
        <2>3. TypeOK'
            BY <1>t, <2>1, <2>2 DEF TypeOK, Option, Children, streamVars
        <2>4. control = "running"
            BY <1>t, <2>1 DEF Control, Idle, TypeOK
        <2>5. Control'
            BY <1>t, <2>1, <2>4 DEF Control, streamVars
        <2> QED
            BY <2>3, <2>5 DEF TypeInv
    <1>4. ASSUME NEW t \in Thread, Send(t) PROVE TypeInv'
        <2>1. Head(out[t]) \in Message /\ <<>> \in Seq(Message)
            BY <1>t, <1>4, HeadType DEF Send, TypeOK
        <2>2. channel' \in Seq(Message) /\ Len(channel') <= Capacity
            BY <1>t, <1>4, <2>1, CapacityAssumption DEF Send, Enqueue, TypeOK
        <2>3. TypeOK'
            BY <1>t, <1>4, <2>1, <2>2 DEF Send, Enqueue, TypeOK
        <2>4. Control'
            BY <1>t, <1>4 DEF Send, Enqueue, Control, Idle
        <2> QED
            BY <2>3, <2>4 DEF TypeInv
    <1>5. ASSUME NEW t \in Thread, SendFails(t) PROVE TypeInv'
        <2>1. TypeOK'
            BY <1>t, <1>5 DEF SendFails, TypeOK, Option, streamVars
        <2>2. control = "running"
            BY <1>t, <1>5 DEF SendFails, Control, Idle, TypeOK
        <2>3. consumer = "dropped"
            BY <1>t, <1>5, <2>2 DEF SendFails, Control, TypeOK
        <2>4. Control'
            BY <1>t, <1>5, <2>2, <2>3 DEF SendFails, Control, streamVars
        <2> QED
            BY <2>1, <2>4 DEF TypeInv
    <1>6. CASE RunReturns
        <2>1. TypeOK'
            BY <1>t, <1>6 DEF RunReturns, TypeOK, streamVars
        <2>2. Control'
            BY <1>t, <1>6 DEF RunReturns, Control, streamVars, Idle
        <2> QED
            BY <2>1, <2>2 DEF TypeInv
    <1>7. CASE SendLast
        <2>1. channel' \in Seq(Message) /\ Len(channel') <= Capacity
            <3>1. CASE slot # {} /\ Enqueue(Head(Taken(slot)))
                <4>1. Head(Taken(slot)) \in Message
                    BY <1>t, <3>1, TakenType DEF TypeOK
                <4> QED
                    BY <1>t, <3>1, <4>1, CapacityAssumption DEF Enqueue, TypeOK
            <3>2. CASE UNCHANGED streamVars
                BY <1>t, <3>2 DEF streamVars, TypeOK
            <3> QED
                BY <1>7, <3>1, <3>2 DEF SendLast
        <2>2. consumer' = consumer /\ received' = received
            BY <1>7 DEF SendLast, Enqueue, streamVars
        <2>3. TypeOK'
            BY <1>t, <1>7, <2>1, <2>2 DEF SendLast, TypeOK, Option
        <2>4. Control'
            BY <1>t, <1>7, <2>2 DEF SendLast, Control, Idle
        <2> QED
            BY <2>3, <2>4 DEF TypeInv
    <1>8. CASE Receive
        <2>1. /\ Head(channel) \in Message /\ Tail(channel) \in Seq(Message)
              /\ Len(Tail(channel)) = Len(channel) - 1
            BY <1>t, <1>8, HeadType DEF Receive, TypeOK
        <2>2. Len(channel) \in Nat
            BY <1>t DEF TypeOK
        <2>3. Len(channel') <= Capacity
            BY <1>t, <1>8, <2>1, <2>2, CapacityAssumption DEF Receive, TypeOK
        <2>4. TypeOK'
            BY <1>t, <1>8, <2>1, <2>3 DEF Receive, TypeOK, walkVars
        <2>5. Control'
            BY <1>t, <1>8 DEF Receive, Control, walkVars, Idle
        <2> QED
            BY <2>4, <2>5 DEF TypeInv
    <1>9. CASE Disconnected
        BY <1>t, <1>9 DEF Disconnected, TypeInv, TypeOK, Control, walkVars, Idle
    <1>10. CASE DropReceiver
        <2>1. <<>> \in Seq(Message) /\ Len(<<>>) = 0
            OBVIOUS
        <2>2. TypeOK'
            BY <1>t, <1>10, <2>1, CapacityAssumption DEF DropReceiver, TypeOK, walkVars
        <2>3. Control'
            BY <1>t, <1>10 DEF DropReceiver, Control, walkVars, Idle
        <2> QED
            BY <2>2, <2>3 DEF TypeInv
    <1>11. CASE UNCHANGED vars
        BY <1>t, <1>11 DEF vars, walkVars, streamVars, TypeInv, TypeOK, Control, Idle
    <1> QED
        BY <1>1, <1>2, <1>3, <1>4, <1>5, <1>6, <1>7, <1>8, <1>9, <1>10, <1>11
        DEF Next, ThreadStep, Stop

\* A send that succeeds, and the receiver, lose no message.
LEMMA EnqueueKeeps ==
    ASSUME TypeOK, NEW m \in Message, Enqueue(m)
    PROVE  InChannel' = InChannel \cup {m}
    <1>1. channel \in Seq(Message) /\ channel' = Append(channel, m)
        BY DEF TypeOK, Enqueue
    <1>2. /\ Len(channel') = Len(channel) + 1 /\ Len(channel) \in Nat
          /\ channel'[Len(channel) + 1] = m
          /\ \A i \in 1 .. Len(channel) : channel'[i] = channel[i]
        BY <1>1
    <1> QED
        BY <1>2 DEF InChannel

LEMMA ReceiveKeeps ==
    ASSUME TypeOK, Receive
    PROVE  InChannel \subseteq InChannel' \cup received'
    <1>1. channel \in Seq(Message) /\ channel # <<>> /\ channel' = Tail(channel)
        BY DEF TypeOK, Receive
    <1> SUFFICES ASSUME NEW m \in Message, NEW i \in 1 .. Len(channel), channel[i] = m
                 PROVE  m \in InChannel' \cup received'
        BY DEF InChannel
    <1>2. CASE i = 1
        BY <1>1, <1>2 DEF Receive
    <1>3. CASE i # 1
        <2>1. i - 1 \in 1 .. Len(channel') /\ channel'[i - 1] = m
            BY <1>1, <1>3
        <2> QED
            BY <2>1 DEF InChannel
    <1> QED
        BY <1>2, <1>3

LEMMA NextUnderway ==
    ASSUME TypeInv, [Next]_vars, consumer' # "dropped"
    PROVE  consumer # "dropped" /\ Underway \subseteq Underway'
    <1>t. TypeOK /\ Control
        BY DEF TypeInv
    <1>1. ASSUME NEW t \in Thread, Filter(t) \/ Visit(t) \/ Process(t)
          PROVE  consumer # "dropped" /\ Underway \subseteq Underway'
        <2>1. /\ out[t] = <<>> /\ UNCHANGED streamVars
              /\ \A u \in Thread \ {t} : out'[u] = out[u]
            BY <1>t, <1>1 DEF Filter, Visit, Process, Idle, TypeOK
        <2>2. InOut \subseteq InOut'
            BY <2>1 DEF InOut
        <2> QED
            BY <1>1, <2>1, <2>2 DEF Underway, InChannel, streamVars
    <1>2. ASSUME NEW t \in Thread, Send(t)
          PROVE  consumer # "dropped" /\ Underway \subseteq Underway'
        <2>1. Head(out[t]) \in Message
            BY <1>t, <1>2, HeadType DEF Send, TypeOK
        <2>2. InChannel' = InChannel \cup {Head(out[t])}
            BY <1>t, <1>2, <2>1, EnqueueKeeps DEF Send
        <2>3. \A u \in Thread \ {t} : out'[u] = out[u]
            BY <1>t, <1>2 DEF Send, TypeOK
        <2>4. InOut \subseteq InOut' \cup {Head(out[t])}
            BY <2>3 DEF InOut
        <2> QED
            BY <1>2, <2>2, <2>4 DEF Underway, Send, Enqueue
    <1>3. ASSUME NEW t \in Thread, SendFails(t)
          PROVE  FALSE
        <2>1. control = "running" /\ consumer' = consumer
            BY <1>t, <1>3 DEF SendFails, Control, Idle, TypeOK, streamVars
        <2> QED
            BY <1>t, <1>3, <2>1 DEF SendFails, Control, TypeOK
    <1>4. CASE SendLast
        <2>1. out' = out /\ received' = received /\ consumer' = consumer
            BY <1>4 DEF SendLast, Enqueue, streamVars
        <2>2. InChannel \subseteq InChannel'
            <3>1. CASE slot # {} /\ Enqueue(Head(Taken(slot)))
                <4>1. Head(Taken(slot)) \in Message
                    BY <1>t, <3>1, TakenType DEF TypeOK
                <4> QED
                    BY <1>t, <3>1, <4>1, EnqueueKeeps
            <3>2. CASE UNCHANGED streamVars
                BY <3>2 DEF streamVars, InChannel
            <3> QED
                BY <1>4, <3>1, <3>2 DEF SendLast
        <2> QED
            BY <2>1, <2>2 DEF Underway, InOut
    <1>5. CASE Receive
        <2>1. InChannel \subseteq InChannel' \cup received'
            BY <1>t, <1>5, ReceiveKeeps
        <2> QED
            BY <1>5, <2>1 DEF Receive, Underway, InOut, walkVars
    <1>6. CASE RunReturns \/ Disconnected \/ UNCHANGED vars
        BY <1>6 DEF RunReturns, Disconnected, Underway, InOut, InChannel, vars, walkVars, streamVars
    <1>7. CASE DropReceiver
        BY <1>7 DEF DropReceiver
    <1> QED
        BY <1>1, <1>2, <1>3, <1>4, <1>5, <1>6, <1>7 DEF Next, ThreadStep, Stop

LEMMA NextReported ==
    ASSUME IInv, [Next]_vars
    PROVE  Reported'
    <1> SUFFICES ASSUME consumer' # "dropped", failed' # {}
                 PROVE  slot' # {} \/ \E m \in Underway' : m.kind # "file"
        BY DEF Reported
    <1>t. TypeInv /\ TypeOK /\ Control
        BY DEF IInv, TypeInv
    <1>u. consumer # "dropped" /\ Underway \subseteq Underway'
        BY <1>t, NextUnderway
    <1>1. CASE slot' = slot /\ failed' = failed
        BY <1>u, <1>1 DEF IInv, Reported
    <1>2. ASSUME NEW t \in Thread, Filter(t)
          PROVE  slot' # {} \/ \E m \in Underway' : m.kind # "file"
        <2>1. PICK e \in unfiltered : \E a \in Allowed[e] :
                 /\ slot' = SlotAfter(e, a, slot)
                 /\ failed' = IF a = "fails" THEN failed \cup {e} ELSE failed
            BY <1>2 DEF Filter
        <2>2. PICK a \in Allowed[e] :
                 /\ slot' = SlotAfter(e, a, slot)
                 /\ failed' = IF a = "fails" THEN failed \cup {e} ELSE failed
            BY <2>1
        <2>3. e \in Entry /\ slot \in Option(Entry)
            BY <1>t DEF TypeOK
        <2>4. CASE a = "fails" \/ slot # {}
            BY <2>2, <2>3, <2>4, SlotType
        <2>5. CASE a # "fails" /\ slot = {}
            BY <1>u, <2>2, <2>5 DEF IInv, Reported
        <2> QED
            BY <2>4, <2>5
    <1>3. ASSUME NEW t \in Thread, Visit(t)
          PROVE  slot' # {} \/ \E m \in Underway' : m.kind # "file"
        <2>1. CASE slot = {}
            BY <1>u, <1>3, <2>1 DEF IInv, Reported, Visit
        <2>2. CASE slot # {}
            <3>1. /\ Taken(slot) # <<>>
                  /\ Head(Taken(slot)) \in Message /\ Head(Taken(slot)).kind # "file"
                BY <1>t, <2>2, TakenType DEF TypeOK
            <3>2. out'[t] = Taken(slot)
                BY <1>t, <1>3 DEF Visit, TypeOK
            <3> QED
                BY <3>1, <3>2 DEF Underway, InOut
        <2> QED
            BY <2>1, <2>2
    <1>4. CASE SendLast
        <2>1. CASE slot = {}
            BY <1>u, <1>4, <2>1 DEF IInv, Reported, SendLast
        <2>2. CASE slot # {}
            <3>1. Head(Taken(slot)) \in Message /\ Head(Taken(slot)).kind # "file"
                BY <1>t, <2>2, TakenType DEF TypeOK
            <3>2. consumer = "reading"
                BY <1>t, <1>u, <1>4 DEF SendLast, Control, TypeOK
            <3>3. Enqueue(Head(Taken(slot)))
                BY <1>4, <2>2, <3>2 DEF SendLast
            <3> QED
                BY <1>t, <3>1, <3>3, EnqueueKeeps DEF Underway
        <2> QED
            BY <2>1, <2>2
    <1>5. ASSUME NEW t \in Thread, Process(t) \/ Send(t) \/ SendFails(t)
          PROVE  slot' = slot /\ failed' = failed
        BY <1>5 DEF Process, Send, SendFails
    <1>6. CASE RunReturns \/ Receive \/ Disconnected \/ DropReceiver \/ UNCHANGED vars
        BY <1>1, <1>6 DEF RunReturns, Receive, Disconnected, DropReceiver, vars, walkVars
    <1> QED
        BY <1>1, <1>2, <1>3, <1>4, <1>5, <1>6 DEF Next, ThreadStep, Stop

LEMMA NextOwed ==
    ASSUME IInv, [Next]_vars
    PROVE  Owed'
    <1> SUFFICES ASSUME consumer' # "dropped",
                        NEW e \in Entry, Parent[e] \in opened', Allowed[e] = {"yes"}
                 PROVE  \/ e \in unfiltered' \cup queued'
                        \/ \E u \in Thread : e \in visiting'[u]
                        \/ Accounted(e, opened', Underway')
        BY DEF Owed
    <1>t. TypeInv /\ TypeOK /\ Control
        BY DEF IInv, TypeInv
    <1>u. consumer # "dropped" /\ Underway \subseteq Underway'
        BY <1>t, NextUnderway
    <1>o. ASSUME Parent[e] \in opened
          PROVE  \/ e \in unfiltered \cup queued
                 \/ \E u \in Thread : e \in visiting[u]
                 \/ Accounted(e, opened, Underway)
        BY <1>o, <1>u DEF IInv, Owed
    <1>a. ASSUME Accounted(e, opened, Underway), opened \subseteq opened'
          PROVE  Accounted(e, opened', Underway')
        BY <1>a, <1>u DEF Accounted
    <1>1. ASSUME opened' = opened, unfiltered' = unfiltered, queued' = queued, visiting' = visiting
          PROVE  \/ e \in unfiltered' \cup queued'
                 \/ \E u \in Thread : e \in visiting'[u]
                 \/ Accounted(e, opened', Underway')
        BY <1>o, <1>a, <1>1
    <1>2. ASSUME NEW t \in Thread, Filter(t)
          PROVE  \/ e \in unfiltered' \cup queued'
                 \/ \E u \in Thread : e \in visiting'[u]
                 \/ Accounted(e, opened', Underway')
        <2>1. PICK f \in unfiltered : \E a \in Allowed[f] :
                 /\ unfiltered' = unfiltered \ {f}
                 /\ queued' = IF a = "yes" THEN queued \cup {f} ELSE queued
            BY <1>2 DEF Filter
        <2>2. opened' = opened /\ visiting' = visiting
            BY <1>2 DEF Filter
        <2>3. queued \subseteq queued'
            BY <2>1
        <2>4. e \in unfiltered => e \in unfiltered' \cup queued'
            BY <2>1
        <2> QED
            BY <1>o, <1>a, <2>2, <2>3, <2>4
    <1>3. ASSUME NEW t \in Thread, Visit(t)
          PROVE  \/ e \in unfiltered' \cup queued'
                 \/ \E u \in Thread : e \in visiting'[u]
                 \/ Accounted(e, opened', Underway')
        <2>1. PICK f \in queued : /\ queued' = queued \ {f}
                                  /\ visiting' = [visiting EXCEPT ![t] = {f}]
            BY <1>3 DEF Visit
        <2>2. opened' = opened /\ unfiltered' = unfiltered /\ visiting[t] = {}
            BY <1>3 DEF Visit, Idle
        <2>3. /\ visiting'[t] = {f}
              /\ \A u \in Thread \ {t} : visiting'[u] = visiting[u]
            BY <1>t, <2>1 DEF TypeOK
        <2> QED
            BY <1>o, <1>a, <2>1, <2>2, <2>3
    <1>4. ASSUME NEW t \in Thread, Process(t)
          PROVE  \/ e \in unfiltered' \cup queued'
                 \/ \E u \in Thread : e \in visiting'[u]
                 \/ Accounted(e, opened', Underway')
        <2>1. PICK f \in Entry :
              /\ visiting[t] = {f} /\ out[t] = <<>>
              /\ visiting' = [visiting EXCEPT ![t] = {}]
              /\ UNCHANGED <<queued, slot, quit, control, failed, streamVars>>
              /\ \/ \E k \in {"file", "error"} :
                       /\ out' = [out EXCEPT ![t] = <<Item(k, f)>>]
                       /\ UNCHANGED <<opened, unfiltered>>
                 \/ /\ opened' = opened \cup {f}
                    /\ unfiltered' = unfiltered \cup Children(f)
                    /\ out' = out
                 \/ /\ "skip" \in Visited[f]
                    /\ UNCHANGED <<out, opened, unfiltered>>
            BY <1>t, <1>4, ProcessCases
        <2>2. \A u \in Thread \ {t} : visiting'[u] = visiting[u]
            BY <1>t, <2>1 DEF TypeOK
        <2>3. opened \subseteq opened' /\ unfiltered \subseteq unfiltered' /\ queued' = queued
            BY <2>1
        <2>4. CASE Parent[e] \notin opened
            BY <2>1, <2>4 DEF Children
        <2>5. CASE e # f /\ Parent[e] \in opened
            BY <1>o, <1>a, <2>1, <2>2, <2>3, <2>5
        <2>6. CASE e = f
            <3>1. ASSUME NEW k \in {"file", "error"}, out' = [out EXCEPT ![t] = <<Item(k, e)>>]
                  PROVE  Accounted(e, opened', Underway')
                <4>1. out'[t] = <<Item(k, e)>>
                    BY <1>t, <3>1 DEF TypeOK
                <4>2. Item(k, e) \in InOut'
                    BY <4>1, ItemType DEF InOut
                <4> QED
                    BY <4>2, ItemType DEF Accounted, Underway
            <3> QED
                BY <2>1, <2>6, <3>1 DEF Accounted
        <2> QED
            BY <2>4, <2>5, <2>6
    <1>5. ASSUME NEW t \in Thread, SendFails(t)
          PROVE  FALSE
        <2>1. control = "running" /\ consumer' = consumer
            BY <1>t, <1>5 DEF SendFails, Control, Idle, TypeOK, streamVars
        <2> QED
            BY <1>t, <1>u, <1>5, <2>1 DEF SendFails, Control, TypeOK
    <1>6. ASSUME \/ \E t \in Thread : Send(t)
                 \/ RunReturns \/ SendLast \/ Receive
                 \/ Disconnected \/ DropReceiver \/ UNCHANGED vars
          PROVE  /\ opened' = opened /\ unfiltered' = unfiltered
                 /\ queued' = queued /\ visiting' = visiting
        BY <1>6 DEF Send, RunReturns, SendLast, Receive, Disconnected, DropReceiver, vars, walkVars
    <1> QED
        BY <1>1, <1>2, <1>3, <1>4, <1>5, <1>6 DEF Next, ThreadStep, Stop

LEMMA NextInv == IInv /\ [Next]_vars => IInv'
    BY NextType, NextReported, NextOwed DEF IInv

\* The slot and every thread hold at most one entry, and the channel its bound.
THEOREM ParallelTypeCorrect == Spec => []TypeOK
    <1>1. IInv => TypeOK
        BY DEF IInv, TypeInv
    <1> QED
        BY InitInv, NextInv, <1>1, PTL DEF Spec

\* Whoever reads the receiver to its end has received an error if the filter has
\* failed for any entry, whichever threads filled and took the slot.
THEOREM UndercountsAreNeverSilent == Spec => []NoSilentUndercount
    <1>1. IInv => NoSilentUndercount
        <2> SUFFICES ASSUME IInv, consumer = "ended", failed # {}
                     PROVE  \E m \in received : Error(m)
            BY DEF NoSilentUndercount
        <2>1. /\ slot = {} /\ channel = <<>>
              /\ \A t \in Thread : out[t] = <<>>
            BY DEF IInv, TypeInv, Control, Idle
        <2>2. InOut = {} /\ InChannel = {}
            BY <2>1 DEF InOut, InChannel
        <2> QED
            BY <2>1, <2>2 DEF IInv, Reported, Underway, Error
    <1> QED
        BY InitInv, NextInv, <1>1, PTL DEF Spec

\* Sending another entry's error never costs the entry whose visit sends it.
THEOREM ParallelLosesNoEntry == Spec => []NoEntryLost
    <1>1. IInv => NoEntryLost
        <2> SUFFICES ASSUME IInv, consumer = "ended", NEW e \in Entry,
                            Parent[e] \in opened, Allowed[e] = {"yes"}
                     PROVE  Accounted(e, opened, received)
            BY DEF NoEntryLost
        <2>1. /\ control = "returned" /\ channel = <<>> /\ ~quit
              /\ \A t \in Thread : out[t] = <<>> /\ visiting[t] = {}
            BY DEF IInv, TypeInv, Control, Idle
        <2>2. unfiltered = {} /\ queued = {}
            BY <2>1 DEF IInv, TypeInv, Control
        <2>3. InOut = {} /\ InChannel = {}
            BY <2>1 DEF InOut, InChannel
        <2>4. Underway = received
            BY <2>3 DEF Underway
        <2>5. Accounted(e, opened, Underway)
            BY <2>1, <2>2 DEF IInv, Owed
        <2> QED
            BY <2>4, <2>5
    <1> QED
        BY InitInv, NextInv, <1>1, PTL DEF Spec
=============================================================================
