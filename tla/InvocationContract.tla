-------------------------- MODULE InvocationContract --------------------------
(***************************************************************************)
(* What the Desktop Host gateway promises to the code that calls           *)
(* hostControl.invoke, whatever sockets, reconnects and restarts happen    *)
(* underneath: calls of one binding never overlap, a call is settled       *)
(* exactly once, its events are numbered upwards with one terminal event   *)
(* at the end, and "failed" is only said of a request that was not sent.   *)
(* HostGateway implements this specification; ConversationHarness is built *)
(* on it.                                                                  *)
(***************************************************************************)
EXTENDS Naturals, Sequences

CONSTANTS
    Invocations, Bindings, None,
    SequenceNumbers     \* the numbers a terminal event of the Host may carry

VARIABLE calls   \* calls[i]: the state of the invocation i as its caller sees it

Idle == [phase |-> "idle", binding |-> None, sent |-> FALSE,
         events |-> <<>>, outcome |-> "none"]

CallEvents == [sequence : Nat, kind : {"output", "terminal"}]

CallRecords ==
    [phase : {"idle", "pending", "settled"},
     binding : Bindings \cup {None},
     sent : BOOLEAN,
     events : Seq(CallEvents),
     outcome : {"none", "refused", "failed", "events", "result",
                "unknown", "rejected", "vanished"}]

\* The invocation i is pending: its promise is not settled.
InFlight(i) == calls[i].phase = "pending"

Free(b) == \A j \in Invocations : InFlight(j) => calls[j].binding # b

TerminalEvent(n) == [sequence |-> n, kind |-> "terminal"]

Settled(call, outcome) == [call EXCEPT !.phase = "settled", !.outcome = outcome]

\* A call whose last event is the terminal event n.
Ended(call, outcome, n) ==
    [Settled(call, outcome) EXCEPT !.events = Append(@, TerminalEvent(n))]

\* A call that ends with the disconnect outcome o, after its public events.
Lost(call, o) == Ended(call, o, Len(call.events) + 1)

Init == calls = [i \in Invocations |-> Idle]

\* The call throws and nothing was sent.
Refuse(i, b) ==
    /\ calls[i].phase = "idle"
    /\ calls' = [calls EXCEPT ![i] = Settled([Idle EXCEPT !.binding = b], "refused")]

\* The call resolves at once: execution is known not to have happened.
FailUnsent(i, b) ==
    /\ calls[i].phase = "idle"
    /\ calls' = [calls EXCEPT ![i] = Lost([Idle EXCEPT !.binding = b], "failed")]

\* The request is on its way, and the only one of its binding.
Send(i, b) ==
    /\ calls[i].phase = "idle"
    /\ Free(b)
    /\ calls' = [calls EXCEPT ![i] = [Idle EXCEPT !.phase = "pending",
                                                  !.binding = b, !.sent = TRUE]]

\* A public event, numbered on from the previous one.
Deliver(i) ==
    /\ InFlight(i)
    /\ calls' = [calls EXCEPT ![i].events =
                    Append(@, [sequence |-> Len(@) + 1, kind |-> "output"])]

\* The terminal event of the Host, with a number above all others.
Finish(i, n) ==
    /\ InFlight(i)
    /\ n > Len(calls[i].events)
    /\ calls' = [calls EXCEPT ![i] = Ended(@, "events", n)]

\* The result of an operation that has no events.
Answer(i) ==
    /\ InFlight(i)
    /\ calls' = [calls EXCEPT ![i] = Settled(@, "result")]

\* The connection goes away, or the Host breaks the protocol: calls end as
\* unknown or are rejected, several at a time.
Abandon(lost, rejected) ==
    /\ \A i \in lost \cup rejected : InFlight(i)
    /\ calls' = [i \in Invocations |->
                    IF i \in lost THEN Lost(calls[i], "unknown")
                    ELSE IF i \in rejected THEN Settled(calls[i], "rejected")
                    ELSE calls[i]]

\* The Relay ends: no caller is left to hear of its calls.
Vanish ==
    calls' = [i \in Invocations |->
                 IF InFlight(i) THEN Settled(calls[i], "vanished") ELSE calls[i]]

Next ==
    \/ \E i \in Invocations, b \in Bindings : Refuse(i, b) \/ FailUnsent(i, b) \/ Send(i, b)
    \/ \E i \in Invocations : Deliver(i) \/ Answer(i)
    \/ \E i \in Invocations, n \in SequenceNumbers : Finish(i, n)
    \/ \E lost, rejected \in SUBSET Invocations : Abandon(lost, rejected)
    \/ Vanish

Spec == Init /\ [][Next]_calls

=============================================================================
