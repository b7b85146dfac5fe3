----------------------------- MODULE InferQueue -----------------------------
(***************************************************************************)
(* The way of an /infer call through an agent: handleInfer in one          *)
(* goroutine per call, p2Queue with its mutex and its one-slot notify      *)
(* channel, and inferLoop, the only worker, which asks again at the head   *)
(* of the line whether the current egg is the one the request wants.       *)
(*                                                                         *)
(* What Start and the engine do is another module's business: here the     *)
(* current model changes at any time, Start may or may not make its model  *)
(* the current one, and work on a request ends with one result. Abstracted: *)
(* bodies, headers, statuses, ETAs and Retry-After.                        *)
(***************************************************************************)
EXTENDS Naturals, Sequences, FiniteSets

CONSTANTS
    Models,    \* the models a call may ask for
    Requests,  \* the /infer calls
    Cap,       \* p2QueueCapacity
    NoModel, NoRequest

ASSUME QueueAssumption ==
    /\ NoModel \notin Models
    /\ NoRequest \notin Requests
    /\ Cap \in Nat \ {0}

VARIABLES
    call,     \* handleInfer: where each call stands
    wants,    \* the model of the call
    told,     \* what the caller got
    items,    \* p2Queue.items
    notify,   \* p2Queue.notify holds a token
    result,   \* inferReq.resultCh, of capacity one
    started,  \* inferReq.startedCh, of capacity one
    pc,       \* inferLoop and handleInferRequest: the next step
    req,      \* the request in the worker's hand
    streak,   \* mismatchStreak
    current,  \* CurrentModel
    active,   \* Agent.activeReqs
    sources   \* requestWindow.inFlight

callVars == <<call, wants, told>>
chanVars == <<notify, result, started>>
seenVars == <<active, sources>>
vars == <<call, wants, told, items, notify, result, started, pc, req, streak, current, active, sources>>

CallStates == {"new", "pushed", "queued", "running", "answered"}

Steps == {"pop", "sleep", "start", "drop", "dropped", "mark", "count", "enter", "work", "finish",
          "leave", "uncount"}

\* Every variable has its type; channels hold at most one value.
TypeOK ==
    /\ call \in [Requests -> CallStates]
    /\ wants \in [Requests -> Models \cup {NoModel}]
    /\ told \in [Requests -> {"none", "full", "timeout", "unavailable", "result", "blank"}]
    /\ items \in Seq(Requests)
    /\ notify \in BOOLEAN
    /\ result \in [Requests -> {"none", "unavailable", "result", "blank"}]
    /\ started \in [Requests -> BOOLEAN]
    /\ pc \in Steps
    /\ req \in Requests \cup {NoRequest}
    /\ streak \in {0, 1}
    /\ current \in Models \cup {NoModel}
    /\ active \in Nat
    /\ sources \subseteq Requests

Init ==
    /\ call = [r \in Requests |-> "new"]
    /\ wants = [r \in Requests |-> NoModel]
    /\ told = [r \in Requests |-> "none"]
    /\ items = << >>
    /\ notify = FALSE
    /\ result = [r \in Requests |-> "none"]
    /\ started = [r \in Requests |-> FALSE]
    /\ pc = "pop"
    /\ req = NoRequest
    /\ streak = 0
    /\ current = NoModel
    /\ active = 0
    /\ sources = {}

-----------------------------------------------------------------------------
(* handleInfer: one goroutine per call *)

CallOnly == UNCHANGED <<items, chanVars, pc, req, streak, current, seenVars>>

Answered(r, what) ==
    /\ call' = [call EXCEPT ![r] = "answered"]
    /\ told' = [told EXCEPT ![r] = what]
    /\ UNCHANGED wants

\* The line is full: 429 at once.
PushFull(r) ==
    /\ call[r] = "new"
    /\ Len(items) >= Cap
    /\ Answered(r, "full")
    /\ CallOnly

\* Mutant: the length is compared one too late.
PushLate(r, m) ==
    /\ call[r] = "new"
    /\ Len(items) <= Cap
    /\ items' = Append(items, r)
    /\ wants' = [wants EXCEPT ![r] = m]
    /\ call' = [call EXCEPT ![r] = "pushed"]
    /\ UNCHANGED <<told, chanVars, pc, req, streak, current, seenVars>>

\* p2Queue.push under q.mu ...
Push(r, m) ==
    /\ call[r] = "new"
    /\ Len(items) < Cap
    /\ items' = Append(items, r)
    /\ wants' = [wants EXCEPT ![r] = m]
    /\ call' = [call EXCEPT ![r] = "pushed"]
    /\ UNCHANGED <<told, chanVars, pc, req, streak, current, seenVars>>

\* Mutant: the token is only left by the one that finds itself alone in the line.
PushNotifyFirst(r) ==
    /\ call[r] = "pushed"
    /\ call' = [call EXCEPT ![r] = "queued"]
    /\ notify' = (notify \/ Len(items) = 1)
    /\ UNCHANGED <<wants, told, items, result, started, pc, req, streak, current, seenVars>>

\* ... and the token that is left after q.mu has been given up, if there is none.
PushNotify(r) ==
    /\ call[r] = "pushed"
    /\ call' = [call EXCEPT ![r] = "queued"]
    /\ notify' = TRUE
    /\ UNCHANGED <<wants, told, items, result, started, pc, req, streak, current, seenVars>>

TakeResult(r) ==
    /\ call[r] \in {"queued", "running"}
    /\ result[r] # "none"
    /\ Answered(r, result[r])
    /\ result' = [result EXCEPT ![r] = "none"]
    /\ UNCHANGED <<items, notify, started, pc, req, streak, current, seenVars>>

TakeStarted(r) ==
    /\ call[r] = "queued"
    /\ started[r]
    /\ call' = [call EXCEPT ![r] = "running"]
    /\ started' = [started EXCEPT ![r] = FALSE]
    /\ UNCHANGED <<wants, told, items, notify, result, pc, req, streak, current, seenVars>>

\* The queueing limit: 503, and the request stays where it is. The select may choose this
\* although another of its channels is ready.
QueueTimeout(r) ==
    /\ call[r] = "queued"
    /\ Answered(r, "timeout")
    /\ CallOnly

-----------------------------------------------------------------------------
(* inferLoop: p2Queue.popDequeue *)

WorkerOnly == UNCHANGED <<callVars, current, seenVars>>

PopEmpty ==
    /\ pc = "pop" /\ items = << >>
    /\ pc' = "sleep"
    /\ UNCHANGED <<items, chanVars, req, streak>> /\ WorkerOnly

Wake ==
    /\ pc = "sleep" /\ notify
    /\ notify' = FALSE
    /\ pc' = "pop"
    /\ UNCHANGED <<items, result, started, req, streak>> /\ WorkerOnly

\* The head wants the current model: check and removal in one critical section.
PopMatch ==
    /\ pc = "pop" /\ items # << >>
    /\ wants[Head(items)] = current
    /\ req' = Head(items)
    /\ items' = Tail(items)
    /\ pc' = "mark"
    /\ UNCHANGED <<chanVars, streak>> /\ WorkerOnly

\* It does not: it stays, and is loaded the first time, given up the second time.
PopMismatch ==
    /\ pc = "pop" /\ items # << >>
    /\ wants[Head(items)] # current
    /\ req' = Head(items)
    /\ pc' = IF streak = 0 THEN "start" ELSE "drop"
    /\ UNCHANGED <<items, chanVars, streak>> /\ WorkerOnly

\* Mutant: the attempt is not counted.
StartAgain ==
    /\ pc = "start"
    /\ current' \in {current, wants[req]}
    /\ pc' = "pop" /\ req' = NoRequest
    /\ UNCHANGED <<callVars, items, chanVars, streak, seenVars>>

\* Manager.Start of the head's model, for better or worse.
StartHead ==
    /\ pc = "start"
    /\ current' \in {current, wants[req]}
    /\ streak' = 1
    /\ pc' = "pop" /\ req' = NoRequest
    /\ UNCHANGED <<callVars, items, chanVars, seenVars>>

\* Mutant: the request is answered and left at the head.
DropNothing ==
    /\ pc = "drop"
    /\ pc' = "dropped"
    /\ UNCHANGED <<items, chanVars, req, streak>> /\ WorkerOnly

\* WaitQDropHead removes whatever is the head by now, ...
DropHead ==
    /\ pc = "drop"
    /\ items' = Tail(items)
    /\ pc' = "dropped"
    /\ UNCHANGED <<chanVars, req, streak>> /\ WorkerOnly

\* ... and the request that was seen there is told; the send blocks on a full channel.
DropAnswer ==
    /\ pc = "dropped"
    /\ result[req] = "none"
    /\ result' = [result EXCEPT ![req] = "unavailable"]
    /\ streak' = 0
    /\ pc' = "pop" /\ req' = NoRequest
    /\ UNCHANGED <<items, notify, started>> /\ WorkerOnly

-----------------------------------------------------------------------------
(* inferLoop and handleInferRequest: a request that is worked on *)

MarkStarted ==
    /\ pc = "mark"
    /\ started' = [started EXCEPT ![req] = TRUE]
    /\ streak' = 0
    /\ pc' = "count"
    /\ UNCHANGED <<items, notify, result, req>> /\ WorkerOnly

CountActive ==
    /\ pc = "count"
    /\ active' = active + 1
    /\ pc' = "enter"
    /\ UNCHANGED <<callVars, items, chanVars, req, streak, current, sources>>

EnterWindow ==
    /\ pc = "enter"
    /\ sources' = sources \cup {req}
    /\ pc' = "work"
    /\ UNCHANGED <<callVars, items, chanVars, req, streak, current, active>>

\* Mutant: a way out that sends nothing.
WorkForgets ==
    /\ pc = "work"
    /\ result[req] = "none"
    /\ \/ result' = [result EXCEPT ![req] = "result"]
       \/ UNCHANGED result
    /\ current' \in Models \cup {NoModel}
    /\ pc' = "finish"
    /\ UNCHANGED <<callVars, items, notify, started, req, streak, seenVars>>

\* Load failed, not ready, busy, failed or the engine's response: one result is sent, and
\* the send blocks on a full channel.
Work ==
    /\ pc = "work"
    /\ result[req] = "none"
    /\ result' = [result EXCEPT ![req] = "result"]
    /\ current' \in Models \cup {NoModel}
    /\ pc' = "finish"
    /\ UNCHANGED <<callVars, items, notify, started, req, streak, seenVars>>

\* The deferred send of "result not sent" goes through when the channel has been emptied.
DeferredSend ==
    /\ pc = "finish"
    /\ result' = [result EXCEPT ![req] = IF @ = "none" THEN "blank" ELSE @]
    /\ pc' = "leave"
    /\ UNCHANGED <<items, notify, started, req, streak>> /\ WorkerOnly

\* The source goes first, and the count after it under its own lock.
LeaveWindow ==
    /\ pc = "leave"
    /\ sources' = sources \ {req}
    /\ pc' = "uncount"
    /\ UNCHANGED <<callVars, items, chanVars, req, streak, current, active>>

UncountActive ==
    /\ pc = "uncount"
    /\ active' = active - 1
    /\ pc' = "pop" /\ req' = NoRequest
    /\ UNCHANGED <<callVars, items, chanVars, streak, current, sources>>

\* Loads, unloads, the reaper and idle windows change which egg is the current one.
CurrentChanges ==
    /\ current' \in Models \cup {NoModel}
    /\ UNCHANGED <<callVars, items, chanVars, pc, req, streak, seenVars>>

-----------------------------------------------------------------------------

WorkerStep ==
    \/ PopEmpty \/ Wake \/ PopMatch \/ PopMismatch
    \/ StartHead \/ DropHead \/ DropAnswer
    \/ MarkStarted \/ CountActive \/ EnterWindow \/ Work
    \/ DeferredSend \/ LeaveWindow \/ UncountActive

CallerStep(r) == PushNotify(r) \/ TakeResult(r) \/ TakeStarted(r)

Next ==
    \/ \E r \in Requests :
         PushFull(r) \/ (\E m \in Models : Push(r, m)) \/ CallerStep(r) \/ QueueTimeout(r)
    \/ WorkerStep
    \/ CurrentChanges

Spec == Init /\ [][Next]_vars

\* Goroutines run; Start returns and work on a request ends, which the egg manager does not
\* grant (StartReturns, AwaitsEngine): what follows is said of the queue under these two
\* conditions. Nobody relies on the queueing limit.
FairSpec ==
    /\ Spec
    /\ WF_vars(WorkerStep)
    /\ \A r \in Requests : WF_vars(CallerStep(r))

-----------------------------------------------------------------------------
(* What makes it correct *)

\* The worker never sleeps over a request: while it waits for the token and the line is not
\* empty, the token is there or its sender is about to leave it.
NoLostWakeup ==
    pc = "sleep" /\ items # << >> => notify \/ \E r \in Requests : call[r] = "pushed"

\* The single worker never blocks on a caller: when it sends, the channel has room, also if
\* the caller has long gone.
SendsNeverBlock == pc \in {"dropped", "work"} => result[req] = "none"

\* No caller gets the "result not sent" of the deferred send instead of its answer.
NoBlankAnswer == \A r \in Requests : told[r] # "blank"

Waiting == {items[i] : i \in 1..Len(items)}

\* What became of a request, read off the state of the goroutines.
JobOf(r) ==
    IF call[r] = "new" THEN "new"
    ELSE IF told[r] = "full" THEN "refused"
    ELSE IF r \in Waiting THEN "waiting"
    ELSE IF "unavailable" \in {told[r], result[r]} \/ (pc = "dropped" /\ req = r) THEN "dropped"
    ELSE IF pc \in {"mark", "count", "enter", "work"} /\ req = r THEN "working"
    ELSE "done"

Promised == INSTANCE SingleServer WITH line <- items, job <- [r \in Requests |-> JobOf(r)], answer <- told

\* The goroutines keep the promise: one line of bounded length, one request at a time, in
\* order, at most once, and an answer for each.
KeepsPromise == Promised!AbsSafe

\* Every call that got into the line is answered, without help from the queueing limit,
\* however often the current model changes under the worker.
EveryCallAnswered == Promised!Promise

=============================================================================
