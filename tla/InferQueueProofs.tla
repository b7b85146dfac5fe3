-------------------------- MODULE InferQueueProofs --------------------------
(***************************************************************************)
(* Proofs about the inference queue, for any number of calls and models    *)
(* and any length of the line: no wake-up is lost, the worker never blocks *)
(* on a send, no caller gets a blank answer, and the goroutines implement  *)
(* SingleServer.                                                           *)
(*                                                                         *)
(* The invariant says where a request can be: in the line, in the worker's *)
(* hand, or behind it, and what its result channel holds in each place.    *)
(***************************************************************************)
EXTENDS InferQueue, TLAPS

Distinct == \A i, j \in 1..Len(items) : items[i] = items[j] => i = j

CallInv ==
    \A r \in Requests :
        /\ call[r] = "answered" <=> told[r] # "none"
        /\ call[r] = "new" => result[r] = "none" /\ r \notin Waiting
        /\ r \in Waiting => result[r] = "none" /\ told[r] \in {"none", "timeout"}
        /\ told[r] = "full" => result[r] = "none"
        /\ told[r] \in {"full", "unavailable"} => r \notin Waiting
        /\ result[r] = "blank" => call[r] = "answered"
        /\ told[r] # "blank"

Before == {"mark", "count", "enter", "work", "dropped"}

After == {"finish", "leave", "uncount"}

HandInv ==
    /\ pc \in {"pop", "sleep"} => req = NoRequest
    /\ pc \in {"start", "drop"} => items # << >> /\ req = Head(items)
    /\ pc \in Before => /\ req \in Requests /\ req \notin Waiting
                        /\ call[req] # "new" /\ told[req] \in {"none", "timeout"}
                        /\ result[req] = "none"
    /\ pc \in After => /\ req \in Requests /\ req \notin Waiting
                       /\ call[req] # "new" /\ told[req] \notin {"full", "unavailable"}
                       /\ result[req] # "unavailable"
    /\ pc = "finish" => result[req] = "result" \/ call[req] = "answered"

ActiveInv ==
    /\ active = IF pc \in {"enter", "work", "finish", "leave", "uncount"} THEN 1 ELSE 0
    /\ sources = IF pc \in {"work", "finish", "leave"} THEN {req} ELSE {}

IInv == TypeOK /\ Distinct /\ CallInv /\ HandInv /\ ActiveInv

-----------------------------------------------------------------------------
(* The line *)

\* The head of the line waits in it.
LEMMA HeadWaits ==
  ASSUME TypeOK, items # << >>
  PROVE  Head(items) \in Waiting /\ Head(items) \in Requests
  BY DEF TypeOK, Waiting

\* Push adds its request to those that wait, once.
LEMMA PushWaits ==
  ASSUME TypeOK, Distinct, NEW r \in Requests, r \notin Waiting, items' = Append(items, r)
  PROVE  /\ items' \in Seq(Requests)
         /\ Waiting' = Waiting \cup {r}
         /\ Distinct'
<1>1. items \in Seq(Requests)
  BY DEF TypeOK
<1>2. /\ items' \in Seq(Requests)
      /\ Len(items') = Len(items) + 1
      /\ \A i \in 1..Len(items) : items'[i] = items[i]
      /\ items'[Len(items) + 1] = r
  BY <1>1
<1>3. Waiting' = Waiting \cup {r}
  <2>1. ASSUME NEW x \in Waiting' PROVE x \in Waiting \cup {r}
    BY <1>1, <1>2, <2>1 DEF Waiting
  <2>2. ASSUME NEW x \in Waiting \cup {r} PROVE x \in Waiting'
    <3>1. CASE x = r
      BY <1>1, <1>2, <3>1 DEF Waiting
    <3>2. CASE x \in Waiting
      <4>1. PICK i \in 1..Len(items) : x = items[i]
        BY <3>2 DEF Waiting
      <4>2. i \in 1..Len(items') /\ x = items'[i]
        BY <1>1, <1>2, <4>1
      <4> QED BY <4>2 DEF Waiting
    <3> QED BY <2>2, <3>1, <3>2
  <2> QED BY <2>1, <2>2
<1>4. \A i \in 1..Len(items) : items[i] # r
  BY DEF Waiting
<1>5. Distinct'
  BY <1>1, <1>2, <1>4 DEF Distinct
<1> QED BY <1>2, <1>3, <1>5

\* Taking the head leaves the others waiting, and it nowhere in the line.
LEMMA TailWaits ==
  ASSUME TypeOK, Distinct, items # << >>, items' = Tail(items)
  PROVE  /\ items' \in Seq(Requests)
         /\ Waiting' = Waiting \ {Head(items)}
         /\ Distinct'
<1>1. items \in Seq(Requests)
  BY DEF TypeOK
<1>2. /\ items' \in Seq(Requests)
      /\ Len(items) \in Nat /\ Len(items) > 0
      /\ Len(items') = Len(items) - 1
      /\ \A i \in 1..Len(items') : items'[i] = items[i + 1]
      /\ Head(items) = items[1]
  BY <1>1
<1>3. Waiting' = Waiting \ {Head(items)}
  <2>1. ASSUME NEW x \in Waiting' PROVE x \in Waiting \ {Head(items)}
    <3>1. PICK i \in 1..Len(items') : x = items'[i]
      BY <2>1 DEF Waiting
    <3>2. i + 1 \in 1..Len(items) /\ x = items[i + 1] /\ i + 1 # 1 /\ 1 \in 1..Len(items)
      BY <1>2, <3>1
    <3>3. x # items[1]
      BY <3>2 DEF Distinct
    <3> QED BY <1>2, <3>2, <3>3 DEF Waiting
  <2>2. ASSUME NEW x \in Waiting \ {Head(items)} PROVE x \in Waiting'
    <3>1. PICK i \in 1..Len(items) : x = items[i]
      BY <2>2 DEF Waiting
    <3>2. i - 1 \in 1..Len(items') /\ x = items'[i - 1]
      BY <1>2, <2>2, <3>1
    <3> QED BY <3>2 DEF Waiting
  <2> QED BY <2>1, <2>2
<1>4. Distinct'
  <2> SUFFICES ASSUME NEW i \in 1..Len(items'), NEW j \in 1..Len(items'), items'[i] = items'[j]
               PROVE  i = j
    BY DEF Distinct
  <2>1. i + 1 \in 1..Len(items) /\ j + 1 \in 1..Len(items) /\ items[i + 1] = items[j + 1]
    BY <1>2
  <2>2. i + 1 = j + 1
    BY <2>1 DEF Distinct
  <2> QED BY <2>2
<1> QED BY <1>2, <1>3, <1>4

\* The line only depends on the items.
LEMMA SameLine ==
  ASSUME items' = items
  PROVE  Waiting' = Waiting /\ (Distinct => Distinct')
  BY DEF Waiting, Distinct

-----------------------------------------------------------------------------
(* The invariant *)

\* The empty queue satisfies it.
LEMMA InitOK == Init => IInv
<1> SUFFICES ASSUME Init PROVE IInv
  OBVIOUS
<1>1. items = << >> /\ Len(items) = 0 /\ items \in Seq(Requests) /\ Waiting = {} /\ Distinct
  BY DEF Init, Waiting, Distinct
<1>2. TypeOK
  BY <1>1 DEF Init, TypeOK, CallStates, Steps
<1>3. CallInv
  BY <1>1 DEF Init, CallInv
<1>4. HandInv /\ ActiveInv
  BY DEF Init, HandInv, ActiveInv, Before, After
<1> QED BY <1>1, <1>2, <1>3, <1>4 DEF IInv

\* The steps of the calls keep the invariant.
LEMMA CallKeeps ==
  ASSUME IInv, NEW r \in Requests,
         PushFull(r) \/ (\E m \in Models : Push(r, m)) \/ CallerStep(r) \/ QueueTimeout(r)
  PROVE  IInv'
<1> USE QueueAssumption DEF Before, After
<1>full. CASE PushFull(r)
  <2>1. items' = items /\ Waiting' = Waiting /\ Distinct'
    BY <1>full, SameLine DEF PushFull, CallOnly, IInv
  <2>2. TypeOK'
    BY <1>full DEF PushFull, CallOnly, Answered, chanVars, seenVars, IInv, TypeOK, CallStates
  <2>3. CallInv'
    BY <1>full, <2>1 DEF PushFull, CallOnly, Answered, chanVars, IInv, CallInv, TypeOK
  <2>4. HandInv' /\ ActiveInv'
    BY <1>full, <2>1, HeadWaits DEF PushFull, CallOnly, Answered, chanVars, seenVars, IInv, HandInv, CallInv,
       ActiveInv, TypeOK
  <2> QED BY <2>1, <2>2, <2>3, <2>4 DEF IInv
<1>push. ASSUME NEW m \in Models, Push(r, m) PROVE IInv'
  <2>1. r \notin Waiting /\ items' = Append(items, r)
    BY <1>push DEF Push, IInv, CallInv
  <2>2. items' \in Seq(Requests) /\ Waiting' = Waiting \cup {r} /\ Distinct'
    BY <2>1, PushWaits DEF IInv
  <2>3. TypeOK'
    BY <1>push, <2>2 DEF Push, chanVars, seenVars, IInv, TypeOK, CallStates
  <2>4. CallInv'
    BY <1>push, <2>2 DEF Push, chanVars, IInv, CallInv, TypeOK
  <2>5. items # << >> => Head(items') = Head(items)
    BY <2>1 DEF IInv, TypeOK
  <2>6. items' # << >>
    BY <2>1 DEF IInv, TypeOK
  <2>7. HandInv' /\ ActiveInv'
    BY <1>push, <2>2, <2>5, <2>6 DEF Push, chanVars, seenVars, IInv, HandInv, ActiveInv, TypeOK
  <2> QED BY <2>2, <2>3, <2>4, <2>7 DEF IInv
<1>notify. CASE PushNotify(r)
  <2>1. items' = items /\ Waiting' = Waiting /\ Distinct'
    BY <1>notify, SameLine DEF PushNotify, IInv
  <2>2. TypeOK'
    BY <1>notify DEF PushNotify, seenVars, IInv, TypeOK, CallStates
  <2>3. CallInv'
    BY <1>notify, <2>1 DEF PushNotify, IInv, CallInv, TypeOK
  <2>4. HandInv' /\ ActiveInv'
    BY <1>notify, <2>1 DEF PushNotify, seenVars, IInv, HandInv, ActiveInv, TypeOK
  <2> QED BY <2>1, <2>2, <2>3, <2>4 DEF IInv
<1>result. CASE TakeResult(r)
  <2>1. items' = items /\ Waiting' = Waiting /\ Distinct'
    BY <1>result, SameLine DEF TakeResult, IInv
  <2>2. TypeOK'
    BY <1>result DEF TakeResult, Answered, seenVars, IInv, TypeOK, CallStates
  <2>3. result[r] # "blank" /\ told[r] = "none" /\ r \notin Waiting
    BY <1>result DEF TakeResult, IInv, CallInv
  <2>4. CallInv'
    BY <1>result, <2>1, <2>3 DEF TakeResult, Answered, IInv, CallInv, TypeOK
  <2>5. HandInv' /\ ActiveInv'
    BY <1>result, <2>1, <2>3 DEF TakeResult, Answered, seenVars, IInv, HandInv, ActiveInv, TypeOK
  <2> QED BY <2>1, <2>2, <2>4, <2>5 DEF IInv
<1>started. CASE TakeStarted(r)
  <2>1. items' = items /\ Waiting' = Waiting /\ Distinct'
    BY <1>started, SameLine DEF TakeStarted, IInv
  <2>2. TypeOK'
    BY <1>started DEF TakeStarted, seenVars, IInv, TypeOK, CallStates
  <2>3. CallInv'
    BY <1>started, <2>1 DEF TakeStarted, IInv, CallInv, TypeOK
  <2>4. HandInv' /\ ActiveInv'
    BY <1>started, <2>1 DEF TakeStarted, seenVars, IInv, HandInv, ActiveInv, TypeOK
  <2> QED BY <2>1, <2>2, <2>3, <2>4 DEF IInv
<1>timeout. CASE QueueTimeout(r)
  <2>1. items' = items /\ Waiting' = Waiting /\ Distinct'
    BY <1>timeout, SameLine DEF QueueTimeout, CallOnly, IInv
  <2>2. TypeOK'
    BY <1>timeout DEF QueueTimeout, CallOnly, Answered, chanVars, seenVars, IInv, TypeOK, CallStates
  <2>3. CallInv'
    BY <1>timeout, <2>1 DEF QueueTimeout, CallOnly, Answered, chanVars, IInv, CallInv, TypeOK
  <2>4. HandInv' /\ ActiveInv'
    BY <1>timeout, <2>1 DEF QueueTimeout, CallOnly, Answered, chanVars, seenVars, IInv, HandInv, ActiveInv, TypeOK
  <2> QED BY <2>1, <2>2, <2>3, <2>4 DEF IInv
<1> QED BY <1>full, <1>push, <1>notify, <1>result, <1>started, <1>timeout DEF CallerStep

\* The steps of the worker at the head of the line keep the invariant.
LEMMA PopKeeps ==
  ASSUME IInv, PopEmpty \/ Wake \/ PopMatch \/ PopMismatch \/ StartHead \/ DropHead \/ DropAnswer
  PROVE  IInv'
<1> USE QueueAssumption DEF Before, After, WorkerOnly, callVars, chanVars, seenVars
<1>empty. CASE PopEmpty \/ Wake
  <2>1. items' = items /\ Waiting' = Waiting /\ Distinct'
    BY <1>empty, SameLine DEF PopEmpty, Wake, IInv
  <2>2. TypeOK'
    BY <1>empty DEF PopEmpty, Wake, IInv, TypeOK, Steps
  <2>3. CallInv'
    BY <1>empty, <2>1 DEF PopEmpty, Wake, IInv, CallInv
  <2>4. HandInv' /\ ActiveInv'
    BY <1>empty DEF PopEmpty, Wake, IInv, HandInv, ActiveInv
  <2> QED BY <2>1, <2>2, <2>3, <2>4 DEF IInv
<1>match. CASE PopMatch
  <2>0. items # << >> /\ items' = Tail(items) /\ req' = Head(items)
    BY <1>match DEF PopMatch
  <2>1. /\ items' \in Seq(Requests) /\ Waiting' = Waiting \ {Head(items)} /\ Distinct'
        /\ Head(items) \in Waiting /\ Head(items) \in Requests
    BY <2>0, TailWaits, HeadWaits DEF IInv
  <2>2. TypeOK'
    BY <1>match, <2>0, <2>1 DEF PopMatch, IInv, TypeOK, Steps
  <2>3. CallInv'
    BY <1>match, <2>1 DEF PopMatch, IInv, CallInv
  <2>4. HandInv' /\ ActiveInv'
    BY <1>match, <2>0, <2>1 DEF PopMatch, IInv, HandInv, CallInv, ActiveInv
  <2> QED BY <2>1, <2>2, <2>3, <2>4 DEF IInv
<1>mismatch. CASE PopMismatch
  <2>1. items' = items /\ Waiting' = Waiting /\ Distinct' /\ Head(items) \in Requests
    BY <1>mismatch, SameLine, HeadWaits DEF PopMismatch, IInv
  <2>2. TypeOK'
    BY <1>mismatch, <2>1 DEF PopMismatch, IInv, TypeOK, Steps
  <2>3. CallInv'
    BY <1>mismatch, <2>1 DEF PopMismatch, IInv, CallInv
  <2>4. HandInv' /\ ActiveInv'
    BY <1>mismatch DEF PopMismatch, IInv, HandInv, ActiveInv
  <2> QED BY <2>1, <2>2, <2>3, <2>4 DEF IInv
<1>start. CASE StartHead
  <2>1. items' = items /\ Waiting' = Waiting /\ Distinct'
    BY <1>start, SameLine DEF StartHead, IInv
  <2>2. req \in Requests
    BY <1>start, HeadWaits DEF StartHead, IInv, HandInv
  <2>3. TypeOK'
    BY <1>start, <2>2 DEF StartHead, IInv, TypeOK, Steps
  <2>4. CallInv'
    BY <1>start, <2>1 DEF StartHead, IInv, CallInv
  <2>5. HandInv' /\ ActiveInv'
    BY <1>start DEF StartHead, IInv, HandInv, ActiveInv
  <2> QED BY <2>1, <2>3, <2>4, <2>5 DEF IInv
<1>drop. CASE DropHead
  <2>0. items # << >> /\ items' = Tail(items) /\ req' = Head(items) /\ req = Head(items)
    BY <1>drop DEF DropHead, IInv, HandInv
  <2>1. /\ items' \in Seq(Requests) /\ Waiting' = Waiting \ {Head(items)} /\ Distinct'
        /\ Head(items) \in Waiting /\ Head(items) \in Requests
    BY <2>0, TailWaits, HeadWaits DEF IInv
  <2>2. TypeOK'
    BY <1>drop, <2>0, <2>1 DEF DropHead, IInv, TypeOK, Steps
  <2>3. CallInv'
    BY <1>drop, <2>1 DEF DropHead, IInv, CallInv
  <2>4. HandInv' /\ ActiveInv'
    BY <1>drop, <2>0, <2>1 DEF DropHead, IInv, HandInv, CallInv, ActiveInv
  <2> QED BY <2>1, <2>2, <2>3, <2>4 DEF IInv
<1>answer. CASE DropAnswer
  <2>1. items' = items /\ Waiting' = Waiting /\ Distinct'
    BY <1>answer, SameLine DEF DropAnswer, IInv
  <2>2. req \in Requests /\ req \notin Waiting /\ call[req] # "new" /\ told[req] \in {"none", "timeout"}
    BY <1>answer DEF DropAnswer, IInv, HandInv
  <2>3. TypeOK'
    BY <1>answer, <2>2 DEF DropAnswer, IInv, TypeOK, Steps
  <2>4. CallInv'
    BY <1>answer, <2>1, <2>2 DEF DropAnswer, IInv, CallInv, TypeOK
  <2>5. HandInv' /\ ActiveInv'
    BY <1>answer DEF DropAnswer, IInv, HandInv, ActiveInv
  <2> QED BY <2>1, <2>3, <2>4, <2>5 DEF IInv
<1> QED BY <1>empty, <1>match, <1>mismatch, <1>start, <1>drop, <1>answer

\* The steps of the worker on a request, and the changing eggs, keep the invariant.
LEMMA WorkKeeps ==
  ASSUME IInv, \/ MarkStarted \/ CountActive \/ EnterWindow \/ Work
               \/ DeferredSend \/ LeaveWindow \/ UncountActive \/ CurrentChanges
  PROVE  IInv'
<1> USE QueueAssumption DEF Before, After, WorkerOnly, callVars, chanVars, seenVars
<1>0. items' = items /\ Waiting' = Waiting /\ Distinct' /\ call' = call /\ told' = told
  BY SameLine DEF MarkStarted, CountActive, EnterWindow, Work, DeferredSend, LeaveWindow, UncountActive,
     CurrentChanges, IInv
<1>quiet. CASE MarkStarted \/ CountActive \/ EnterWindow \/ LeaveWindow \/ UncountActive \/ CurrentChanges
  <2>1. result' = result
    BY <1>quiet DEF MarkStarted, CountActive, EnterWindow, LeaveWindow, UncountActive, CurrentChanges
  <2>2. TypeOK'
    <3>1. CASE CountActive
      BY <3>1 DEF CountActive, IInv, TypeOK, Steps
    <3>4. CASE MarkStarted
      BY <3>4 DEF MarkStarted, IInv, TypeOK, Steps
    <3>2. CASE EnterWindow \/ LeaveWindow \/ CurrentChanges
      BY <3>2 DEF EnterWindow, LeaveWindow, CurrentChanges, IInv, HandInv, TypeOK, Steps
    <3>3. CASE UncountActive
      BY <3>3 DEF UncountActive, IInv, ActiveInv, TypeOK, Steps
    <3> QED BY <1>quiet, <3>1, <3>2, <3>3, <3>4
  <2>3. CallInv'
    BY <1>0, <2>1 DEF IInv, CallInv
  <2>4. HandInv'
    BY <1>quiet, <1>0, <2>1 DEF MarkStarted, CountActive, EnterWindow, LeaveWindow, UncountActive,
       CurrentChanges, IInv, HandInv
  <2>5. ActiveInv'
    BY <1>quiet DEF MarkStarted, CountActive, EnterWindow, LeaveWindow, UncountActive, CurrentChanges,
       IInv, ActiveInv
  <2> QED BY <1>0, <2>2, <2>3, <2>4, <2>5 DEF IInv
<1>work. CASE Work
  <2>1. req \in Requests /\ req \notin Waiting /\ call[req] # "new" /\ told[req] \in {"none", "timeout"}
    BY <1>work DEF Work, IInv, HandInv
  <2>2. TypeOK'
    BY <1>work, <2>1 DEF Work, IInv, TypeOK, Steps
  <2>3. CallInv'
    BY <1>work, <1>0, <2>1 DEF Work, IInv, CallInv, TypeOK
  <2>4. HandInv' /\ ActiveInv'
    BY <1>work, <1>0, <2>1 DEF Work, IInv, HandInv, ActiveInv, TypeOK
  <2> QED BY <1>0, <2>2, <2>3, <2>4 DEF IInv
<1>send. CASE DeferredSend
  <2>1. /\ req \in Requests /\ req \notin Waiting /\ call[req] # "new"
        /\ told[req] \notin {"full", "unavailable"} /\ result[req] # "unavailable"
        /\ result[req] = "result" \/ call[req] = "answered"
    BY <1>send DEF DeferredSend, IInv, HandInv
  <2>2. TypeOK'
    BY <1>send, <2>1 DEF DeferredSend, IInv, TypeOK, Steps
  <2>3. CallInv'
    BY <1>send, <1>0, <2>1 DEF DeferredSend, IInv, CallInv, TypeOK
  <2>4. HandInv' /\ ActiveInv'
    BY <1>send, <1>0, <2>1 DEF DeferredSend, IInv, HandInv, ActiveInv, TypeOK
  <2> QED BY <1>0, <2>2, <2>3, <2>4 DEF IInv
<1> QED BY <1>quiet, <1>work, <1>send

\* Every step keeps the invariant.
LEMMA StepOK == IInv /\ [Next]_vars => IInv'
<1> SUFFICES ASSUME IInv, [Next]_vars PROVE IInv'
  OBVIOUS
<1>1. CASE UNCHANGED vars
  BY <1>1, SameLine DEF vars, IInv, TypeOK, CallInv, HandInv, ActiveInv
<1> QED BY <1>1, CallKeeps, PopKeeps, WorkKeeps DEF Next, WorkerStep

\* In every behaviour the variables keep their types, and the worker never blocks on a
\* send to a caller that may have gone.
THEOREM AnswersSound == Spec => [](TypeOK /\ SendsNeverBlock)
<1>1. IInv => TypeOK /\ SendsNeverBlock
  BY DEF IInv, HandInv, CallInv, Before, SendsNeverBlock
<1> QED BY InitOK, StepOK, <1>1, PTL DEF Spec

\* No caller ever gets the blank answer of the deferred send: its real one came first.
THEOREM NoBlankAnswerEver == Spec => []NoBlankAnswer
<1>1. IInv => NoBlankAnswer
  BY DEF IInv, HandInv, CallInv, Before, NoBlankAnswer
<1> QED BY InitOK, StepOK, <1>1, PTL DEF Spec

-----------------------------------------------------------------------------
(* The wake-up *)

\* A step cannot put the worker to sleep over a request or take its token away unseen.
LEMMA WakeupKept ==
  ASSUME IInv, NoLostWakeup, [Next]_vars
  PROVE  NoLostWakeup'
<1> USE DEF NoLostWakeup
<1>call. ASSUME NEW r \in Requests,
                PushFull(r) \/ (\E m \in Models : Push(r, m)) \/ CallerStep(r) \/ QueueTimeout(r)
         PROVE  NoLostWakeup'
  <2>1. CASE \E m \in Models : Push(r, m)
    BY <2>1 DEF Push, IInv, TypeOK
  <2>2. CASE PushNotify(r)
    BY <2>2 DEF PushNotify
  <2>3. CASE PushFull(r) \/ TakeResult(r) \/ TakeStarted(r) \/ QueueTimeout(r)
    <3>1. /\ UNCHANGED <<items, notify, pc>>
          /\ call[r] # "pushed" /\ \A q \in Requests : q # r => call'[q] = call[q]
      BY <2>3 DEF PushFull, TakeResult, TakeStarted, QueueTimeout, CallOnly, Answered, chanVars, IInv, TypeOK
    <3> QED BY <3>1
  <2> QED BY <1>call, <2>1, <2>2, <2>3 DEF CallerStep
<1>empty. CASE PopEmpty
  BY <1>empty DEF PopEmpty
<1>awake. CASE \/ Wake \/ PopMatch \/ PopMismatch \/ StartHead \/ DropHead \/ DropAnswer
               \/ MarkStarted \/ CountActive \/ EnterWindow \/ Work \/ DeferredSend \/ LeaveWindow \/ UncountActive
  BY <1>awake DEF Wake, PopMatch, PopMismatch, StartHead, DropHead, DropAnswer, MarkStarted, CountActive,
     EnterWindow, Work, DeferredSend, LeaveWindow, UncountActive
<1>same. CASE CurrentChanges \/ UNCHANGED vars
  BY <1>same DEF CurrentChanges, callVars, chanVars, vars
<1> QED BY <1>call, <1>empty, <1>awake, <1>same DEF Next, WorkerStep

\* In every behaviour a worker that sleeps over a request has its token, or is about to get it.
THEOREM NoWakeupLost == Spec => []NoLostWakeup
<1>1. Init => NoLostWakeup
  BY DEF Init, NoLostWakeup
<1>2. IInv /\ NoLostWakeup /\ [Next]_vars => (IInv /\ NoLostWakeup)'
  BY StepOK, WakeupKept
<1> QED BY InitOK, <1>1, <1>2, PTL DEF Spec

-----------------------------------------------------------------------------
(* The goroutines implement SingleServer *)

Job == [r \in Requests |-> JobOf(r)]

\* Every step of a call is a step of SingleServer or leaves it alone.
LEMMA CallImplements ==
  ASSUME IInv, NEW r \in Requests,
         PushFull(r) \/ (\E m \in Models : Push(r, m)) \/ CallerStep(r) \/ QueueTimeout(r)
  PROVE  [Promised!AbsNext]_<<items, Job, told>>
<1> USE DEF Before, After
<1>full. CASE PushFull(r)
  <2>1. /\ call[r] = "new" /\ items' = items /\ Waiting' = Waiting /\ Len(items) >= Cap
        /\ told' = [told EXCEPT ![r] = "full"] /\ call' = [call EXCEPT ![r] = "answered"]
        /\ UNCHANGED <<pc, req, result>>
    BY <1>full, SameLine DEF PushFull, CallOnly, Answered, chanVars
  <2>2. JobOf(r) = "new" /\ JobOf(r)' = "refused"
    BY <2>1 DEF JobOf, IInv, TypeOK
  <2>3. \A q \in Requests : q # r => JobOf(q)' = JobOf(q)
    BY <2>1 DEF JobOf, IInv, TypeOK
  <2>4. Job[r] = "new" /\ Job' = [Job EXCEPT ![r] = "refused"]
    BY <2>2, <2>3 DEF Job
  <2>5. Promised!Refuse(r)
    BY <2>1, <2>4 DEF Promised!Refuse, Job
  <2> QED BY <2>5 DEF Promised!AbsNext
<1>push. ASSUME NEW m \in Models, Push(r, m) PROVE [Promised!AbsNext]_<<items, Job, told>>
  <2>1. /\ call[r] = "new" /\ items' = Append(items, r) /\ Len(items) < Cap
        /\ told' = told /\ call' = [call EXCEPT ![r] = "pushed"]
        /\ UNCHANGED <<pc, req, result>>
    BY <1>push DEF Push, chanVars
  <2>2. r \notin Waiting /\ told[r] = "none"
    BY <2>1 DEF IInv, CallInv
  <2>3. Waiting' = Waiting \cup {r}
    BY <2>1, <2>2, PushWaits DEF IInv
  <2>4. JobOf(r) = "new" /\ JobOf(r)' = "waiting"
    BY <2>1, <2>2, <2>3 DEF JobOf, IInv, TypeOK
  <2>5. \A q \in Requests : q # r => JobOf(q)' = JobOf(q)
    BY <2>1, <2>3 DEF JobOf, IInv, TypeOK
  <2>6. Job[r] = "new" /\ Job' = [Job EXCEPT ![r] = "waiting"]
    BY <2>4, <2>5 DEF Job
  <2>7. Promised!Submit(r)
    BY <2>1, <2>6 DEF Promised!Submit, Job
  <2> QED BY <2>7 DEF Promised!AbsNext
<1>quiet. CASE PushNotify(r) \/ TakeStarted(r)
  <2>1. /\ call[r] \notin {"new", "answered"} /\ call'[r] \notin {"new", "answered"}
        /\ \A q \in Requests : q # r => call'[q] = call[q]
        /\ UNCHANGED <<items, told, pc, req, result>> /\ Waiting' = Waiting
    BY <1>quiet, SameLine DEF PushNotify, TakeStarted, IInv, TypeOK
  <2>2. \A q \in Requests : JobOf(q)' = JobOf(q)
    BY <2>1 DEF JobOf
  <2> QED BY <2>1, <2>2 DEF Job
<1>result. CASE TakeResult(r)
  <2>1. /\ call[r] \in {"queued", "running"} /\ result[r] # "none"
        /\ told' = [told EXCEPT ![r] = result[r]] /\ call' = [call EXCEPT ![r] = "answered"]
        /\ result' = [result EXCEPT ![r] = "none"]
        /\ UNCHANGED <<items, pc, req>> /\ Waiting' = Waiting
    BY <1>result, SameLine DEF TakeResult, Answered
  <2>2. /\ told[r] = "none" /\ r \notin Waiting /\ result[r] \in {"unavailable", "result"}
        /\ ~(pc \in Before /\ req = r)
    BY <2>1 DEF IInv, CallInv, HandInv, TypeOK
  <2>3. \A q \in Requests : q # r => JobOf(q)' = JobOf(q)
    BY <2>1 DEF JobOf, IInv, TypeOK
  <2>4. CASE result[r] = "unavailable"
    <3>1. JobOf(r) = "dropped" /\ JobOf(r)' = "dropped"
      BY <2>1, <2>2, <2>4 DEF JobOf, IInv, TypeOK
    <3>2. Job[r] = "dropped" /\ Job' = Job
      BY <2>3, <3>1 DEF Job
    <3>3. Promised!Answer(r, "unavailable")
      BY <2>1, <2>2, <2>4, <3>2 DEF Promised!Answer, Job
    <3> QED BY <3>3 DEF Promised!AbsNext, Promised!Answers
  <2>5. CASE result[r] = "result"
    <3>1. JobOf(r) = "done" /\ JobOf(r)' = "done"
      BY <2>1, <2>2, <2>5 DEF JobOf, IInv, TypeOK
    <3>2. Job[r] = "done" /\ Job' = Job
      BY <2>3, <3>1 DEF Job
    <3>3. Promised!Answer(r, "result")
      BY <2>1, <2>2, <2>5, <3>2 DEF Promised!Answer, Job
    <3> QED BY <3>3 DEF Promised!AbsNext, Promised!Answers
  <2> QED BY <2>2, <2>4, <2>5
<1>timeout. CASE QueueTimeout(r)
  <2>1. /\ call[r] = "queued"
        /\ told' = [told EXCEPT ![r] = "timeout"] /\ call' = [call EXCEPT ![r] = "answered"]
        /\ UNCHANGED <<items, pc, req, result>> /\ Waiting' = Waiting
    BY <1>timeout, SameLine DEF QueueTimeout, CallOnly, Answered, chanVars
  <2>2. told[r] = "none"
    BY <2>1 DEF IInv, CallInv
  <2>3. JobOf(r)' = JobOf(r) /\ JobOf(r) \notin {"new", "refused"}
    BY <2>1, <2>2 DEF JobOf, IInv, TypeOK
  <2>4. \A q \in Requests : q # r => JobOf(q)' = JobOf(q)
    BY <2>1 DEF JobOf, IInv, TypeOK
  <2>5. Job[r] \notin {"new", "refused"} /\ Job' = Job
    BY <2>3, <2>4 DEF Job
  <2>6. Promised!Answer(r, "timeout")
    BY <2>1, <2>2, <2>5 DEF Promised!Answer, Job
  <2> QED BY <2>6 DEF Promised!AbsNext, Promised!Answers
<1> QED BY <1>full, <1>push, <1>quiet, <1>result, <1>timeout DEF CallerStep

\* So is every step of the worker and of the eggs.
LEMMA WorkerImplements ==
  ASSUME IInv, WorkerStep \/ CurrentChanges
  PROVE  [Promised!AbsNext]_<<items, Job, told>>
<1> USE DEF Before, After, WorkerOnly, callVars, chanVars
<1>match. CASE PopMatch
  <2>1. /\ pc = "pop" /\ pc' = "mark" /\ items # << >> /\ items' = Tail(items) /\ req' = Head(items)
        /\ UNCHANGED <<call, told, result>>
    BY <1>match DEF PopMatch
  <2>h. PICK h : h = Head(items)
    OBVIOUS
  <2>2. /\ Waiting' = Waiting \ {h} /\ h \in Waiting /\ h \in Requests
    BY <2>h, <2>1, TailWaits, HeadWaits DEF IInv
  <2>3. /\ call[h] # "new" /\ told[h] \in {"none", "timeout"}
        /\ result[h] = "none"
    BY <2>h, <2>2 DEF IInv, CallInv
  <2>4. JobOf(h)' = "working"
    BY <2>h, <2>1, <2>2, <2>3 DEF JobOf
  <2>5. \A q \in Requests : JobOf(q) # "working" /\ (q # h => JobOf(q)' = JobOf(q))
    BY <2>h, <2>1, <2>2 DEF JobOf
  <2>6. (\A q \in Requests : Job[q] # "working") /\ Job' = [Job EXCEPT ![h] = "working"]
    BY <2>h, <2>2, <2>4, <2>5 DEF Job
  <2>7. Promised!Leave(h, "working")
    BY <2>h, <2>1, <2>6 DEF Promised!Leave, Job
  <2> QED BY <2>2, <2>7 DEF Promised!AbsNext
<1>drop. CASE DropHead
  <2>1. /\ pc = "drop" /\ pc' = "dropped" /\ items # << >> /\ items' = Tail(items)
        /\ req' = Head(items) /\ UNCHANGED <<call, told, result>>
    BY <1>drop DEF DropHead, IInv, HandInv
  <2>h. PICK h : h = Head(items)
    OBVIOUS
  <2>2. /\ Waiting' = Waiting \ {h} /\ h \in Waiting /\ h \in Requests
    BY <2>h, <2>1, TailWaits, HeadWaits DEF IInv
  <2>3. /\ call[h] # "new" /\ told[h] \in {"none", "timeout"}
        /\ result[h] = "none"
    BY <2>h, <2>2 DEF IInv, CallInv
  <2>4. JobOf(h)' = "dropped"
    BY <2>h, <2>1, <2>2, <2>3 DEF JobOf
  <2>5. \A q \in Requests : JobOf(q) # "working" /\ (q # h => JobOf(q)' = JobOf(q))
    BY <2>h, <2>1, <2>2 DEF JobOf
  <2>6. (\A q \in Requests : Job[q] # "working") /\ Job' = [Job EXCEPT ![h] = "dropped"]
    BY <2>h, <2>2, <2>4, <2>5 DEF Job
  <2>7. Promised!Leave(h, "dropped")
    BY <2>h, <2>1, <2>6 DEF Promised!Leave, Job
  <2> QED BY <2>2, <2>7 DEF Promised!AbsNext
<1>work. CASE Work
  <2>1. /\ pc = "work" /\ pc' = "finish" /\ result' = [result EXCEPT ![req] = "result"]
        /\ UNCHANGED <<call, told, items, req>> /\ Waiting' = Waiting
    BY <1>work, SameLine DEF Work
  <2>h. PICK h : h = req
    OBVIOUS
  <2>2. /\ h \in Requests /\ h \notin Waiting /\ call[h] # "new"
        /\ told[h] \in {"none", "timeout"} /\ result[h] = "none"
    BY <2>h, <2>1 DEF IInv, HandInv
  <2>3. JobOf(h) = "working" /\ JobOf(h)' = "done"
    BY <2>h, <2>1, <2>2 DEF JobOf, IInv, TypeOK
  <2>4. \A q \in Requests : q # h => JobOf(q)' = JobOf(q)
    BY <2>h, <2>1, <2>2 DEF JobOf, IInv, TypeOK
  <2>5. Job[h] = "working" /\ Job' = [Job EXCEPT ![h] = "done"]
    BY <2>h, <2>2, <2>3, <2>4 DEF Job
  <2>6. Promised!Finish(h)
    BY <2>h, <2>1, <2>5 DEF Promised!Finish, Job
  <2> QED BY <2>2, <2>6 DEF Promised!AbsNext
<1>answer. CASE DropAnswer
  <2>1. /\ pc = "dropped" /\ pc' = "pop" /\ result' = [result EXCEPT ![req] = "unavailable"]
        /\ UNCHANGED <<call, told, items>> /\ Waiting' = Waiting
    BY <1>answer, SameLine DEF DropAnswer
  <2>2. req \in Requests /\ req \notin Waiting /\ call[req] # "new" /\ told[req] \in {"none", "timeout"}
    BY <2>1 DEF IInv, HandInv
  <2>3. \A q \in Requests : JobOf(q)' = JobOf(q)
    BY <2>1, <2>2 DEF JobOf, IInv, TypeOK
  <2> QED BY <2>1, <2>3 DEF Job
<1>send. CASE DeferredSend
  <2>1. /\ pc = "finish" /\ pc' = "leave" /\ UNCHANGED <<call, told, items, req>> /\ Waiting' = Waiting
        /\ \A q \in Requests : result'[q] = "unavailable" <=> result[q] = "unavailable"
    BY <1>send, SameLine DEF DeferredSend, IInv, TypeOK
  <2>2. \A q \in Requests : JobOf(q)' = JobOf(q)
    BY <2>1 DEF JobOf
  <2> QED BY <2>1, <2>2 DEF Job
<1>quiet. CASE \/ PopEmpty \/ Wake \/ PopMismatch \/ StartHead \/ MarkStarted \/ CountActive \/ EnterWindow
               \/ LeaveWindow \/ UncountActive \/ CurrentChanges
  <2>1. UNCHANGED <<call, told, items, result>> /\ Waiting' = Waiting
    BY <1>quiet, SameLine DEF PopEmpty, Wake, PopMismatch, StartHead, MarkStarted, CountActive, EnterWindow,
       LeaveWindow, UncountActive, CurrentChanges
  <2>2. /\ (pc = "dropped") = (pc' = "dropped")
        /\ (pc \in {"mark", "count", "enter", "work"}) = (pc' \in {"mark", "count", "enter", "work"})
        /\ pc' \in {"dropped", "mark", "count", "enter", "work"} => req' = req
    BY <1>quiet DEF PopEmpty, Wake, PopMismatch, StartHead, MarkStarted, CountActive, EnterWindow,
       LeaveWindow, UncountActive, CurrentChanges
  <2>3. \A q \in Requests : JobOf(q)' = JobOf(q)
    BY <2>1, <2>2 DEF JobOf
  <2> QED BY <2>1, <2>3 DEF Job
<1> QED BY <1>match, <1>drop, <1>work, <1>answer, <1>send, <1>quiet DEF WorkerStep

\* The calls, the line and the worker implement SingleServer: whatever the callers see is
\* what one line of bounded length with one server, first come first served, could show.
THEOREM QueueImplements == Spec => KeepsPromise
<1>1. Init => Promised!AbsInit
  BY DEF Init, Promised!AbsInit, JobOf
<1>2. IInv /\ [Next]_vars => [Promised!AbsNext]_<<items, Job, told>>
  <2>1. CASE UNCHANGED vars
    <3>1. ASSUME UNCHANGED vars PROVE UNCHANGED <<items, Job, told>>
      BY <3>1 DEF vars, Job, JobOf, Waiting
    <3> QED BY <2>1, <3>1
  <2>2. ASSUME IInv, Next PROVE [Promised!AbsNext]_<<items, Job, told>>
    BY <2>2, CallImplements, WorkerImplements DEF Next
  <2> QED BY <2>1, <2>2
<1>3. IInv /\ [Next]_vars => [Promised!AbsNext]_(Promised!absVars)
  BY <1>2 DEF Promised!absVars, Job
<1> QED BY InitOK, StepOK, <1>1, <1>3, PTL DEF Spec, KeepsPromise, Promised!AbsSafe
=============================================================================
