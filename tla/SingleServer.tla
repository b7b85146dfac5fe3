---------------------------- MODULE SingleServer ----------------------------
(***************************************************************************)
(* What the inference queue of an agent promises its callers, without the  *)
(* goroutines and channels that bring it about: requests wait in one line  *)
(* of bounded length, one at a time is worked on, each is taken up at most *)
(* once and in the order of arrival, and every caller gets one answer that *)
(* is about its own request.                                               *)
(*                                                                         *)
(* A caller that gives up leaves its request in the line.                  *)
(***************************************************************************)
EXTENDS Naturals, Sequences

CONSTANTS
    Requests,  \* the /infer calls
    Cap        \* length of the line

VARIABLES
    line,    \* the requests that wait, first come first
    job,     \* what became of the request
    answer   \* what the caller was told

absVars == <<line, job, answer>>

Jobs == {"new", "waiting", "working", "done", "dropped", "refused"}

Answers == {"none", "full", "timeout", "unavailable", "result"}

AbsInit ==
    /\ line = << >>
    /\ job = [r \in Requests |-> "new"]
    /\ answer = [r \in Requests |-> "none"]

Submit(r) ==
    /\ job[r] = "new"
    /\ Len(line) < Cap
    /\ line' = Append(line, r)
    /\ job' = [job EXCEPT ![r] = "waiting"]
    /\ UNCHANGED answer

Refuse(r) ==
    /\ job[r] = "new"
    /\ Len(line) >= Cap
    /\ job' = [job EXCEPT ![r] = "refused"]
    /\ answer' = [answer EXCEPT ![r] = "full"]
    /\ UNCHANGED line

\* Only the first of the line leaves it, and only while nothing is worked on.
Leave(r, how) ==
    /\ line # << >> /\ r = Head(line)
    /\ \A q \in Requests : job[q] # "working"
    /\ line' = Tail(line)
    /\ job' = [job EXCEPT ![r] = how]
    /\ UNCHANGED answer

Finish(r) ==
    /\ job[r] = "working"
    /\ job' = [job EXCEPT ![r] = "done"]
    /\ UNCHANGED <<line, answer>>

\* The answer to a caller that has none yet fits what became of its request.
Answer(r, a) ==
    /\ answer[r] = "none"
    /\ \/ a = "result" /\ job[r] = "done"
       \/ a = "unavailable" /\ job[r] = "dropped"
       \/ a = "timeout" /\ job[r] \notin {"new", "refused"}
    /\ answer' = [answer EXCEPT ![r] = a]
    /\ UNCHANGED <<line, job>>

AbsNext ==
    \E r \in Requests :
        \/ Submit(r) \/ Refuse(r) \/ Finish(r)
        \/ \E how \in {"working", "dropped"} : Leave(r, how)
        \/ \E a \in Answers : Answer(r, a)

AbsSafe == AbsInit /\ [][AbsNext]_absVars

\* Every request that is let in is answered.
Promise == \A r \in Requests : job[r] = "waiting" ~> answer[r] # "none"

AbsSpec == AbsSafe /\ Promise
=============================================================================
