---------------------------- MODULE TaskContract ----------------------------
(***************************************************************************)
(* What an agent's queue promises of its tasks, without saying how: which  *)
(* may be given out together, which can come back, how each ends and what  *)
(* replaces one that failed.  Polls, answers, locks, handlers, reports,    *)
(* sweepers and crashes are hidden; TaskQueue implements this contract.    *)
(***************************************************************************)
EXTENDS Naturals, FiniteSets

CONSTANTS
    Tasks,    \* every task there may ever be
    Issues,   \* what they are about
    Limits    \* the values of the agent's limit

VARIABLES
    stage,    \* stage[t]: how far task t is
    issue,    \* issue[t]: what it is about
    origin,   \* origin[t]: the task that t is the retry of, or 0
    limit     \* how many tasks the agent may have at work

vars == <<stage, issue, origin, limit>>

Ends == {"completed", "failed", "cancelled"}
Stages == {"none", "waiting", "given", "started"} \cup Ends
AtWork == {t \in Tasks : stage[t] \in {"given", "started"}}
Untried == {t \in Tasks : stage[t] \in {"given", "started", "failed"}
                           /\ \A u \in Tasks : origin[u] # t}
Open(t) == stage[t] \in {"waiting", "given", "started"}

Init ==
    /\ stage = [t \in Tasks |-> "none"]
    /\ issue = [t \in Tasks |-> "none"]
    /\ origin = [t \in Tasks |-> 0]
    /\ limit \in Limits

\* Task t moves from one stage to another, and no other task does.
Move(t, from, to) ==
    /\ stage[t] = from
    /\ stage' = [stage EXCEPT ![t] = to]

Added(t, i, o) ==
    /\ stage[t] = "none" /\ stage'[t] = "waiting"
    /\ origin' = [origin EXCEPT ![t] = o]
    /\ issue' = [issue EXCEPT ![t] = i]
    /\ stage' \in [Tasks -> Stages]

\* Users ask for work on an issue, in place of all that is open on it or besides.
Submit(t, i) ==
    /\ Added(t, i, 0)
    /\ \A u \in Tasks \ {t} : stage'[u] # stage[u] =>
          Open(u) /\ issue[u] = i /\ stage'[u] = "cancelled"
    /\ UNCHANGED limit

\* A task that fails at work, or has failed, is tried again, once.
Retry(t, failed) ==
    /\ Added(t, issue[failed], failed)
    /\ stage'[failed] = "failed"
    /\ \A u \in Tasks \ {t, failed} : stage'[u] = stage[u]
    /\ UNCHANGED limit

\* The agent gets a task within its limit, and only one of an issue at a time.
GiveOut(t) ==
    /\ Move(t, "waiting", "given")
    /\ Cardinality(AtWork) < limit
    /\ \A u \in AtWork : issue[u] # issue[t]
    /\ UNCHANGED <<issue, origin, limit>>

\* What was given out can come back, until it is started.
TakeBack(t) ==
    /\ Move(t, "given", "waiting")
    /\ UNCHANGED <<issue, origin, limit>>

Start(t) ==
    /\ Move(t, "given", "started")
    /\ UNCHANGED <<issue, origin, limit>>

\* Open tasks end, for good; only what was started is completed.
End ==
    /\ \A t \in Tasks : stage'[t] # stage[t] =>
          /\ Open(t) /\ stage'[t] \in Ends
          /\ stage'[t] = "completed" => stage[t] = "started"
    /\ stage' \in [Tasks -> Stages]
    /\ UNCHANGED <<issue, origin, limit>>

SetLimit ==
    /\ limit' \in Limits
    /\ UNCHANGED <<stage, issue, origin>>

Next ==
    \/ \E t \in Tasks, i \in Issues : Submit(t, i)
    \/ \E failed \in Untried, t \in Tasks : Retry(t, failed)
    \/ \E t \in Tasks : GiveOut(t) \/ TakeBack(t) \/ Start(t)
    \/ End \/ SetLimit

Spec == Init /\ [][Next]_vars
=============================================================================
