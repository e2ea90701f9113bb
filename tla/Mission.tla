------------------------------ MODULE Mission ------------------------------
(***************************************************************************)
(* What a mission promises to whoever reads its record                     *)
(* (packages/core/src/services/MissionService.ts): a task is completed only *)
(* with the work of an agent and within the budget, and then for good; it  *)
(* is given up only for a reason, and taken up again only when a client    *)
(* reopens the mission; and the mission's verdict is that of its tasks.    *)
(* Crashes, resumptions and the way results come are not seen.             *)
(***************************************************************************)
EXTENDS Naturals

CONSTANTS
  Tasks,
  Sensitive,   \* tasks that somebody may refuse to approve
  MaxRetries,
  TokenLimit   \* the budget, in accepted results; 0 for none

VARIABLES
  outcome,     \* of each task: "open", "completed" or "failed"
  spent,       \* the retries of each task
  delivered,   \* the tasks that an agent has returned a result of
  tokens,      \* the results accepted
  verdict,     \* of the mission: "open", "completed" or "failed"
  reopened     \* how often it has been reopened

Judge(how) ==
  IF \E t \in Tasks : how[t] = "failed" THEN "failed"
  ELSE IF \A t \in Tasks : how[t] = "completed" THEN "completed"
  ELSE "open"

Init ==
  /\ outcome = [t \in Tasks |-> "open"]
  /\ spent = [t \in Tasks |-> 0]
  /\ delivered = {} /\ tokens = 0
  /\ verdict = "open" /\ reopened = 0

Deliver(t) ==
  /\ delivered' = delivered \cup {t}
  /\ UNCHANGED <<outcome, spent, tokens, verdict, reopened>>

Retry(t) ==
  /\ outcome[t] = "open" /\ spent[t] < MaxRetries
  /\ spent' = [spent EXCEPT ![t] = @ + 1]
  /\ UNCHANGED <<outcome, delivered, tokens, verdict, reopened>>

Ends(t, how) ==
  /\ outcome[t] = "open"
  /\ outcome' = [outcome EXCEPT ![t] = how]
  /\ verdict' = Judge(outcome')
  /\ UNCHANGED <<spent, delivered, reopened>>

Affordable == TokenLimit = 0 \/ tokens < TokenLimit

Complete(t) ==
  /\ t \in delivered /\ Affordable
  /\ Ends(t, "completed")
  /\ tokens' = tokens + 1

Overspend(t) ==
  /\ t \in delivered /\ ~Affordable
  /\ Ends(t, "failed")
  /\ tokens' = tokens + 1

Refuse(t) ==
  /\ t \in Sensitive
  /\ Ends(t, "failed")
  /\ UNCHANGED tokens

GiveUp(t) ==
  /\ spent[t] = MaxRetries
  /\ Ends(t, "failed")
  /\ UNCHANGED tokens

(* A client resumes the whole mission: what has failed may end again, on   *)
(* the retries it has left.  A completed mission is shown as open too.     *)
Reopen ==
  /\ reopened' = reopened + 1
  /\ outcome' = [t \in Tasks |-> IF outcome[t] = "completed" THEN "completed" ELSE "open"]
  /\ verdict' = "open"
  /\ UNCHANGED <<spent, delivered, tokens>>

Next ==
  \/ Reopen
  \/ \E t \in Tasks :
       Deliver(t) \/ Retry(t) \/ Complete(t) \/ Overspend(t) \/ Refuse(t) \/ GiveUp(t)

Spec == Init /\ [][Next]_<<outcome, spent, delivered, tokens, verdict, reopened>>
=============================================================================
