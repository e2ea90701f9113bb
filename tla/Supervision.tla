---------------------------- MODULE Supervision ----------------------------
(***************************************************************************)
(* What a supervisor promises of one of its sessions, whichever of the two *)
(* it is (go/internal/supervisor/supervisor.go,                            *)
(* packages/core/src/supervisor/SessionSupervisor.ts).                     *)
(*                                                                         *)
(* A process comes up only on a START that has been granted, and each      *)
(* start brings up one process at most.  Starts are granted by what a      *)
(* client asks for, one for each request; by an automatic restart, one for *)
(* each process that has ended, and only while an attempt is left, which   *)
(* it uses up; and by a recovery, one for a session that was under way.    *)
(* The supervisor itself passes starts on, drops them or uses them up.     *)
(* Nothing else starts a session.  A session is in error only when no      *)
(* attempt was left at the end of a process or a start of it has failed.   *)
(* Attempts are not given back, and their limit does not change, as long   *)
(* as the session is known.                                                *)
(***************************************************************************)
EXTENDS Naturals

CONSTANT Limits  \* the values the limit of restarts may have

VARIABLES
  session,  \* its phase, its restarts and their limit
  pending,  \* the starts granted and neither used up nor dropped
  up        \* the processes that are watched

vars == <<session, pending, up>>

Unknown == [phase |-> "unknown", restarts |-> 0, limit |-> 0]

Known == session # Unknown

Init == ~Known /\ pending = {} /\ up = {}

Becomes(phase) == Known /\ session' = [session EXCEPT !.phase = phase]

New == (pending' \ pending) \cup (up' \ up)

NothingNew == New = {}

OneNew == \A x, y \in New : x = y

Ended == ~(up \subseteq up')

UsesStart == ~(pending \subseteq pending')

-----------------------------------------------------------------------------
(* What a client asks for.                                                 *)
Create ==
  /\ ~Known /\ NothingNew
  /\ \E n \in Limits : session' = [phase |-> "created", restarts |-> 0, limit |-> n]

Ask == Becomes("active") /\ OneNew

Stop == (Becomes("stopped") \/ Becomes("active")) /\ NothingNew

Client == Create \/ Ask \/ Stop

(* What the supervisor does of its own accord.                             *)
Stay == session' = session /\ NothingNew

(* A start is under way, passed on, or brings up its process.              *)
Begin == Becomes("active") /\ pending # {} /\ OneNew /\ (NothingNew \/ UsesStart)

Restart ==
  /\ Ended /\ session.restarts < session.limit
  /\ session' = [session EXCEPT !.phase = "active", !.restarts = @ + 1]
  /\ OneNew

End ==
  /\ Ended /\ NothingNew
  /\ Becomes("stopped") \/ (session.restarts = session.limit /\ Becomes("error"))

StartFails == UsesStart /\ NothingNew /\ Becomes("error")

Own == Stay \/ Begin \/ Restart \/ End \/ StartFails

(* A new supervisor, or one that reads its file again: it shows the        *)
(* session as it was or, when it was under way, as one at rest.            *)
Recover ==
  /\ OneNew /\ (NothingNew \/ session'.phase = "active")
  /\ \/ session' = session
     \/ session.phase = "active" /\ \E phase \in {"created", "stopped", "error"} : Becomes(phase)

Forget == session' = Unknown /\ NothingNew

Recovery == Recover \/ Forget

Next == Client \/ Own \/ Recovery

Spec == Init /\ [][Next]_vars
=============================================================================
