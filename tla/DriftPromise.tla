------------------------------ MODULE DriftPromise ------------------------------
(***************************************************************************)
(* What the controller promises the readers of a DriftCheck's status and   *)
(* the owners of its webhooks, with no controller in sight: no cache, no   *)
(* queue, no replicas, no calls that fail half way.  Every change of a     *)
(* stored status is one whole, current statement:                          *)
(*   - an evaluation of the stored spec: list, tally and condition at once;*)
(*   - a failure to evaluate it: the condition alone, the last drift stays;*)
(*   - the acknowledgement of the listed drift, once every webhook of the  *)
(*     stored spec has been told of it.                                    *)
(* The controller reaches these by conditional writes from stale copies;   *)
(* DriftCheckController is shown to implement this module.                 *)
(***************************************************************************)
EXTENDS DriftStatus, Sequences

CONSTANTS Checks, Webhooks, Specs, Readings, Absent

VARIABLES
    object,      \* the DriftCheck under each name, or Absent
    told         \* every <<check, webhook, message>> delivered

promised == <<object, told>>

Init ==
    /\ object = [c \in Checks |-> Absent]
    /\ told = {}

Exists(c) == object[c] # Absent
Becomes(c, new) == object' = [object EXCEPT ![c] = new] /\ UNCHANGED told
Says(c, status) == Becomes(c, [object[c] EXCEPT !.status = status])

-----------------------------------------------------------------------------
(* The owner of the check. *)

Create(c) ==
    /\ ~Exists(c)
    /\ \E s \in Specs : Becomes(c, [generation |-> 1, spec |-> s, status |-> NewStatus])

Edit(c) ==
    /\ Exists(c)
    /\ \E s \in Specs \ {object[c].spec} :
          Becomes(c, [object[c] EXCEPT !.generation = @ + 1, !.spec = s])

Delete(c) == Exists(c) /\ Becomes(c, Absent)

-----------------------------------------------------------------------------
(* The controller. *)

Evaluate(c) ==
    /\ Exists(c)
    /\ \E reading \in Readings :
          Says(c, Evaluated(object[c].status, reading, object[c].generation))

Fail(c) ==
    /\ Exists(c)
    /\ \E reason \in {"SourceError", "InvalidTarget", "FetchError", "CompareError"} :
          Says(c, NotReady(object[c].status, reason, object[c].generation))

(* Drift may be told at any time, its end only after drift was. *)
Tell(c, w, message) ==
    /\ message.resolved =>
          \E earlier \in told : earlier[1] = c /\ ~earlier[3].resolved
    /\ told' = told \cup {<<c, w, message>>}
    /\ UNCHANGED object

Acknowledge(c) ==
    LET status == object[c].status
        spec == object[c].spec
        message == BuildEvent(status.drifted, status.drifted = {})
    IN /\ Exists(c)
       /\ \A i \in DOMAIN spec.webhooks : <<c, spec.webhooks[i], message>> \in told
       /\ Says(c, [status EXCEPT !.lastNotifiedHash = DriftHash(status.drifted)])

-----------------------------------------------------------------------------
(* Messages say there is drift, and list it, or that there is none. *)
Messages == {BuildEvent(Drifted(reading), Drifted(reading) = {}) : reading \in Readings}

Next ==
    \E c \in Checks :
        \/ Create(c) \/ Edit(c) \/ Delete(c)
        \/ Evaluate(c) \/ Fail(c) \/ Acknowledge(c)
        \/ \E w \in Webhooks, message \in Messages : Tell(c, w, message)

Spec == Init /\ [][Next]_promised

=============================================================================
