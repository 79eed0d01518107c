----------------------------- MODULE WebhookDelivery -----------------------------
(***************************************************************************)
(* One turn of the send loop of internal/controller/notify.go, after the   *)
(* source of SourceResolution was read and evaluated: resolveWebhookURL,   *)
(* and Send and payload of internal/notify over Go's HTTP client.  The     *)
(* loop, its retries and the fingerprint are in DriftCheckController,      *)
(* whose SendWebhook relies on what is shown here of a success.            *)
(*                                                                         *)
(* What is met on the way (the Secret's content, a server's answer) is     *)
(* chosen where it is met.                                                 *)
(***************************************************************************)
EXTENDS SourceResolution

CONSTANT MaxRedirects    \* how many Go's client follows: 10

ASSUME MaxRedirectsIsNat == MaxRedirects \in Nat

VARIABLE delivery    \* the webhook in hand and what became of it

-----------------------------------------------------------------------------
WebhookTypes == {"Slack", "Generic", "", "Unknown"}

(* A webhook has an inline url, or not, and a urlSecretRef, or not.  The   *)
(* validation rule asks for one of them, but an empty url satisfies it.    *)
Hooks == [type : WebhookTypes, hasURL : BOOLEAN, hasRef : BOOLEAN]

(* What the reference leads to: no Secret, no such key, or the key's value. *)
Referents == {"notFound", "noKey"} \cup Values

(* Where a url leads: the inline one, the Secret's, or one of a redirect. *)
Endpoints == {"inline", "secret", "redirected"}

(* Bug: a reference that does not resolve falls back to the inline url. *)
ResolveWebhookURL_FallingBack(hook, referent) ==
    IF hook.hasRef /\ referent \in Values /\ TrimSpace(referent) # "" THEN Resolved("secret")
    ELSE IF hook.hasURL THEN Resolved("inline") ELSE Failed

ResolveWebhookURL(hook, referent) ==
    IF hook.hasRef
    THEN IF referent \in Values /\ TrimSpace(referent) # "" THEN Resolved("secret") ELSE Failed
    ELSE IF hook.hasURL THEN Resolved("inline") ELSE Failed

(* Slack gets a sentence in which "resolved" replaces counts and           *)
(* resources; Generic, the default, gets every field.                      *)
Payload(type, resolved) ==
    CASE type = "Slack" -> Resolved([text |-> IF resolved THEN "resolved" ELSE "drift"])
      [] type \in {"Generic", ""} -> Resolved([resolved |-> resolved])
      [] OTHER -> Failed

-----------------------------------------------------------------------------
NoDelivery == [stage |-> "idle"]

DeliveryInit == Init /\ delivery = NoDelivery

(* Evaluated: nothing of the source is needed any more. *)
BeginNotify ==
    /\ delivery = NoDelivery /\ phase = "connected"
    /\ \E hook \in Hooks, resolved \in BOOLEAN :
          delivery' = [stage |-> "resolve", hook |-> hook, resolved |-> resolved, at |-> Nil,
                       verb |-> "POST", body |-> Nil, redirects |-> 0, shown |-> {}]
    /\ phase' = "start" /\ auth' = Nil /\ stream' = <<>> /\ method' = Nil
    /\ secret' = Nil /\ configMap' = Nil
    /\ UNCHANGED request

ResolveURL ==
    /\ delivery.stage = "resolve"
    /\ \E referent \in Referents :
          LET url == ResolveWebhookURL(delivery.hook, referent)
          IN delivery' = IF url.failed THEN [delivery EXCEPT !.stage = "failed"]
                         ELSE [delivery EXCEPT !.stage = "send", !.at = url.value]
    /\ UNCHANGED vars

(* The request leaves; a url that cannot be reached is NoAnswer. *)
Send ==
    LET body == Payload(delivery.hook.type, delivery.resolved) IN
    /\ delivery.stage = "send"
    /\ delivery' = IF body.failed THEN [delivery EXCEPT !.stage = "failed"]
                   ELSE [delivery EXCEPT !.stage = "sent", !.body = body.value,
                                         !.shown = {<<delivery.at, body.value>>}]
    /\ UNCHANGED vars

Succeeds(status) == status = "2xx"

(* The last answer decides, also that to a GET without the event which a   *)
(* followed redirect has made of the post.                                 *)
Answer ==
    /\ delivery.stage = "sent"
    /\ \E status \in {"2xx", "other"} :
          delivery' = [delivery EXCEPT !.stage = IF Succeeds(status) THEN "ok" ELSE "failed"]
    /\ UNCHANGED vars

(* Unreachable, cut off, or silent for the client's ten seconds. *)
NoAnswer ==
    /\ delivery.stage = "sent"
    /\ delivery' = [delivery EXCEPT !.stage = "failed"]
    /\ UNCHANGED vars

(* Go's client repeats the post for 307 and 308, and fetches for others. *)
Redirect ==
    /\ delivery.stage = "sent"
    /\ \/ /\ delivery.redirects = MaxRedirects
          /\ delivery' = [delivery EXCEPT !.stage = "failed"]
       \/ /\ delivery.redirects < MaxRedirects
          /\ \/ delivery' = [delivery EXCEPT
                    !.verb = "GET", !.at = "redirected", !.redirects = @ + 1]
             \/ /\ delivery.verb = "POST"
                /\ delivery' = [delivery EXCEPT
                      !.at = "redirected", !.redirects = @ + 1,
                      !.shown = @ \cup {<<"redirected", delivery.body>>}]
    /\ UNCHANGED vars

(* The next webhook, or the next reconcile. *)
EndNotify ==
    /\ delivery.stage \in {"ok", "failed"}
    /\ delivery' = NoDelivery
    /\ UNCHANGED vars

DeliveryNext ==
    \/ delivery = NoDelivery /\ Next /\ UNCHANGED delivery
    \/ BeginNotify \/ ResolveURL \/ Send \/ Answer \/ NoAnswer \/ Redirect \/ EndNotify

DeliverySpec == DeliveryInit /\ [][DeliveryNext]_<<vars, delivery>>

-----------------------------------------------------------------------------
(* urlSecretRef "takes precedence over an inline URL": an event is shown,  *)
(* in the format asked for, to the endpoint the spec points at and to no   *)
(* other, whatever the Secret holds, unless that endpoint passes it on.    *)
ShownWhereAsked ==
    delivery # NoDelivery =>
        LET asked == IF delivery.hook.hasRef THEN "secret" ELSE "inline"
            body == Payload(delivery.hook.type, delivery.resolved).value
        IN \A sight \in delivery.shown :
              /\ sight[2] = body
              /\ sight[1] = asked \/ (sight[1] = "redirected" /\ <<asked, body>> \in delivery.shown)

-----------------------------------------------------------------------------
(* What holds of every step in between, so that the above does at the end. *)

Payloads == [text : {"resolved", "drift"}] \cup [resolved : BOOLEAN]
Stages == {"resolve", "send", "sent", "ok", "failed"}
Deliveries ==
    [stage : Stages, hook : Hooks, resolved : BOOLEAN, at : Endpoints \cup {Nil},
     verb : {"POST", "GET"}, body : Payloads \cup {Nil}, redirects : 0..MaxRedirects,
     shown : SUBSET (Endpoints \X Payloads)]

(* A reconcile starts without credentials: those of the last one are gone. *)
NothingCarriedOver == phase = "start" => auth = Nil

(* An event leaves for the endpoint asked for and is shown there first;    *)
(* what a redirect passes on is the same event.                            *)
EventInHand ==
    delivery # NoDelivery =>
        LET asked == IF delivery.hook.hasRef THEN "secret" ELSE "inline"
            body == Payload(delivery.hook.type, delivery.resolved)
        IN /\ delivery.stage \in {"resolve", "send"} => delivery.shown = {}
           /\ delivery.stage = "send" => delivery.at = asked
           /\ delivery.stage = "sent" =>
                 ~body.failed /\ delivery.body = body.value /\ <<asked, body.value>> \in delivery.shown

IndInv ==
    /\ TypeOK /\ NothingCarriedOver /\ CredentialsFit
    /\ HostKeysArePinned /\ ClonesAsAsked
    /\ delivery \in Deliveries \cup {NoDelivery}
    /\ EventInHand /\ ShownWhereAsked

=============================================================================
