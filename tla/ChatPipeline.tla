------------------------------ MODULE ChatPipeline ------------------------------
(***************************************************************************)
(* One chat request on its way through the application gateway             *)
(* (application-gateway/server.py, policy.py), the NeMo policy hub         *)
(* (nemo-policy-hub/server.py, hub_core.py), the Presidio spoke and the    *)
(* models.  Requests share nothing, so one is modelled.                    *)
(*                                                                         *)
(* The application waits for the hub, but not for ever: the hub goes on    *)
(* with a request whose application has given up.  A text is the set of    *)
(* the values in it that the checks tell apart.  What a NeMo rail decides  *)
(* is anything.                                                            *)
(***************************************************************************)
EXTENDS Integers

CONSTANTS Retries   \* spoke_read_retry_count

Roles == {"public_reader", "internal_analyst", "support_agent"}
Classes == {"none", "public", "internal", "restricted"}
Purposes == {"public_information", "incident_response", "customer_support"}

Prohibited == {"key"}                        \* prohibited_entities
Entities == {"email", "account", "guess"} \cup Prohibited
\* "email" is the user's, "account" is in an authorized document, "guess" in neither;
\* "foreign" marks a document of another store.

VARIABLES mode,     \* GUARD_MODE
          request,  \* role of the principal, classification, purpose, message
          hits,     \* what the knowledge base found
          app,      \* the application: place, decision, upstream_called, retrieval, reply
          hub,      \* the hub: place, texts, attempts at the spoke, what it will answer
          model     \* the main model: called, and what it was shown

vars == <<mode, request, hits, app, hub, model>>

NoHub == [at |-> "idle", message |-> {}, context |-> {}, exact |-> {}, attempts |-> 0, reply |-> {},
          checked |-> FALSE, decision |-> "none", upstream |-> FALSE]

Init == /\ mode \in {"off", "detection", "prevent"}
        /\ request \in [role: Roles, class: Classes, purpose: Purposes, message: SUBSET {"email", "key"}]
        /\ hits = {}
        /\ app = [at |-> "start", decision |-> "none", upstream |-> "no", chunks |-> {}, reply |-> {}]
        /\ hub = NoHub
        /\ model = [called |-> FALSE, seen |-> {}]

(* The application. *)
Answer(decision, upstream, reply) ==
  app' = [app EXCEPT !.at = "done", !.decision = decision, !.upstream = upstream, !.reply = reply]

AuthenticationFails ==
  /\ app.at = "start"
  /\ Answer("401", "no", {})
  /\ UNCHANGED <<mode, request, hits, hub, model>>

\* The classifications of application-policy.yaml, and the store of each.
RequiredRoles == [public |-> Roles, internal |-> Roles \ {"public_reader"}, restricted |-> {"support_agent"}]
AllowedPurposes == [public |-> Purposes, internal |-> Purposes \ {"public_information"},
                    restricted |-> {"customer_support"}]
StorePurpose == [public |-> "public_information", internal |-> "incident_response",
                 restricted |-> "customer_support"]
ExactValueRequired == [none |-> FALSE, public |-> TRUE, internal |-> FALSE, restricted |-> TRUE]

Authorized(r) == /\ r.role \in RequiredRoles[r.class]
                 /\ r.purpose \in AllowedPurposes[r.class]
                 /\ r.purpose = StorePurpose[r.class]

Authorize ==
  /\ app.at = "start"
  /\ CASE request.class = "none" -> app' = [app EXCEPT !.at = "call"]
       [] request.class # "none" /\ Authorized(request) -> app' = [app EXCEPT !.at = "retrieve"]
       [] OTHER -> Answer("block", "no", {})
  /\ UNCHANGED <<mode, request, hits, hub, model>>

\* The search answers with hits of any store, or fails.
Hits == SUBSET [source: {"authorized"}, text: {{}, {"account"}, {"key"}}] \cup
        {h \cup {[source |-> "other", text |-> {"foreign"}]}:
           h \in SUBSET [source: {"authorized"}, text: {{"account"}, {"key"}}]}

Retrieve ==
  /\ app.at = "retrieve"
  /\ hits' \in Hits
  /\ app' = [app EXCEPT !.at = "select"]
  /\ UNCHANGED <<mode, request, hub, model>>

RetrieveFails ==
  /\ app.at = "retrieve"
  /\ Answer("infra", "no", {})
  /\ UNCHANGED <<mode, request, hits, hub, model>>
\* Mutant of Selected: the search's sources are trusted.
SelectedAll == hits

Selected == {h \in hits: h.source = "authorized"}

Select ==
  /\ app.at = "select"
  /\ IF Selected # {} THEN app' = [app EXCEPT !.at = "call", !.chunks = UNION {h.text: h \in Selected}]
                      ELSE Answer("block", "no", {})
  /\ UNCHANGED <<mode, request, hits, hub, model>>

\* The hub refuses a request while it has not found the model it is locked to.
CallHub == \E ready \in BOOLEAN:
  /\ app.at = "call"
  /\ app' = [app EXCEPT !.at = "wait"]
  /\ hub' = [NoHub EXCEPT !.at = IF ~ready THEN "refused" ELSE IF mode = "off" THEN "model" ELSE "input",
                          !.message = request.message,
                          !.context = IF mode = "off" THEN app.chunks ELSE {}]
  /\ UNCHANGED <<mode, request, hits, model>>

\* No answer, an error, or one that breaks the contract.
HubLost ==
  /\ app.at = "wait"
  /\ Answer("infra", "unknown", {})
  /\ UNCHANGED <<mode, request, hits, hub, model>>

HubAnswered ==
  /\ app.at = "wait"
  /\ hub.at = "answered"
  /\ Answer(hub.decision, IF hub.upstream THEN "yes" ELSE "no", hub.reply)
  /\ UNCHANGED <<mode, request, hits, hub, model>>

(* The hub. *)
Respond(decision, reply) ==
  hub' = [hub EXCEPT !.at = "answered", !.decision = decision, !.reply = reply, !.attempts = 0]

\* Any exception: the answer says whether the model may have been called.
Infra == Respond("infra", {})

\* analyze_privacy: the spoke is asked again, then the request fails.
SpokeFails ==
  /\ hub.at \in {"input", "retrieval", "privacy"}
  /\ IF hub.attempts < Retries THEN hub' = [hub EXCEPT !.attempts = @ + 1] ELSE Infra
  /\ UNCHANGED <<mode, request, hits, app, model>>

Found(text) == text \cap Entities
Sanitized(text) == text \ Entities

MessageForModel == IF mode = "prevent" THEN Sanitized(hub.message) ELSE hub.message

PrivacyInput ==
  /\ hub.at = "input"
  /\ IF Found(hub.message) \cap Prohibited # {} /\ mode = "prevent"
       THEN Respond("block", {})
       ELSE hub' = [hub EXCEPT !.at = "rails", !.message = MessageForModel, !.attempts = 0]
  /\ UNCHANGED <<mode, request, hits, app, model>>

InputRails == \E valid \in BOOLEAN:
  /\ hub.at = "rails"
  /\ IF ~valid /\ mode = "prevent"
       THEN Respond("block", {})
       ELSE hub' = [hub EXCEPT !.at = IF request.class = "none" THEN "model" ELSE "retrieval"]
  /\ UNCHANGED <<mode, request, hits, app, model>>

PrivacyRetrieval ==
  LET found == Found(app.chunks)
      prohibited == found \cap Prohibited # {}
      exact == ~prohibited /\ ExactValueRequired[request.class]
      redacted == mode = "prevent" /\ ~prohibited /\ ~exact
  IN /\ hub.at = "retrieval"
     /\ IF prohibited /\ mode = "prevent"
          THEN Respond("block", {})
          ELSE hub' = [hub EXCEPT !.at = "model", !.attempts = 0,
                         !.exact = IF exact THEN app.chunks ELSE {},
                         !.context = IF redacted THEN Sanitized(app.chunks) ELSE app.chunks]
     /\ UNCHANGED <<mode, request, hits, app, model>>
\* Mutant of CallModel: the call is noted when its answer comes.
CallModelUnnoted == \E reached \in BOOLEAN:
  /\ hub.at = "model"
  /\ model' = IF reached THEN [called |-> TRUE, seen |-> hub.message \cup hub.context] ELSE model
  /\ hub' = [hub EXCEPT !.at = "reply"]
  /\ UNCHANGED <<mode, request, hits, app>>

\* call_main_model, which may fail before the model is reached.  The reply may hold
\* anything the model was shown, and what it makes up.
CallModel == \E reached \in BOOLEAN:
  /\ hub.at = "model"
  /\ model' = IF reached THEN [called |-> TRUE, seen |-> hub.message \cup hub.context] ELSE model
  /\ hub' = [hub EXCEPT !.at = "reply", !.upstream = TRUE]
  /\ UNCHANGED <<mode, request, hits, app>>

ModelReplies == \E reply \in SUBSET (model.seen \cup {"guess"}), intervened \in BOOLEAN:
  /\ hub.at = "reply" /\ model.called
  /\ CASE intervened /\ mode = "prevent" -> Respond("block", reply)
       [] mode = "off" -> Respond("allow", reply)
       [] OTHER -> hub' = [hub EXCEPT !.at = "output", !.reply = reply]
  /\ UNCHANGED <<mode, request, hits, app, model>>

\* A rail, or the model's gateway, raises.
DependencyFails ==
  /\ hub.at \in {"rails", "reply", "output"}
  /\ Infra
  /\ UNCHANGED <<mode, request, hits, app, model>>

\* evaluate_output: the rails, then the spoke.
OutputRails == \E valid \in BOOLEAN:
  /\ hub.at = "output"
  /\ CASE valid -> hub' = [hub EXCEPT !.at = "privacy", !.checked = TRUE]
       [] ~valid /\ mode = "prevent" -> Respond("block", {})
       [] OTHER -> Respond("allow", hub.reply)
  /\ UNCHANGED <<mode, request, hits, app, model>>
\* Mutant of AllAuthorized: one authorized value releases the reply.
AllAuthorizedAny(found) == found \cap hub.exact # {}

AllAuthorized(found) == found # {} /\ found \subseteq hub.exact
Released(text) == IF AllAuthorized(Found(text)) THEN text ELSE Sanitized(text)

PrivacyOutput ==
  /\ hub.at = "privacy"
  /\ IF mode # "prevent" THEN Respond("allow", hub.reply)
     ELSE IF Released(hub.reply) = hub.reply THEN Respond("allow", hub.reply)
     ELSE Respond("redact", Released(hub.reply))
  /\ UNCHANGED <<mode, request, hits, app, model>>

Application == AuthenticationFails \/ Authorize \/ Retrieve \/ RetrieveFails \/ Select \/ CallHub
               \/ HubLost \/ HubAnswered
Hub == SpokeFails \/ PrivacyInput \/ InputRails \/ PrivacyRetrieval \/ CallModel \/ ModelReplies
       \/ DependencyFails \/ OutputRails \/ PrivacyOutput
Next == Application \/ Hub
Spec == Init /\ [][Next]_vars

Texts == SUBSET (Entities \cup {"foreign"})
TypeOK == /\ mode \in {"off", "detection", "prevent"}
          /\ request \in [role: Roles, class: Classes, purpose: Purposes, message: Texts]
          /\ hits \subseteq [source: {"authorized", "other"}, text: Texts]
          /\ app \in [at: {"start", "retrieve", "select", "call", "wait", "done"},
                      decision: {"none", "401", "infra", "allow", "redact", "block"},
                      upstream: {"no", "yes", "unknown"}, chunks: Texts, reply: Texts]
          /\ hub \in [at: {"idle", "refused", "input", "rails", "retrieval", "model", "reply", "output",
                           "privacy", "answered"},
                      message: Texts, context: Texts, exact: Texts, attempts: 0..Retries, reply: Texts,
                      checked: BOOLEAN, decision: {"none", "infra", "allow", "redact", "block"},
                      upstream: BOOLEAN]
          /\ model \in [called: BOOLEAN, seen: Texts]

\* Who was told that the model was not called was told the truth, and stays told the
\* truth: nothing of the request calls it later.
NoFalseDenial == app.at = "done" /\ app.upstream = "no" => ~model.called

\* Nobody's document reaches the model, or the user, from a store that the request is
\* not authorized for; values of a document only where the policy asks for them, and
\* with the guard preventing, no prohibited value and nothing of the user's own.
ModelSeesAuthorized == model.called =>
  /\ "foreign" \notin model.seen
  /\ "account" \in model.seen => Authorized(request)
  /\ mode = "prevent" => /\ model.seen \cap {"email", "key"} = {}
                         /\ "account" \in model.seen => ExactValueRequired[request.class]

\* With the guard preventing, what is released has been checked, and of what the
\* spoke finds only values of authorized documents are left in it.
ReleasedIsChecked == app.decision \in {"allow", "redact"} /\ mode = "prevent" =>
  /\ hub.checked
  /\ Found(app.reply) \subseteq app.chunks
  /\ Found(app.reply) # {} => ExactValueRequired[request.class] /\ Authorized(request)
===============================================================================
