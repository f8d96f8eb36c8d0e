---------------------------- MODULE MCOrchestrate ----------------------------
(***************************************************************************)
(* Inputs for model-checking V3Orchestrate.                                *)
(***************************************************************************)
EXTENDS V3Properties

TwoComponents   == <<"adn", "sentinel_ai">>
ThreeComponents == <<"adn", "dqsn", "sentinel_ai">>

TwoBridges   == <<"sentinel_ai", "adn">>
ThreeBridges == <<"sentinel_ai", "dqsn", "adn">>

Header(status, text, nonce) == [status |-> status, text |-> text, nonce |-> nonce]

GoodHeader == Header("ok", "plain", Plain("nonce"))

\* A valid request has strings everywhere; only an invalid one may hold fields
\* that are not JSON.
EveryHeader ==
  {Header("ok", text, nonce) : text \in {"plain", "not UTF-8"},
     nonce \in {Plain("nonce"), Padded("nonce"), Padded(""), Plain(Surrogate)}}
  \cup {Header(status, text, Plain("nonce")) : status \in {"wrong version", "invalid"},
          text \in {"plain", "not JSON", "not UTF-8"}}

OneHeader == {GoodHeader}

Here == <<"given", "here">>

Payload(id, context, inputs, content) ==
  [request_id |-> id, context |-> context, inputs |-> inputs, content |-> content]

EveryPayload ==
  {Payload(id, context, inputs, content) :
     id \in {Plain(""), Plain("request"), Plain(Surrogate)},
     context \in {Absent, Here, Malformed},
     inputs \in {Supported, Supported \ {"adn"}},
     content \in {"plain", "not JSON", "not UTF-8", "not copyable", "copy raises"}}

\* What a payload may change into under a running call; an engine can only change
\* the rest of it.  Two contents without a hash of their own, two under one that
\* the payload names.
ChangingPayloads ==
  {Payload(Plain("request"), Absent, Supported, "plain"),
   Payload(Plain("request"), Absent, Supported, "plain, changed"),
   Payload(Plain(""), Here, Supported, "plain"),
   Payload(Plain(""), Here, Supported, "plain, changed"),
   Payload(Plain("request"), Malformed, Supported, "plain"),
   Payload(Plain("request"), Here, {}, "not JSON")}

EveryAnswer ==
  {"ALLOW", "ESCALATE", "DENY", "unknown", "raises", "not an object",
   "claims authority", "not JSON", "not UTF-8", "trace", "foreign"}

PlainAnswers == {"ALLOW", "ESCALATE", "DENY", "raises"}
=============================================================================
