------------------------------ MODULE MCReceipts ------------------------------
(***************************************************************************)
(* Inputs for model-checking ReceiptExchange: lists of verdicts of three   *)
(* components, in two orders, complete or not.                             *)
(***************************************************************************)
EXTENDS ReceiptExchange

ThreeComponents == <<"adn", "dqsn", "qwg">>

Here      == <<"given", "here">>
Elsewhere == <<"given", "elsewhere">>

BothContexts == {Here, Elsewhere}

OneContext == {Here}

SomeRequestIds == {Plain("request"), Padded("request"), Plain(""), Plain(Surrogate)}

OneRequestId == {Plain("request")}

Verdict(id, decision) ==
  [ faults |-> {}, component_id |-> Plain(id), request_id |-> Plain("request"),
    context_hash |-> Here, decision |-> Plain(decision) ]

\* One verdict per component, every combination of decisions.
Complete ==
  {[i \in DOMAIN SupportedComponents |-> Verdict(SupportedComponents[i], said[i])] :
     said \in [DOMAIN SupportedComponents -> SupportedDecisions]}

\* One verdict of an allowing list changed in one field.
Defective ==
  LET list == [i \in DOMAIN SupportedComponents |-> Verdict(SupportedComponents[i], "ALLOW")]
  IN  UNION {{ [list EXCEPT ![2].faults = {"reason_ids"}],
               [list EXCEPT ![2].context_hash = Elsewhere],
               [list EXCEPT ![2].decision = Plain("MAYBE")],
               [list EXCEPT ![2].component_id = Plain("unknown")],
               [list EXCEPT ![2].component_id = Plain("adn")] },
             { Tail(list), Append(list, Verdict("adn", "DENY")), <<>> }}

PlainLists ==
  Complete \cup {Reverse(list) : list \in Complete} \cup Defective

\* Verdicts whose decision or component id carries white space.
PaddedLists ==
  Complete \cup
  UNION {{ [list EXCEPT ![1].decision = Padded(list[1].decision.name)],
           Append(list, [list[1] EXCEPT !.component_id = Padded(list[1].component_id.name)]) } :
         list \in Complete}
===============================================================================
